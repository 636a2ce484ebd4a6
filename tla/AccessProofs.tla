----------------------------- MODULE AccessProofs -----------------------------
(***************************************************************************)
(* What the tables say of an identity, for any number of requests, emails, *)
(* tenants and keys, and any secret the daemon is restarted with.          *)
(***************************************************************************)
EXTENDS Access, FiniteSetTheorems, TLAPS

\* OwnTenant, among the accounts given.
OwnAmong(accounts, user, tenant) ==
  IF user = System THEN tenant = Default
  ELSE \E u \in accounts : u.id = user /\ u.tenant = tenant

\* A credential that would be taken for a token speaks for an account.
Speaks(accounts, cred) == cred.kind = "jwt" => OwnAmong(accounts, cred.sub, cred.tenant)

\* Accounts are numbered from 1, as the users table does; none is the system's.
UsersInv ==
  /\ IsFiniteSet(users)
  /\ \A u \in users : u.id \in Nat \ {System}
  /\ OneAccountPerEmail

\* Key ids are given out once, and the tables know of no other.
KeysInv ==
  /\ lastKey \in Nat /\ revoked \subseteq 1 .. lastKey
  /\ \A k \in keys : /\ DOMAIN k = {"id", "user", "tenant", "used"}
                     /\ k.id \in 1 .. lastKey /\ k.id \notin revoked
                     /\ OwnAmong(users, k.user, k.tenant)
  /\ \A k, l \in keys : k.id = l.id => k = l

\* What a request has found out so far is of accounts that exist.
Vouched(accounts, q) ==
  /\ q.step = "verify" => q.user \subseteq accounts
  /\ q.step = "inbox" => Speaks(accounts, q.token)
  /\ q.step = "answered" => q.token = None \/ Speaks(accounts, q.token)
  /\ q.step = "serve" /\ q.auth # NoAuth
       => OwnAmong(accounts, q.auth.user, q.auth.tenant) /\ q.tenant \in {None, q.auth.tenant}

AccessInv ==
  /\ UsersInv /\ KeysInv
  /\ stored = None \/ Speaks(users, stored)
  /\ req = [r \in Request |-> req[r]]
  /\ \A r \in Request : Vouched(users, req[r])

LEMMA AccessInvHoldsTheIdentity == AccessInv => IdentityHolds
BY DEF AccessInv, UsersInv, KeysInv, Vouched, IdentityHolds, TenantComesFromIdentity,
       RevokedStaysRevoked, OwnTenant, OwnAmong

LEMMA AccessInvInit == Init => AccessInv
<1>1. IsFiniteSet({})
  BY FS_EmptySet
<1>2. ASSUME Init PROVE req = [r \in Request |-> req[r]] /\ \A r \in Request : req[r] = Idle
  BY <1>2 DEF Init
<1>3. Vouched(users, Idle)
  BY DEF Vouched, Idle
<1> QED
  BY <1>1, <1>2, <1>3 DEF Init, AccessInv, UsersInv, KeysInv, OneAccountPerEmail

-----------------------------------------------------------------------------
(* Accounts are never deleted.                                             *)

LEMMA AccountsStay ==
  ASSUME NEW accounts, NEW more, accounts \subseteq more, NEW user, NEW tenant,
         OwnAmong(accounts, user, tenant)
  PROVE  OwnAmong(more, user, tenant)
BY DEF OwnAmong

LEMMA SpeaksStays ==
  ASSUME NEW accounts, NEW more, accounts \subseteq more, NEW cred, Speaks(accounts, cred)
  PROVE  Speaks(more, cred)
BY AccountsStay DEF Speaks

LEMMA VouchedStays ==
  ASSUME NEW accounts, NEW more, accounts \subseteq more, NEW q, Vouched(accounts, q)
  PROVE  Vouched(more, q)
BY AccountsStay, SpeaksStays DEF Vouched

\* A request that leaves the keys and the browser alone need only be vouched for
\* itself.
LEMMA RequestMoves ==
  ASSUME AccessInv, NEW r \in Request, NEW q, Becomes(r, q), Vouched(users', q),
         UsersInv', users \subseteq users',
         UNCHANGED <<keys, lastKey, revoked, stored>>
  PROVE  AccessInv'
<1>1. req' = [x \in Request |-> req'[x]] /\ req'[r] = q
      /\ \A x \in Request : x # r => req'[x] = req[x]
  BY DEF AccessInv, Becomes
<1>2. \A x \in Request : Vouched(users', req'[x])
  BY <1>1, VouchedStays DEF AccessInv
<1>3. KeysInv'
  BY AccountsStay DEF AccessInv, KeysInv
<1>4. stored' = None \/ Speaks(users', stored')
  BY SpeaksStays DEF AccessInv
<1> QED
  BY <1>1, <1>2, <1>3, <1>4 DEF AccessInv

-----------------------------------------------------------------------------
(* The steps.                                                              *)

\* An answer vouches for the token it carries, and for nothing else.
LEMMA AnswersAreVouched ==
  ASSUME NEW accounts, NEW asked, NEW status, NEW token,
         token = None \/ Speaks(accounts, token)
  PROVE  Vouched(accounts, Answered(asked, status, token))
BY DEF Vouched, Answered, Idle

\* A token is made for an account that is there.
LEMMA TokensSpeak ==
  ASSUME NEW accounts, NEW user \in accounts, user.id # System
  PROVE  Speaks(accounts, Token(user))
BY DEF Speaks, Token, OwnAmong

LEMMA ServedIsVouched ==
  ASSUME NEW accounts, NEW asked, NEW user, NEW tenant, OwnAmong(accounts, user, tenant)
  PROVE  Vouched(accounts, ServedAs(asked, [user |-> user, tenant |-> tenant]))
<1> DEFINE auth == [user |-> user, tenant |-> tenant]
           q == ServedAs(asked, auth)
<1>1. q.step = "serve" /\ q.auth = auth /\ q.tenant = TenantFor(auth, asked.header)
  BY DEF ServedAs, With
<1>2. auth # NoAuth => TenantFor(auth, asked.header) \in {None, tenant}
  BY DEF TenantFor
<1> HIDE DEF q
<1>3. Vouched(accounts, q)
  BY <1>1, <1>2 DEF Vouched
<1> QED
  BY <1>3 DEF q

LEMMA AnonymousIsVouched ==
  ASSUME NEW accounts, NEW asked
  PROVE  Vouched(accounts, ServedAs(asked, NoAuth))
<1> DEFINE q == ServedAs(asked, NoAuth)
<1>1. q.step = "serve" /\ q.auth = NoAuth
  BY DEF ServedAs, With
<1> HIDE DEF q
<1>2. Vouched(accounts, q)
  BY <1>1 DEF Vouched
<1> QED
  BY <1>2 DEF q

LEMMA SendKeeps ==
  ASSUME AccessInv, NEW r \in Request, NEW op, NEW header, NEW from, NEW cred,
         Speaks(users, cred), Send(r, op, header, from, cred)
  PROVE  AccessInv'
<1> DEFINE asked == [op |-> op, header |-> header, from |-> from, sent |-> cred]
           lookup == With(asked, [step |-> "lookup"])
<1>1. Vouched(users, lookup)
  <2>1. lookup.step = "lookup"
    BY DEF With
  <2> QED
    BY <2>1 DEF Vouched
<1>2. Vouched(users, ServedAs(asked, NoAuth))
  BY AnonymousIsVouched
<1>3. verifyJwt(cred) => Vouched(users, ServedAs(asked, [user |-> cred.sub, tenant |-> cred.tenant]))
  BY ServedIsVouched DEF verifyJwt, Speaks
<1>4. Vouched(users, ServedAs(asked, [user |-> System, tenant |-> Default]))
  BY ServedIsVouched DEF OwnAmong
<1> HIDE DEF asked, lookup
<1>5. PICK q : Becomes(r, q) /\ Vouched(users, q)
  BY <1>1, <1>2, <1>3, <1>4 DEF Send, asked, lookup
<1>6. /\ users' = users
      /\ UNCHANGED <<keys, lastKey, revoked, stored>>
  BY DEF Send, tables
<1> QED
  BY <1>5, <1>6, RequestMoves DEF AccessInv, UsersInv, OneAccountPerEmail

\* What goes with a call speaks for an account, or is not a token.
LEMMA CredentialsSpeak ==
  ASSUME AccessInv
  PROVE  Speaks(users, FromBrowser) /\ \A id : Speaks(users, Key(id))
BY DEF AccessInv, Speaks, FromBrowser, LegacyToken, Key

\* The look-up before the insert decides nothing: the insert does.
LEMMA InsertKeeps ==
  ASSUME AccessInv, NEW r \in Request, InsertUser(r)
  PROVE  AccessInv'
<1> DEFINE user == [id |-> Cardinality(users) + 1, email |-> req[r].email, tenant |-> req[r].tenant]
<1>1. UNCHANGED <<keys, lastKey, revoked, stored>>
  BY DEF InsertUser
<1>2. CASE UniqueViolation(user.email)
  <2>1. Becomes(r, Answered(req[r], 409, None)) /\ users' = users
    BY <1>2 DEF InsertUser, Answer
  <2> QED
    BY <1>1, <2>1, AnswersAreVouched, RequestMoves DEF AccessInv, UsersInv, OneAccountPerEmail
<1>3. CASE ~UniqueViolation(user.email)
  <2>1. users' = users \cup {user} /\ user \in users'
    BY <1>3 DEF InsertUser
  <2>2. Cardinality(users) \in Nat /\ IsFiniteSet(users')
    <3>1. IsFiniteSet(users)
      BY DEF AccessInv, UsersInv
    <3> HIDE DEF user
    <3> QED
      BY <2>1, <3>1, FS_CardinalityType, FS_AddElement
  <2>3. user.id \in Nat \ {System}
    BY <2>2 DEF System
  <2>4. \A u \in users : u.email # user.email
    BY <1>3 DEF UniqueViolation, AccountOf
  <2> HIDE DEF user
  <2>5. UsersInv'
    BY <2>1, <2>2, <2>3, <2>4 DEF AccessInv, UsersInv, OneAccountPerEmail
  <2>6. Vouched(users', Answered(req[r], 500, None))
    BY AnswersAreVouched
  <2> DEFINE q == With(req[r], [step |-> "inbox", user |-> user, token |-> Token(user)])
  <2>7. Vouched(users', q)
    <3>1. q.step = "inbox" /\ q.token = Token(user)
      BY DEF With
    <3>2. Speaks(users', Token(user))
      BY <2>1, <2>3, TokensSpeak
    <3> HIDE DEF q
    <3> QED
      BY <3>1, <3>2 DEF Vouched
  <2>8. Becomes(r, Answered(req[r], 500, None)) \/ Becomes(r, q)
    BY <1>3 DEF InsertUser, Answer, user
  <2> HIDE DEF q
  <2> QED
    BY <1>1, <2>1, <2>5, <2>6, <2>7, <2>8, RequestMoves
<1> QED
  BY <1>2, <1>3

\* An answer that leaves the tables alone.
LEMMA AnswerKeeps ==
  ASSUME AccessInv, NEW r \in Request, NEW status, NEW token,
         token = None \/ Speaks(users, token),
         Answer(r, status, token),
         UNCHANGED <<users, keys, lastKey, revoked, stored>>
  PROVE  AccessInv'
BY AnswersAreVouched, RequestMoves DEF AccessInv, UsersInv, OneAccountPerEmail, Answer

\* Requests that make no key and delete none.
LEMMA OtherRequestsKeep ==
  ASSUME AccessInv, NEW r \in Request,
         \/ \E email \in Email, tenant \in Tenant : Register(r, email, tenant)
         \/ \E email \in Email : Login(r, email)
         \/ SeedInbox(r) \/ (\E right \in BOOLEAN : VerifyPassword(r, right))
         \/ LookupKey(r) \/ Me(r) \/ UseBackend(r) \/ QueryFails(r)
  PROVE  AccessInv'
<1>1. ASSUME NEW q, Becomes(r, q), Vouched(users, q),
             UNCHANGED <<users, keys, lastKey, revoked, stored>>
      PROVE  AccessInv'
  BY <1>1, RequestMoves DEF AccessInv, UsersInv, OneAccountPerEmail
<1>2. Vouched(users, req[r])
  BY DEF AccessInv
<1>3. ASSUME NEW email \in Email, NEW tenant \in Tenant, Register(r, email, tenant)
      PROVE  AccessInv'
  <2> DEFINE asked == [op |-> "register", email |-> email, tenant |-> tenant,
                       from |-> "browser", sent |-> stored]
             q == With(asked, [step |-> "hashed"])
  <2>1. q.step = "hashed"
    BY DEF With
  <2>2. Becomes(r, q) \/ Becomes(r, Answered(asked, 409, None))
    BY <1>3 DEF Register
  <2>3. UNCHANGED <<users, keys, lastKey, revoked, stored>>
    BY <1>3 DEF Register, tables
  <2> HIDE DEF q
  <2>4. Vouched(users, q)
    BY <2>1 DEF Vouched
  <2> QED
    BY <1>1, <2>2, <2>3, <2>4, AnswersAreVouched
<1>4. ASSUME NEW email \in Email, Login(r, email) PROVE AccessInv'
  <2> DEFINE q == [step |-> "verify", op |-> "login", user |-> AccountOf(email),
                   from |-> "browser", sent |-> stored]
  <2>1. Vouched(users, q)
    BY DEF Vouched, AccountOf
  <2>2. Becomes(r, q) /\ UNCHANGED <<users, keys, lastKey, revoked, stored>>
    BY <1>4 DEF Login, tables
  <2> HIDE DEF q
  <2> QED
    BY <1>1, <2>1, <2>2
<1>5. ASSUME SeedInbox(r) PROVE AccessInv'
  BY <1>2, <1>5, AnswerKeeps DEF SeedInbox, tables, Vouched
<1>6. ASSUME NEW right \in BOOLEAN, VerifyPassword(r, right) PROVE AccessInv'
  <2>1. req[r].user \subseteq users /\ UNCHANGED <<users, keys, lastKey, revoked, stored>>
    BY <1>2, <1>6 DEF Vouched, VerifyPassword, tables
  <2>2. \A user \in users : Speaks(users, Token(user))
    BY TokensSpeak DEF AccessInv, UsersInv
  <2>3. \/ Answer(r, 401, None) \/ Answer(r, 500, None)
        \/ \E user \in users : Answer(r, 200, Token(user))
    BY <1>6, <2>1 DEF VerifyPassword
  <2> QED
    BY <2>1, <2>2, <2>3, AnswerKeeps
<1>7. ASSUME LookupKey(r) PROVE AccessInv'
  <2>1. UNCHANGED <<users, keys, lastKey, revoked, stored>>
    BY <1>7 DEF LookupKey, tables
  <2>2. \/ Answer(r, 401, None)
        \/ \E k \in keys : Becomes(r, ServedAs(req[r], [user |-> k.user, tenant |-> k.tenant]))
    BY <1>7 DEF LookupKey
  <2>3. \A k \in keys : OwnAmong(users, k.user, k.tenant)
    BY DEF AccessInv, KeysInv
  <2>4. \A k \in keys : Vouched(users, ServedAs(req[r], [user |-> k.user, tenant |-> k.tenant]))
    BY <2>3, ServedIsVouched
  <2> QED
    BY <1>1, <2>1, <2>2, <2>4, AnswerKeeps
<1>8. ASSUME Me(r) \/ UseBackend(r) \/ QueryFails(r) PROVE AccessInv'
  <2>1. \E status : Answer(r, status, None)
    BY <1>8 DEF Me, UseBackend, QueryFails
  <2>2. UNCHANGED <<users, keys, lastKey, revoked, stored>>
    BY <1>8 DEF Me, UseBackend, QueryFails, tables
  <2> QED
    BY <2>1, <2>2, AnswerKeeps
<1> QED
  BY <1>3, <1>4, <1>5, <1>6, <1>7, <1>8

\* A key is made for the account and in the tenant it was asked for as.
LEMMA CreateKeyKeeps ==
  ASSUME AccessInv, NEW r \in Request, CreateKey(r)
  PROVE  AccessInv'
<1> DEFINE auth == req[r].auth
<1>1. /\ Vouched(users, req[r]) /\ req[r].step = "serve"
      /\ UNCHANGED <<users, revoked, stored>>
      /\ Answer(r, 401, None) \/ Answer(r, 500, None) \/ Answer(r, 201, None)
  BY DEF AccessInv, CreateKey, Serving
<1>2. CASE UNCHANGED <<keys, lastKey>>
  BY <1>1, <1>2, AnswerKeeps
<1>3. CASE /\ auth # NoAuth /\ lastKey' = lastKey + 1
           /\ keys' = keys \cup {[id |-> lastKey', user |-> auth.user, tenant |-> auth.tenant, used |-> FALSE]}
  <2> DEFINE key == [id |-> lastKey', user |-> auth.user, tenant |-> auth.tenant, used |-> FALSE]
  <2>1. OwnAmong(users, auth.user, auth.tenant)
    BY <1>1, <1>3 DEF Vouched
  <2>2. lastKey \in Nat /\ lastKey' = lastKey + 1 /\ revoked \subseteq 1 .. lastKey
    BY <1>3 DEF AccessInv, KeysInv
  <2>3. /\ DOMAIN key = {"id", "user", "tenant", "used"}
        /\ key.id = lastKey' /\ key.user = auth.user /\ key.tenant = auth.tenant
    OBVIOUS
  <2>4. keys' = keys \cup {key}
    BY <1>3
  <2> HIDE DEF key
  <2>5. \A k \in keys : DOMAIN k = {"id", "user", "tenant", "used"} /\ k.id \in 1 .. lastKey
                        /\ k.id \notin revoked /\ OwnAmong(users, k.user, k.tenant)
    BY DEF AccessInv, KeysInv
  <2>6. \A k \in keys : k.id \in 1 .. lastKey' /\ k.id # key.id
    BY <2>2, <2>3, <2>5
  <2>7. key.id \in 1 .. lastKey' /\ key.id \notin revoked /\ revoked' \subseteq 1 .. lastKey'
    BY <1>1, <2>2, <2>3
  <2>8. \A k, l \in keys : k.id = l.id => k = l
    BY DEF AccessInv, KeysInv
  <2>9. lastKey' \in Nat
    BY <2>2
  <2>10. KeysInv'
    BY <1>1, <2>1, <2>3, <2>4, <2>5, <2>6, <2>7, <2>8, <2>9 DEF KeysInv
  <2>11. \E q : Becomes(r, q) /\ Vouched(users, q)
    BY <1>1, AnswersAreVouched DEF Answer
  <2>12. /\ req' = [x \in Request |-> req'[x]]
         /\ \A x \in Request : Vouched(users, req'[x])
    BY <2>11 DEF AccessInv, Becomes
  <2> QED
    BY <1>1, <2>10, <2>12 DEF AccessInv, UsersInv, OneAccountPerEmail
<1> QED
  BY <1>2, <1>3 DEF CreateKey

\* What is deleted was the only key of its id, and no later key has that id.
LEMMA DeleteKeyKeeps ==
  ASSUME AccessInv, NEW r \in Request, NEW id \in 1 .. MaxKeys, DeleteKey(r, id)
  PROVE  AccessInv'
<1> DEFINE mine == {k \in keys : k.id = id /\ k.user = req[r].auth.user}
<1>1. /\ keys' = keys \ mine /\ revoked' = revoked \cup {k.id : k \in mine}
      /\ UNCHANGED <<users, lastKey, stored>>
      /\ \E status : Answer(r, status, None)
  BY DEF DeleteKey
<1>2. \A k \in mine : k \in keys /\ k.id \in 1 .. lastKey
  BY DEF AccessInv, KeysInv
<1>3. \A k \in keys', l \in mine : k.id # l.id
  BY <1>1 DEF AccessInv, KeysInv
<1> HIDE DEF mine
<1>4. revoked' \subseteq 1 .. lastKey
  BY <1>1, <1>2 DEF AccessInv, KeysInv
<1>5. \A k \in keys' : k \in keys /\ k.id \notin revoked'
  BY <1>1, <1>3 DEF AccessInv, KeysInv
<1>6. KeysInv'
  BY <1>1, <1>4, <1>5 DEF AccessInv, KeysInv
<1>7. \E q : Becomes(r, q) /\ Vouched(users, q)
  BY <1>1, AnswersAreVouched DEF Answer
<1>8. /\ req' = [x \in Request |-> req'[x]]
      /\ \A x \in Request : Vouched(users, req'[x])
  BY <1>7 DEF AccessInv, Becomes
<1> QED
  BY <1>1, <1>6, <1>8 DEF AccessInv, UsersInv, OneAccountPerEmail

\* The update of last_used_at brings no deleted key back.
LEMMA TouchKeeps ==
  ASSUME AccessInv, NEW t \in touches, touchApiKey(t)
  PROVE  AccessInv'
<1> DEFINE after(k) == IF k.id = t.id THEN [k EXCEPT !.used = TRUE] ELSE k
<1>1. /\ keys' = {after(k) : k \in keys}
      /\ UNCHANGED <<users, lastKey, revoked, stored, req>>
  BY DEF touchApiKey, Touched
<1>2. ASSUME NEW k \in keys
      PROVE  /\ DOMAIN after(k) = {"id", "user", "tenant", "used"}
             /\ after(k).id = k.id /\ after(k).user = k.user /\ after(k).tenant = k.tenant
  BY DEF AccessInv, KeysInv
<1> HIDE DEF after
<1>3. \A x \in keys' : \E k \in keys : x = after(k)
  BY <1>1
<1>4. KeysInv'
  BY <1>1, <1>2, <1>3 DEF AccessInv, KeysInv
<1> QED
  BY <1>1, <1>4 DEF AccessInv, UsersInv, OneAccountPerEmail

\* What the browser keeps came with an answer; a restart ends requests.
LEMMA BrowserKeeps ==
  ASSUME AccessInv,
         (\E r \in Request : Deliver(r) \/ Lose(r)) \/ SignOut \/ Tick \/ Restart
  PROVE  AccessInv'
<1>1. UNCHANGED <<users, keys, lastKey, revoked>>
  BY DEF Deliver, Lose, SignOut, Tick, Restart, tables
<1>2. KeysInv' /\ UsersInv'
  BY <1>1 DEF AccessInv, KeysInv, UsersInv, OneAccountPerEmail
<1>3. Vouched(users, Idle)
  BY DEF Vouched, Idle
<1>4. \A r \in Request : Vouched(users, req[r])
  BY DEF AccessInv
<1>5. stored' \in {stored, None} \/ \E r \in Request : req[r].step = "answered" /\ stored' = req[r].token
  BY DEF Deliver, StoredAfter, Lose, SignOut, Tick, Restart
<1>6. stored' = None \/ Speaks(users, stored')
  BY <1>4, <1>5 DEF AccessInv, Vouched
<1>7. /\ req' = [x \in Request |-> req'[x]]
      /\ \A x \in Request : req'[x] \in {req[x], Idle}
  BY DEF AccessInv, Deliver, Lose, SignOut, Tick, Restart, Becomes
<1> QED
  BY <1>1, <1>2, <1>3, <1>4, <1>6, <1>7 DEF AccessInv

LEMMA AccessInvStep == AccessInv /\ [Next]_vars => AccessInv'
<1> SUFFICES ASSUME AccessInv, [Next]_vars PROVE AccessInv'
  OBVIOUS
<1>1. ASSUME NEW r \in Request, NEW op, NEW header, Call(r, op, header) PROVE AccessInv'
  BY <1>1, CredentialsSpeak, SendKeeps DEF Call
<1>2. ASSUME Poll PROVE AccessInv'
  BY <1>2, CredentialsSpeak, SendKeeps DEF Poll
<1>3. ASSUME NEW r \in Request, Advance(r) PROVE AccessInv'
  BY <1>3, InsertKeeps, OtherRequestsKeep, CreateKeyKeeps, DeleteKeyKeeps, BrowserKeeps DEF Advance
<1>4. CASE UNCHANGED vars
  BY <1>4 DEF vars, tables, AccessInv, UsersInv, OneAccountPerEmail, KeysInv
<1> QED
  BY <1>1, <1>2, <1>3, <1>4, OtherRequestsKeep, TouchKeeps, BrowserKeeps DEF Next

\* An email has one account, an identity acts in its account's tenant, and a
\* revoked key never comes back, however the requests, key updates, restarts and
\* new secrets cross.
THEOREM IdentitiesHold == Spec => []IdentityHolds
BY AccessInvInit, AccessInvStep, AccessInvHoldsTheIdentity, PTL DEF Spec
=============================================================================
