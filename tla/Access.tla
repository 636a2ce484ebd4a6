-------------------------------- MODULE Access --------------------------------
(***************************************************************************)
(* Accounts, API keys and the gate of the daemon (src/api/auth.ts,         *)
(* src/api/authRoutes.ts, src/session/authStore.ts, src/session/jwt.ts,    *)
(* src/session/tenant.ts, src/api/projects.ts), with the browser that keeps *)
(* a signed-in session (dashboard/src/lib/auth.ts, lib/api.ts, the login   *)
(* page) behind the dashboard's proxy, and scripts that hold API keys.     *)
(*                                                                         *)
(* A request takes a step per await: the query, the hash or the key lookup *)
(* it waits for.  Emails are their lower-case form, which is what is stored *)
(* and compared.  A restart ends the requests in flight.                   *)
(***************************************************************************)
EXTENDS Naturals, FiniteSets

CONSTANTS
  Tenant, Default,   \* DEFAULT_TENANT_ID \in Tenant
  Email,
  Request,           \* requests that may be in flight, one at a time each
  Secret, NoSecret,  \* values ATLASLINK_JWT_SECRET is given, and its absence
  None,
  Header,            \* tenants an x-tenant-id header may name
  Loopback,          \* whether the daemon binds to a loopback address
  MaxKeys, MaxTurns  \* bounds: keys; token lifetimes and restarts together

ASSUME AccessAssumption ==
  Default \in Tenant /\ NoSecret \notin Secret /\ Loopback \in BOOLEAN

VARIABLES
  secret, legacy,  \* ATLASLINK_JWT_SECRET, and whether ATLASLINK_API_TOKEN is set
  users,           \* the users table
  keys,            \* the api_keys table
  touches,         \* last_used_at updates on their way
  stored,          \* the token in the browser's local storage
  req,             \* the requests
  clock,           \* in token lifetimes: a token is good in the one it is made in
  restarts,
  lastKey,         \* key ids given out
  revoked          \* keys whose revocation was confirmed

daemon == <<secret, legacy, restarts>>
tables == <<users, keys, lastKey, revoked>>
vars == <<daemon, tables, touches, stored, req, clock>>

Idle == [step |-> "idle"]
System == 0   \* the user the shared token stands for
NoAuth == [user |-> None, tenant |-> None]

Token(user) == [kind |-> "jwt", sub |-> user.id, tenant |-> user.tenant, signed |-> secret, exp |-> clock]
LegacyToken == [kind |-> "legacy"]
Key(id) == [kind |-> "key", id |-> id]

GateOn == secret # NoSecret \/ legacy

Init ==
  /\ secret \in Secret \cup {NoSecret} /\ legacy \in BOOLEAN
  /\ GateOn \/ Loopback
  /\ users = {} /\ keys = {} /\ lastKey = 0 /\ revoked = {}
  /\ touches = {} /\ stored = None /\ clock = 0 /\ restarts = 0
  /\ req = [r \in Request |-> Idle]

Becomes(r, state) == req' = [req EXCEPT ![r] = state]

\* A request carried on: what was asked, with new fields or new values of them.
With(asked, new) ==
  [f \in DOMAIN asked \cup DOMAIN new |-> IF f \in DOMAIN new THEN new[f] ELSE asked[f]]

\* The answer travels back to the browser, with the token it carries; of its
\* status only a refusal matters there, and nothing of it with a script.
Answered(asked, status, token) ==
  IF asked.from = "script" THEN Idle
  ELSE [step |-> "answered", refused |-> status = 401, token |-> token,
        poll |-> asked.op = "me", sent |-> IF status = 401 THEN asked.sent ELSE None]
Answer(r, status, token) == Becomes(r, Answered(req[r], status, token))

-----------------------------------------------------------------------------
(* Register and login, outside the gate.                                   *)

AccountOf(email) == {u \in users : u.email = email}

\* Up to the look-up, which answers before the password is hashed.
Register(r, email, tenant) ==
  /\ req[r] = Idle
  /\ LET asked == [op |-> "register", email |-> email, tenant |-> tenant, from |-> "browser", sent |-> stored]
     IN Becomes(r, IF AccountOf(email) # {} THEN Answered(asked, 409, None)
                   ELSE With(asked, [step |-> "hashed"]))
  /\ UNCHANGED <<daemon, tables, touches, stored, clock>>

\* users.email is UNIQUE.
UniqueViolation(email) == AccountOf(email) # {}

\* Without a signing secret the account is made and the request then fails.
InsertUser(r) ==
  LET user == [id |-> Cardinality(users) + 1, email |-> req[r].email, tenant |-> req[r].tenant] IN
  /\ req[r].step = "hashed"
  /\ IF UniqueViolation(user.email) THEN Answer(r, 409, None) /\ UNCHANGED users
     ELSE /\ users' = users \cup {user}
          /\ IF secret = NoSecret THEN Answer(r, 500, None)
             ELSE Becomes(r, With(req[r], [step |-> "inbox", user |-> user, token |-> Token(user)]))
  /\ UNCHANGED <<daemon, keys, lastKey, revoked, touches, stored, clock>>

\* The inbox, a project, is made in the tenant's backend; it may fail and the
\* registration does not.
SeedInbox(r) ==
  /\ req[r].step = "inbox"
  /\ Answer(r, 201, req[r].token)
  /\ UNCHANGED <<daemon, tables, touches, stored, clock>>

\* An unknown email costs the same hash before its 401.
Login(r, email) ==
  /\ req[r] = Idle
  /\ Becomes(r, [step |-> "verify", op |-> "login", user |-> AccountOf(email),
                 from |-> "browser", sent |-> stored])
  /\ UNCHANGED <<daemon, tables, touches, stored, clock>>

VerifyPassword(r, right) ==
  /\ req[r].step = "verify"
  /\ IF req[r].user = {} \/ ~right THEN Answer(r, 401, None)
     ELSE IF secret = NoSecret THEN Answer(r, 500, None)
     ELSE \E user \in req[r].user : Answer(r, 200, Token(user))
  /\ UNCHANGED <<daemon, tables, touches, stored, clock>>

-----------------------------------------------------------------------------
(* The gate.                                                               *)

\* The browser's token goes with each call; the proxy puts the shared one on
\* a call without.
FromBrowser == IF stored = None THEN LegacyToken ELSE stored

verifyJwt(cred) ==
  /\ cred.kind = "jwt" /\ secret # NoSecret
  /\ cred.signed = secret /\ ~(cred.exp < clock)

\* resolveTenantIdFromAuth: None is an error.
TenantFor(auth, header) ==
  IF auth # NoAuth THEN IF header = None THEN auth.tenant ELSE None
  ELSE IF header = None THEN Default ELSE header

ServedAs(asked, auth) ==
  With(asked, [step |-> "serve", auth |-> auth, tenant |-> TenantFor(auth, asked.header)])

\* preHandler up to its first await; without secrets there is none.
Send(r, op, header, from, cred) ==
  LET asked == [op |-> op, header |-> header, from |-> from, sent |-> cred] IN
  /\ req[r] = Idle
  /\ Becomes(r, IF ~GateOn THEN ServedAs(asked, NoAuth)
                ELSE IF verifyJwt(cred) THEN ServedAs(asked, [user |-> cred.sub, tenant |-> cred.tenant])
                ELSE IF legacy /\ cred = LegacyToken THEN ServedAs(asked, [user |-> System, tenant |-> Default])
                ELSE With(asked, [step |-> "lookup"]))
  /\ UNCHANGED <<daemon, tables, touches, stored, clock>>

Polling(r) == IF req[r].step = "answered" THEN req[r].poll ELSE req[r] # Idle /\ req[r].op = "me"

\* One poll at a time.
Poll ==
  /\ ~ \E r \in Request : Polling(r)
  /\ \E r \in Request : Send(r, "me", None, "browser", FromBrowser)

Call(r, op, header) ==
  \/ Send(r, op, header, "browser", FromBrowser)
  \/ \E id \in 1..lastKey : Send(r, op, header, "script", Key(id))

\* findApiKeyByKeyHash; the row's last_used_at is updated in its own time.
LookupKey(r) ==
  LET found == {k \in keys : req[r].sent = Key(k.id)} IN
  /\ req[r].step = "lookup"
  /\ IF found = {} THEN Answer(r, 401, None) /\ UNCHANGED touches
     ELSE \E k \in found :
            Becomes(r, ServedAs(req[r], [user |-> k.user, tenant |-> k.tenant])) /\ touches' = touches \cup {k}
  /\ UNCHANGED <<daemon, tables, stored, clock>>

\* Mutant: the row that was read is written back.
TouchWritesBack(k) == {x \in keys : x.id # k.id} \cup {[k EXCEPT !.used = TRUE]}

Touched(k) == {IF x.id = k.id THEN [x EXCEPT !.used = TRUE] ELSE x : x \in keys}

touchApiKey(k) ==
  /\ k \in touches /\ touches' = touches \ {k}
  /\ keys' = Touched(k)
  /\ UNCHANGED <<daemon, users, lastKey, revoked, stored, req, clock>>

-----------------------------------------------------------------------------
(* The gated routes modelled: keys, me and projects.                       *)

Serving(r, op) == req[r].step = "serve" /\ req[r].op = op

\* Key routes ask for an identity even where the gate does not.
CreateKey(r) ==
  LET auth == req[r].auth
      known == \E u \in users : u.id = auth.user  \* api_keys.user_id REFERENCES users
  IN /\ Serving(r, "createKey")
     /\ lastKey < MaxKeys
     /\ IF auth = NoAuth THEN Answer(r, 401, None) /\ UNCHANGED <<keys, lastKey>>
        ELSE IF ~known THEN Answer(r, 500, None) /\ UNCHANGED <<keys, lastKey>>
        ELSE /\ lastKey' = lastKey + 1
             /\ keys' = keys \cup {[id |-> lastKey', user |-> auth.user, tenant |-> auth.tenant, used |-> FALSE]}
             /\ Answer(r, 201, None)
     /\ UNCHANGED <<daemon, users, revoked, touches, stored, clock>>

\* Only its owner's key is deleted.
DeleteKey(r, id) ==
  LET auth == req[r].auth
      mine == {k \in keys : k.id = id /\ k.user = auth.user}
  IN /\ Serving(r, "deleteKey")
     /\ keys' = keys \ mine
     /\ revoked' = revoked \cup {k.id : k \in mine}
     /\ Answer(r, IF auth = NoAuth THEN 401 ELSE IF mine = {} THEN 404 ELSE 200, None)
     /\ UNCHANGED <<daemon, users, lastKey, touches, stored, clock>>

Me(r) ==
  LET auth == req[r].auth IN
  /\ Serving(r, "me")
  /\ Answer(r, IF auth = NoAuth THEN 401
               ELSE IF \E u \in users : u.id = auth.user THEN 200 ELSE 404, None)
  /\ UNCHANGED <<daemon, tables, touches, stored, clock>>

\* The routes of a tenant's backend, which are the subject of SessionContract.
UseBackend(r) ==
  /\ Serving(r, "project")
  /\ Answer(r, IF req[r].tenant = None THEN 400 ELSE 200, None)
  /\ UNCHANGED <<daemon, tables, touches, stored, clock>>

-----------------------------------------------------------------------------
(* The browser, the clock and the operator.                                *)

\* Mutant: a refusal is shown and nothing else.
KeptOnRefusal(answer) == IF answer.token # None THEN answer.token ELSE stored

\* fetchJSON drops the stored session on any 401; login and register keep
\* the token they get.
StoredAfter(answer) ==
  IF answer.refused THEN None ELSE IF answer.token # None THEN answer.token ELSE stored

Deliver(r) ==
  /\ req[r].step = "answered"
  /\ stored' = StoredAfter(req[r])
  /\ Becomes(r, Idle)
  /\ UNCHANGED <<daemon, tables, touches, clock>>

\* The proxy gave up, or the network did.
Lose(r) ==
  /\ req[r].step = "answered" /\ ~req[r].poll  \* a lost poll is sent again
  /\ Becomes(r, Idle)
  /\ UNCHANGED <<daemon, tables, touches, stored, clock>>

SignOut ==
  /\ stored # None /\ stored' = None
  /\ UNCHANGED <<daemon, tables, touches, req, clock>>

Tick ==
  /\ clock + restarts < MaxTurns /\ clock' = clock + 1
  /\ UNCHANGED <<daemon, tables, touches, stored, req>>

\* It comes up with its tables, maybe with another environment; never
\* unauthenticated beyond loopback.
Restart ==
  /\ clock + restarts < MaxTurns /\ restarts' = restarts + 1
  /\ secret' \in Secret \cup {NoSecret} /\ legacy' \in BOOLEAN
  /\ GateOn' \/ Loopback
  /\ touches' = {}
  /\ req' = [r \in Request |-> IF req[r].step = "answered" THEN req[r] ELSE Idle]
  /\ UNCHANGED <<tables, stored, clock>>

\* Any query may fail, which is a 500.
QueryFails(r) ==
  /\ req[r].step \in {"hashed", "lookup", "serve"}
  /\ Answer(r, 500, None)
  /\ UNCHANGED <<daemon, tables, touches, stored, clock>>

Advance(r) ==
  \/ InsertUser(r) \/ SeedInbox(r)
  \/ \E right \in BOOLEAN : VerifyPassword(r, right)
  \/ LookupKey(r)
  \/ CreateKey(r) \/ (\E id \in 1..MaxKeys : DeleteKey(r, id)) \/ Me(r) \/ UseBackend(r)
  \/ QueryFails(r) \/ Deliver(r)

Next ==
  \/ \E r \in Request :
       \/ \E email \in Email, tenant \in Tenant : Register(r, email, tenant)
       \/ \E email \in Email : Login(r, email)
       \/ \E op \in {"createKey", "deleteKey"} : Call(r, op, None)
       \/ \E header \in Header \cup {None} : Call(r, "project", header)
       \/ Advance(r) \/ Lose(r)
  \/ Poll
  \/ \E k \in touches : touchApiKey(k)
  \/ SignOut \/ Tick \/ Restart

\* The dashboard polls for as long as it is open and every request is answered;
\* strong, as other requests may be the ones in flight here, which they cannot
\* keep a browser from sending.  The look-up of a poll that is sent again and
\* again does not fail every time.
Fairness ==
  /\ SF_vars(Poll) /\ SF_vars(\E r \in Request : Polling(r) /\ LookupKey(r))
  /\ \A r \in Request : WF_vars(Advance(r))

Spec == Init /\ [][Next]_vars /\ Fairness

-----------------------------------------------------------------------------
(* Properties.                                                             *)

\* However registrations interleave between the look-up and the insert
\* (authRoutes.ts:75-97), an email has one account.
OneAccountPerEmail == \A u, v \in users : u.email = v.email => u = v

OwnTenant(user, tenant) ==
  IF user = System THEN tenant = Default ELSE \E u \in users : u.id = user /\ u.tenant = tenant

\* Through tokens, keys made with keys, restarts and headers, the
\* tenant an identity acts in and leaves keys in is the one its account was
\* registered in.
TenantComesFromIdentity ==
  /\ \A k \in keys : OwnTenant(k.user, k.tenant)
  /\ \A r \in Request : (req[r].step = "serve" /\ req[r].auth # NoAuth /\ req[r].tenant # None)
                      => OwnTenant(req[r].auth.user, req[r].tenant)

\* A confirmed revocation is final, whatever was on its way when it was made
\* (the last_used_at update of auth.ts:161).
RevokedStaysRevoked == \A k \in keys : k.id \notin revoked

\* What the tables say of an identity holds whatever requests cross: one account
\* to an email, one tenant to an account, and no key after its revocation.
IdentityHolds == OneAccountPerEmail /\ TenantComesFromIdentity /\ RevokedStaysRevoked

Dead(token) == token # None /\ ~verifyJwt(token)

\* A session the daemon no longer takes does not stay in the browser: some
\* answer drops it, or it is replaced.
DeadSessionIsDropped == Dead(stored) ~> (~Dead(stored) \/ ~GateOn)

\* A refusal ends the session that was refused: "a 401 invalidates the stored
\* session (expired/rotated)" (lib/api.ts:35).
RefusalEndsItsOwnSession ==
  [][stored # None /\ stored' = None /\ (\E r \in Request : req'[r] # req[r])
       => \E r \in Request : req[r].step = "answered" /\ req[r].sent = stored]_vars
=============================================================================
