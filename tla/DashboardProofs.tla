--------------------------- MODULE DashboardProofs ---------------------------
(***************************************************************************)
(* The dashboard, for any sessions, tabs and bounds: the poll that wakes   *)
(* the daemon, the drafts and rosters laid over a session, the list of     *)
(* sessions, the ticks on what the user sent, and the diagram.             *)
(***************************************************************************)
EXTENDS MCDashboard, FiniteSetTheorems, TLAPS

-----------------------------------------------------------------------------
(* The parts: what one does leaves the others where they began.            *)

LEMMA StartsEachPart ==
  ASSUME Init PROVE Home!Init /\ Over!Init /\ Canvas!Init /\ Health!Init
  BY DEF Init

LEMMA MovesOnePart ==
  ASSUME [Next]_vars
  PROVE  /\ part' = part
         /\ [Home!Next]_(Home!vars) /\ [Over!Next]_(Over!vars)
         /\ [Canvas!Next]_(Canvas!vars) /\ [Health!Next]_(Health!vars)
         /\ part # "health" => UNCHANGED Health!vars
<1>1. part' = part /\ \/ Home!Next /\ UNCHANGED <<overlays, canvas, poll>> /\ part = "home"
                      \/ Over!Next /\ UNCHANGED <<home, canvas, poll>> /\ part = "overlays"
                      \/ Canvas!Next /\ UNCHANGED <<home, overlays, poll>> /\ part = "canvas"
                      \/ Health!Next /\ UNCHANGED <<home, overlays, canvas>> /\ part = "health"
                      \/ UNCHANGED <<home, overlays, canvas, poll>>
  BY DEF Next, vars
<1> QED
  BY <1>1 DEF home, overlays, canvas, poll, Home!vars, Home!daemon, Home!stream, Home!list,
     Home!place, Over!vars, Canvas!vars, Health!vars

-----------------------------------------------------------------------------
(* Wake: the poll.                                                         *)

\* An open page checks, or has a timer that will.
PollInv ==
  /\ {health, rendered} \subseteq Health!Delays
  /\ timer \in Health!Delays \cup {"off"}
  /\ mounted => inFlight \/ timer \in Health!Delays

LEMMA PollStarts == ASSUME Health!Init PROVE PollInv
  BY DEF PollInv, Health!Init, Health!Delays

LEMMA PollHolds == ASSUME PollInv, [Health!Next]_(Health!vars) PROVE PollInv'
<1> USE DEF PollInv, Health!Delays
<1>1. CASE Health!Fire
  BY <1>1 DEF Health!Fire, Health!Checks
<1>2. CASE Health!Land
  <2>1. health' \in Health!Delays
    BY <1>2 DEF Health!Land, Health!Fast, Health!Slow, Health!Asleep, Health!Escalated,
       Health!Broken
  <2> QED
    BY <1>2, <2>1 DEF Health!Land
<1>3. CASE Health!Render
  BY <1>3 DEF Health!Render
<1>4. CASE Health!Retry
  BY <1>4 DEF Health!Retry, Health!Checks
<1>5. CASE Health!Unmount
  BY <1>5 DEF Health!Unmount
<1>6. CASE Health!Mount
  BY <1>6 DEF Health!Mount, Health!Checks
<1>7. CASE UNCHANGED Health!vars
  BY <1>7 DEF Health!vars
<1> QED
  BY <1>1, <1>2, <1>3, <1>4, <1>5, <1>6, <1>7 DEF Health!Next

\* However answers, retries, renders and cleanups of the effect interleave, a
\* page that is open has a check in flight or a timer that will start one.
THEOREM NeverStopsAsking == Spec => []PollGoesOn
<1>1. Init => PollInv
  BY StartsEachPart, PollStarts
<1>2. PollInv /\ [Next]_vars => PollInv'
  BY MovesOnePart, PollHolds
<1>3. PollInv => PollGoesOn
  BY DEF PollInv, PollGoesOn, Health!PollGoesOn
<1> QED
  BY <1>1, <1>2, <1>3, PTL DEF Spec

-----------------------------------------------------------------------------
(* Overlays: drafts and rosters.                                           *)

Place == Session \cup {Over!None}
DraftSets == SUBSET [id : Nat, for : Place, version : Nat]
Reads == [tab : Tab, of : Place, cancelled : BOOLEAN]

\* The drafts shown were loaded for the session selected, those stored were made
\* for theirs, and a read that may still speak is one of the session selected.
OverInv ==
  /\ inTab \in [Tab -> Place] /\ loaded = inTab /\ made \in Nat
  /\ drafts \in [Tab -> DraftSets] /\ storage \in [Session -> DraftSets]
  /\ DOMAIN roster = Tab
  /\ Over!DraftsStayTheirOwn
  /\ polls \subseteq Reads /\ \A p \in polls : ~p.cancelled => p.of = inTab[p.tab]

LEMMA OverStarts == ASSUME Over!Init PROVE OverInv
  BY DEF OverInv, Over!Init, Over!DraftsStayTheirOwn, Place, DraftSets

LEMMA SavesItsOwn ==
  ASSUME OverInv, NEW s \in Place, NEW state \in DraftSets,
         Over!saveDraftFlow(s, state), \A d \in state : d.for = s
  PROVE  /\ storage' \in [Session -> DraftSets]
         /\ \A x \in Session : \A d \in storage'[x] : d.for = x
  BY DEF OverInv, Over!DraftsStayTheirOwn, Over!saveDraftFlow, Place

\* What a step keeps, and what it may do to a roster.
Turned ==
  /\ OverInv'
  /\ \A t \in Tab : roster'[t] # roster[t] => roster'[t].of \in {inTab'[t], Over!None}

Bumped(d) == [d EXCEPT !.version = @ + 1]

LEMMA AddDraftTurns == ASSUME OverInv, NEW t \in Tab, Over!AddDraft(t) PROVE Turned
<1> DEFINE d == [id |-> made, for |-> inTab[t], version |-> 0]
           state == drafts[t] \cup {d}
<1>1. /\ drafts' = [drafts EXCEPT ![t] = state] /\ Over!saveDraftFlow(inTab[t], state)
      /\ UNCHANGED <<inTab, loaded, roster, polls>> /\ made' = made + 1
  BY DEF Over!AddDraft, Over!presence
<1>2. d.for = inTab[t] /\ d \in [id : Nat, for : Place, version : Nat]
  BY DEF OverInv
<1> HIDE DEF d
<1>3. state \in DraftSets /\ \A x \in state : x.for = inTab[t]
  BY <1>2 DEF OverInv, Over!DraftsStayTheirOwn, DraftSets
<1> HIDE DEF state
<1>4. /\ storage' \in [Session -> DraftSets]
      /\ \A x \in Session : \A y \in storage'[x] : y.for = x
  BY <1>1, <1>3, SavesItsOwn DEF OverInv
<1> QED
  BY <1>1, <1>3, <1>4 DEF Turned, OverInv, Over!DraftsStayTheirOwn

LEMMA BumpKeepsFor ==
  ASSUME NEW d \in [id : Nat, for : Place, version : Nat]
  PROVE  Bumped(d).for = d.for /\ Bumped(d) \in [id : Nat, for : Place, version : Nat]
  BY DEF Bumped

LEMMA ChangeDraftTurns == ASSUME OverInv, NEW t \in Tab, Over!ChangeDraft(t) PROVE Turned
<1>1. PICK d \in drafts[t] :
        LET state == (drafts[t] \ {d}) \cup {Bumped(d)} IN
          drafts' = [drafts EXCEPT ![t] = state] /\ Over!saveDraftFlow(inTab[t], state)
  BY DEF Over!ChangeDraft, Bumped
<1> DEFINE state == (drafts[t] \ {d}) \cup {Bumped(d)}
<1>2. UNCHANGED <<inTab, loaded, made, roster, polls>>
  BY DEF Over!ChangeDraft, Over!presence
<1>3. state \in DraftSets /\ \A x \in state : x.for = inTab[t]
  BY BumpKeepsFor DEF OverInv, Over!DraftsStayTheirOwn, DraftSets
<1>4. drafts' = [drafts EXCEPT ![t] = state] /\ Over!saveDraftFlow(inTab[t], state)
  BY <1>1
<1> HIDE DEF state
<1>5. /\ storage' \in [Session -> DraftSets]
      /\ \A x \in Session : \A y \in storage'[x] : y.for = x
  BY <1>3, <1>4, SavesItsOwn DEF OverInv
<1> QED
  BY <1>2, <1>3, <1>4, <1>5 DEF Turned, OverInv, Over!DraftsStayTheirOwn

Read(t, s) == [tab |-> t, of |-> s, cancelled |-> FALSE]
Cancelled(p) == [p EXCEPT !.cancelled = TRUE]

LEMMA CancelledIs ==
  ASSUME NEW p \in Reads
  PROVE  Cancelled(p) \in Reads /\ Cancelled(p).cancelled /\ Cancelled(p).tab = p.tab
  BY DEF Cancelled, Reads

LEMMA ReadIs ==
  ASSUME NEW t \in Tab, NEW s \in Place
  PROVE  Read(t, s) \in Reads /\ Read(t, s).tab = t /\ Read(t, s).of = s
  BY DEF Read, Reads

LEMMA SelectTurns ==
  ASSUME OverInv, NEW t \in Tab, NEW s \in Place, Over!Select(t, s) PROVE Turned
<1> DEFINE state == Over!ResetOnSelect(t, s)
<1>1. /\ inTab' = [inTab EXCEPT ![t] = s] /\ loaded' = [loaded EXCEPT ![t] = s] /\ s # inTab[t]
      /\ drafts' = [drafts EXCEPT ![t] = state] /\ Over!saveDraftFlow(s, state)
      /\ roster' = IF s = Over!None THEN [roster EXCEPT ![t] = Over!Nobody] ELSE roster
      /\ UNCHANGED made
  BY DEF Over!Select
<1>2. state \in DraftSets /\ \A d \in state : d.for = s
  BY <1>1 DEF OverInv, Over!DraftsStayTheirOwn, Over!ResetOnSelect, Over!loadDraftFlow, Place,
     DraftSets
<1> HIDE DEF state
<1>3. /\ storage' \in [Session -> DraftSets]
      /\ \A x \in Session : \A y \in storage'[x] : y.for = x
  BY <1>1, <1>2, SavesItsOwn
<1>4. PICK hidden \in BOOLEAN :
        polls' = {IF p.tab = t THEN Cancelled(p) ELSE p : p \in polls}
                   \cup Over!FirstRead(t, s, hidden)
  BY DEF Over!Select, Cancelled
<1>5. ASSUME NEW q \in polls' PROVE q \in Reads /\ (~q.cancelled => q.of = inTab'[q.tab])
  <2>1. CASE q \in Over!FirstRead(t, s, hidden)
    <3>1. q = Read(t, s)
      BY <2>1 DEF Over!FirstRead, Read
    <3> QED
      BY <1>1, <3>1, ReadIs DEF OverInv
  <2>2. CASE \E p \in polls : q = IF p.tab = t THEN Cancelled(p) ELSE p
    <3>1. PICK p \in polls : q = IF p.tab = t THEN Cancelled(p) ELSE p
      BY <2>2
    <3>2. CASE p.tab = t
      BY <3>1, <3>2, CancelledIs DEF OverInv
    <3>3. CASE p.tab # t
      <4>1. inTab'[p.tab] = inTab[p.tab] /\ q = p
        BY <1>1, <3>1, <3>3 DEF OverInv, Reads
      <4> QED
        BY <4>1 DEF OverInv
    <3> QED
      BY <3>2, <3>3
  <2> QED
    BY <1>4, <2>1, <2>2
<1>6. \A x \in Tab : roster'[x] # roster[x] => roster'[x].of \in {inTab'[x], Over!None}
  BY <1>1 DEF OverInv, Over!Nobody
<1>7. DOMAIN roster' = Tab /\ drafts' \in [Tab -> DraftSets]
  BY <1>1, <1>2 DEF OverInv
<1>8. \A x \in Tab : \A d \in drafts'[x] : d.for = inTab'[x]
  BY <1>1, <1>2 DEF OverInv, Over!DraftsStayTheirOwn
<1>9. inTab' \in [Tab -> Place] /\ loaded' = inTab' /\ made' \in Nat /\ polls' \subseteq Reads
  BY <1>1, <1>5 DEF OverInv
<1> QED
  BY <1>3, <1>5, <1>6, <1>7, <1>8, <1>9 DEF Turned, OverInv, Over!DraftsStayTheirOwn

LEMMA PollTurns == ASSUME OverInv, NEW t \in Tab, Over!Poll(t) PROVE Turned
<1>1. /\ polls' = polls \cup {Read(t, inTab[t])}
      /\ UNCHANGED <<inTab, storage, drafts, loaded, made, roster>>
  BY DEF Over!Poll, Over!draftFlow, Read
<1>2. /\ Read(t, inTab[t]) \in Reads
      /\ Read(t, inTab[t]).tab = t /\ Read(t, inTab[t]).of = inTab[t]
  BY ReadIs DEF OverInv
<1> QED
  BY <1>1, <1>2 DEF Turned, OverInv, Over!DraftsStayTheirOwn

LEMMA LandTurns == ASSUME OverInv, NEW p \in polls, NEW answer, Over!Land(p, answer) PROVE Turned
<1>1. /\ polls' = polls \ {p} /\ UNCHANGED <<inTab, storage, drafts, loaded, made>>
      /\ roster' = IF p.cancelled THEN roster
                   ELSE [roster EXCEPT ![p.tab] =
                           IF answer = "members" THEN Over!Members(p.of) ELSE Over!Nobody]
  BY DEF Over!Land, Over!draftFlow, Over!Speaks
<1>2. p.tab \in Tab /\ (~p.cancelled => p.of = inTab[p.tab])
  BY DEF OverInv, Reads
<1>3. \A s : Over!Members(s).of = s /\ Over!Nobody.of = Over!None
  BY DEF Over!Members, Over!Nobody
<1> QED
  BY <1>1, <1>2, <1>3 DEF Turned, OverInv, Over!DraftsStayTheirOwn

LEMMA OverTurns == ASSUME OverInv, [Over!Next]_(Over!vars) PROVE Turned
<1>1. CASE Over!Next
  BY <1>1, AddDraftTurns, ChangeDraftTurns, SelectTurns, PollTurns, LandTurns DEF Over!Next, Place
<1>2. CASE UNCHANGED Over!vars
  BY <1>2 DEF Over!vars, Turned, OverInv, Over!DraftsStayTheirOwn
<1> QED
  BY <1>1, <1>2

\* Whatever the tabs select, draft and read, and however late a read lands: no
\* session is shown or stored with a draft of another's, and a roster that
\* changes is that of the session then selected.
THEOREM TabsStayApart == Spec => TabsKeepTheirOwn
<1>1. Init => OverInv
  BY StartsEachPart, OverStarts
<1>2. OverInv /\ [Next]_vars => Turned
  BY MovesOnePart, OverTurns
<1>3. Turned => OverInv' /\ Over!DraftsStayTheirOwn'
                /\ \A t \in Tab : roster'[t] # roster[t] => roster'[t].of \in {inTab'[t], Over!None}
  BY DEF Turned, OverInv
<1> QED
  BY <1>1, <1>2, <1>3, PTL DEF Spec, TabsKeepTheirOwn, Over!TabsKeepTheirOwn

-----------------------------------------------------------------------------
(* HomePage: the daemon.                                                   *)

Statuses == {"queued", "running", "awaiting_input"} \cup Home!Terminal

\* The run has asked, and is not answered in this session: it goes on in another.
ParkedIn(s, statuses) == statuses[s] \in {"awaiting_input", "cancelled"}
Parked(s) == ParkedIn(s, status)

\* The session takes no more turns.
Closed(s) ==
  /\ status[s] \notin {"queued", "running", Home!None}
  /\ status[s] = "awaiting_input" => s \in answered

Increasing(times) == \A i, j \in DOMAIN times : i < j => times[i] < times[j]
Before(times, at) == \A i \in DOMAIN times : times[i] < at
IsStartOf(short, long) ==
  Len(short) <= Len(long) /\ \A i \in DOMAIN short : short[i] = long[i]

DaemonInv ==
  /\ now \in Nat
  /\ status \in [Session -> Statuses \cup {Home!None}]
  /\ turns \in [Session -> Seq(Nat)]
  /\ \A s \in Session : Increasing(turns[s]) /\ Before(turns[s], now)

\* What no step undoes.
Grows ==
  /\ now' \in {now, now + 1}
  /\ \A s \in Session :
       /\ Parked(s) => Parked(s)'
       /\ IsStartOf(turns[s], turns'[s])
       /\ Closed(s) => Closed(s)' /\ turns'[s] = turns[s]

LEMMA DaemonStarts == ASSUME Home!Init PROVE DaemonInv
  BY DEF DaemonInv, Home!Init, Statuses, Increasing, Before

LEMMA TurnAdded ==
  ASSUME NEW times \in Seq(Nat), NEW at \in Nat, Increasing(times), Before(times, at)
  PROVE  /\ Append(times, at) \in Seq(Nat) /\ Increasing(Append(times, at))
         /\ Before(Append(times, at), at + 1) /\ IsStartOf(times, Append(times, at))
         /\ Before(times, at + 1)
<1> DEFINE more == Append(times, at)
<1>1. /\ more \in Seq(Nat) /\ Len(more) = Len(times) + 1 /\ more[Len(times) + 1] = at
      /\ \A i \in 1 .. Len(times) : more[i] = times[i]
      /\ DOMAIN more = 1 .. Len(times) + 1 /\ DOMAIN times = 1 .. Len(times) /\ Len(times) \in Nat
  OBVIOUS
<1> HIDE DEF more
<1>2. \A i \in 1 .. Len(times) : times[i] \in Nat /\ times[i] < at
  <2>1. \A i \in 1 .. Len(times) : times[i] \in Nat
    OBVIOUS
  <2> QED
    BY <1>1, <2>1 DEF Before
<1>3. Increasing(more)
  <2> SUFFICES ASSUME NEW i \in 1 .. Len(times) + 1, NEW j \in 1 .. Len(times) + 1, i < j
               PROVE  more[i] < more[j]
    BY <1>1 DEF Increasing
  <2>1. i \in 1 .. Len(times)
    BY <1>1
  <2>2. CASE j \in 1 .. Len(times)
    BY <1>1, <2>1, <2>2 DEF Increasing
  <2>3. CASE j = Len(times) + 1
    BY <1>1, <1>2, <2>1, <2>3
  <2>4. \A n \in Nat : \A k \in 1 .. n + 1 : k \in 1 .. n \/ k = n + 1
    OBVIOUS
  <2>5. j \in 1 .. Len(times) \/ j = Len(times) + 1
    BY <1>1, <2>4
  <2> QED
    BY <2>2, <2>3, <2>5
<1>4. Before(more, at + 1) /\ Before(times, at + 1)
  <2>1. \A i \in 1 .. Len(times) : times[i] < at + 1
    BY <1>2
  <2>2. \A i \in 1 .. Len(times) : more[i] < at + 1
    BY <1>1, <2>1
  <2>3. more[Len(times) + 1] < at + 1
    BY <1>1
  <2>4. \A n \in Nat : \A k \in 1 .. n + 1 : k \in 1 .. n \/ k = n + 1
    OBVIOUS
  <2>5. \A k \in 1 .. Len(times) + 1 : k \in 1 .. Len(times) \/ k = Len(times) + 1
    BY <1>1, <2>4
  <2>6. \A k \in 1 .. Len(times) + 1 : more[k] < at + 1
    BY <2>2, <2>3, <2>5
  <2> QED
    BY <1>1, <2>1, <2>6 DEF Before
<1>5. IsStartOf(times, more)
  BY <1>1 DEF IsStartOf
<1> QED
  BY <1>1, <1>3, <1>4, <1>5 DEF more

LEMMA StartOfItself == ASSUME NEW times \in Seq(Nat) PROVE IsStartOf(times, times)
  BY DEF IsStartOf

LEMMA TurnTaken ==
  ASSUME DaemonInv, NEW s \in Session, now' = now + 1,
         turns' = [turns EXCEPT ![s] = Append(turns[s], now)]
  PROVE  /\ now' \in Nat /\ turns' \in [Session -> Seq(Nat)]
         /\ \A x \in Session : /\ Increasing(turns'[x]) /\ Before(turns'[x], now')
                               /\ IsStartOf(turns[x], turns'[x])
<1>1. /\ turns'[s] = Append(turns[s], now)
      /\ \A x \in Session \ {s} : turns'[x] = turns[x]
  BY DEF DaemonInv
<1>2. \A x \in Session : /\ Before(turns[x], now') /\ Increasing(turns[x])
                         /\ IsStartOf(turns[x], turns[x]) /\ turns[x] \in Seq(Nat)
  BY TurnAdded, StartOfItself DEF DaemonInv
<1>3. /\ Append(turns[s], now) \in Seq(Nat) /\ Increasing(Append(turns[s], now))
      /\ Before(Append(turns[s], now), now + 1) /\ IsStartOf(turns[s], Append(turns[s], now))
  BY TurnAdded DEF DaemonInv
<1>4. turns' \in [Session -> Seq(Nat)]
  BY <1>3 DEF DaemonInv
<1> QED
  BY <1>1, <1>2, <1>3, <1>4 DEF DaemonInv

LEMMA TurnsKept ==
  ASSUME DaemonInv, turns' = turns, now' \in {now, now + 1}
  PROVE  /\ now' \in Nat /\ turns' \in [Session -> Seq(Nat)]
         /\ \A x \in Session : /\ Increasing(turns'[x]) /\ Before(turns'[x], now')
                               /\ IsStartOf(turns[x], turns'[x])
<1>1. \A x \in Session : turns[x] \in Seq(Nat) /\ Increasing(turns[x]) /\ Before(turns[x], now)
  BY DEF DaemonInv
<1>2. \A x \in Session : Before(turns[x], now + 1) /\ IsStartOf(turns[x], turns[x])
  BY <1>1, TurnAdded, StartOfItself DEF DaemonInv
<1> QED
  BY <1>1, <1>2 DEF DaemonInv

\* The answers a button may wait for.
LEMMA DaemonTakes ==
  ASSUME DaemonInv, NEW b \in Home!Buttons, Home!Take(b),
         posts[b].op # Home!None => posts[b].session \in Session
  PROVE  DaemonInv' /\ Grows
<1> DEFINE s == posts[b].session
<1>1. s \in Session
  BY DEF Home!Take
<1>2. CASE Home!TakeTurn(b)
  <2>1. /\ status[s] \in {"queued", "running"} /\ now' = now + 1 /\ UNCHANGED <<status, answered>>
        /\ turns' = [turns EXCEPT ![s] = Append(turns[s], now)]
    BY <1>2 DEF Home!TakeTurn, Home!Tick
  <2>2. \A x \in Session \ {s} : turns'[x] = turns[x]
    BY <2>1 DEF DaemonInv
  <2> QED
    BY <1>1, <2>1, <2>2, TurnTaken DEF DaemonInv, Grows, Parked, ParkedIn, Closed
<1>3. CASE Home!TakeReply(b)
  <2>1. /\ status[s] = "awaiting_input" /\ s \notin answered /\ now' = now + 1
        /\ turns' = [turns EXCEPT ![s] = Append(turns[s], now)]
        /\ answered' = answered \cup {s}
        /\ \E f \in Session : status[f] = Home!None /\ status' = [status EXCEPT ![f] = "queued"]
    BY <1>3 DEF Home!TakeReply, Home!Tick
  <2>2. \A x \in Session \ {s} : turns'[x] = turns[x]
    BY <2>1 DEF DaemonInv
  <2>3. \A x \in Session : status[x] # Home!None => status'[x] = status[x]
    BY <2>1 DEF DaemonInv
  <2>4. status' \in [Session -> Statuses \cup {Home!None}]
    BY <2>1 DEF DaemonInv, Statuses
  <2>5. \A x \in Session : Parked(x) => Parked(x)'
    BY <2>3 DEF Parked, ParkedIn, Home!None
  <2>6. \A x \in Session : Closed(x) => x # s /\ Closed(x)'
    BY <2>1, <2>3 DEF Closed
  <2> QED
    BY <1>1, <2>1, <2>2, <2>4, <2>5, <2>6, TurnTaken DEF DaemonInv, Grows
<1>4. CASE Home!TakeCancel(b)
  <2>1. /\ Home!Follows(status[s], "cancelled") /\ now' = now + 1 /\ UNCHANGED <<turns, answered>>
        /\ status' = [status EXCEPT ![s] = "cancelled"]
    BY <1>4 DEF Home!TakeCancel, Home!Tick
  <2> QED
    BY <1>1, <2>1, TurnsKept DEF DaemonInv, Grows, Parked, ParkedIn, Closed, Home!Follows,
       Statuses,
       Home!Terminal, Home!None
<1>5. CASE Home!TakeAsk(b)
  <2>1. /\ now' = now + 1 /\ UNCHANGED <<turns, answered>>
        /\ \E f \in Session : status[f] = Home!None /\ status' = [status EXCEPT ![f] = "queued"]
    BY <1>5 DEF Home!TakeAsk, Home!Tick
  <2> QED
    BY <2>1, TurnsKept DEF DaemonInv, Grows, Parked, ParkedIn, Closed, Statuses, Home!None
<1>6. CASE Home!Refuse(b)
  <2>1. UNCHANGED <<now, status, turns, answered>>
    BY <1>6 DEF Home!Refuse, Home!daemon
  <2> QED
    BY <2>1, TurnsKept DEF DaemonInv, Grows, Parked, ParkedIn, Closed
<1> QED
  BY <1>2, <1>3, <1>4, <1>5, <1>6 DEF Home!Take

LEMMA DaemonMoves ==
  ASSUME DaemonInv, NEW s \in Session, NEW to \in Home!Terminal \cup {"running", "awaiting_input"},
         Home!Move(s, to)
  PROVE  DaemonInv' /\ Grows
<1>1. /\ Home!Follows(status[s], to) /\ now' = now + 1 /\ UNCHANGED <<turns, answered>>
      /\ status' = [status EXCEPT ![s] = to]
  BY DEF Home!Move, Home!Tick
<1>2. status' \in [Session -> Statuses \cup {Home!None}]
  BY <1>1 DEF DaemonInv, Statuses
<1>3. \A x \in Session : (Parked(x) => Parked(x)') /\ (Closed(x) => Closed(x)')
  BY <1>1 DEF DaemonInv, Parked, ParkedIn, Closed, Home!Follows, Home!Terminal, Home!None
<1> QED
  BY <1>1, <1>2, <1>3, TurnsKept DEF DaemonInv, Grows

LEMMA DaemonRests ==
  ASSUME DaemonInv, UNCHANGED <<status, turns, answered>>, now' \in {now, now + 1}
  PROVE  DaemonInv' /\ Grows
  BY TurnsKept DEF DaemonInv, Grows, Parked, ParkedIn, Closed

-----------------------------------------------------------------------------
(* HomePage: the frames.                                                   *)

\* The frames the page may hear, and those that are true: a session said to ask
\* is parked, and an echo carries the time of a turn of its session.
Frames ==
  [eventId : Nat, sessionId : Session, type : Home!Terminal \cup {"awaiting_input", "echo"}]
Told ==
  {f \in Frames :
     /\ f.type = "awaiting_input" => Parked(f.sessionId)
     /\ f.type = "echo" => \E i \in DOMAIN turns[f.sessionId] : turns[f.sessionId][i] = f.eventId}

StreamInv == wire \in Seq(Told) /\ buffer \in Seq(Told) /\ processed \in Int

LEMMA StreamStarts == ASSUME Home!Init PROVE StreamInv
  BY DEF StreamInv, Home!Init

LEMMA ToldStays == ASSUME DaemonInv, DaemonInv', Grows PROVE Told \subseteq Told'
<1> SUFFICES ASSUME NEW f \in Told PROVE f \in Told'
  OBVIOUS
<1>1. f \in Frames
  BY DEF Told
<1>2. f.sessionId \in Session
  BY <1>1 DEF Frames
<1>3. f.type = "awaiting_input" => Parked(f.sessionId)'
  BY <1>2 DEF Told, Grows, Parked
<1>4. f.type = "echo" => \E i \in DOMAIN turns'[f.sessionId] : turns'[f.sessionId][i] = f.eventId
  <2> SUFFICES ASSUME f.type = "echo"
               PROVE  \E i \in DOMAIN turns'[f.sessionId] : turns'[f.sessionId][i] = f.eventId
    OBVIOUS
  <2> DEFINE s == f.sessionId
  <2>1. PICK i \in DOMAIN turns[s] : turns[s][i] = f.eventId
    BY DEF Told
  <2>2. IsStartOf(turns[s], turns'[s]) /\ turns[s] \in Seq(Nat) /\ turns'[s] \in Seq(Nat)
    BY <1>2 DEF Grows, DaemonInv
  <2> HIDE DEF s
  <2>3. i \in DOMAIN turns'[s] /\ turns'[s][i] = f.eventId
    BY <2>1, <2>2 DEF IsStartOf
  <2> QED
    BY <2>3 DEF s
<1> QED
  BY <1>1, <1>3, <1>4 DEF Told, Parked

LEMMA SeqGrows == ASSUME NEW S, NEW T, S \subseteq T, NEW q \in Seq(S) PROVE q \in Seq(T)
  OBVIOUS

LEMMA FrameIs ==
  ASSUME NEW s, NEW type
  PROVE  /\ Home!Frame(s, type).eventId = now /\ Home!Frame(s, type).sessionId = s
         /\ Home!Frame(s, type).type = type
         /\ now \in Nat /\ s \in Session /\ type \in Home!Terminal \cup {"awaiting_input", "echo"}
              => Home!Frame(s, type) \in Frames
  BY DEF Home!Frame, Frames

LEMMA Emitted ==
  ASSUME StreamInv, Told \subseteq Told', NEW frame, Home!Emits(frame),
         Home!Listened(frame) => frame \in Told'
  PROVE  wire' \in Seq(Told')
<1>1. wire \in Seq(Told')
  BY SeqGrows DEF StreamInv
<1> QED
  BY <1>1 DEF Home!Emits

LEMMA Echoed ==
  ASSUME DaemonInv, DaemonInv', Grows, StreamInv, NEW s \in Session,
         turns' = [turns EXCEPT ![s] = Append(turns[s], now)], Home!Emits(Home!Frame(s, "echo"))
  PROVE  wire' \in Seq(Told')
<1>1. turns'[s] = Append(turns[s], now) /\ turns[s] \in Seq(Nat) /\ now \in Nat
  BY DEF DaemonInv
<1>2. Len(turns[s]) + 1 \in DOMAIN turns'[s] /\ turns'[s][Len(turns[s]) + 1] = now
  BY <1>1
<1>3. Home!Frame(s, "echo") \in Told'
  BY <1>1, <1>2, FrameIs DEF Told
<1> QED
  BY <1>3, ToldStays, Emitted

LEMMA StreamMoves ==
  ASSUME DaemonInv, DaemonInv', Grows, StreamInv, NEW s \in Session,
         NEW to \in Home!Terminal \cup {"running", "awaiting_input"}, Home!Move(s, to)
  PROVE  StreamInv'
<1>1. /\ status' = [status EXCEPT ![s] = to] /\ Home!Emits(Home!Frame(s, to))
      /\ UNCHANGED <<buffer, processed>>
  BY DEF Home!Move
<1>2. Home!Listened(Home!Frame(s, to)) => Home!Frame(s, to) \in Told'
  <2> SUFFICES ASSUME to # "running" PROVE Home!Frame(s, to) \in Told'
    BY FrameIs DEF Home!Listened
  <2>1. to = "awaiting_input" => Parked(s)'
    BY <1>1 DEF DaemonInv, Parked, ParkedIn
  <2>2. to # "echo"
    BY DEF Home!Terminal
  <2> QED
    BY <2>1, <2>2, FrameIs DEF Told, DaemonInv
<1>3. buffer \in Seq(Told')
  BY ToldStays, SeqGrows DEF StreamInv
<1> QED
  BY <1>1, <1>2, <1>3, ToldStays, Emitted DEF StreamInv

LEMMA StreamTakes ==
  ASSUME DaemonInv, DaemonInv', Grows, StreamInv, NEW b \in Home!Buttons, Home!Take(b),
         posts[b].op # Home!None => posts[b].session \in Session
  PROVE  StreamInv'
<1> DEFINE s == posts[b].session
<1>1. s \in Session /\ UNCHANGED <<buffer, processed>>
  BY DEF Home!Take
<1>2. buffer \in Seq(Told') /\ wire \in Seq(Told')
  BY ToldStays, SeqGrows DEF StreamInv
<1>3. wire' \in Seq(Told')
  <2>1. CASE Home!TakeTurn(b)
    BY <1>1, <2>1, Echoed DEF Home!TakeTurn
  <2>2. CASE Home!TakeReply(b)
    BY <1>1, <2>2, Echoed DEF Home!TakeReply
  <2>3. CASE Home!TakeCancel(b)
    <3>1. Home!Frame(s, "cancelled") \in Told'
      BY <1>1, FrameIs DEF Told, DaemonInv, Home!Terminal
    <3> QED
      BY <2>3, <3>1, ToldStays, Emitted DEF Home!TakeCancel
  <2>4. CASE Home!TakeAsk(b)
    BY <1>2, <2>4 DEF Home!TakeAsk
  <2>5. CASE Home!Refuse(b)
    BY <1>2, <2>5 DEF Home!Refuse
  <2> QED
    BY <2>1, <2>2, <2>3, <2>4, <2>5 DEF Home!Take
<1> QED
  BY <1>1, <1>2, <1>3 DEF StreamInv

LEMMA MaxOfTwo ==
  ASSUME NEW i \in Int, NEW j \in Int
  PROVE  Home!Max({i, j}) \in {i, j} /\ Home!Max({i, j}) >= i /\ Home!Max({i, j}) >= j
<1>1. \E x \in {i, j} : \A y \in {i, j} : x >= y
  OBVIOUS
<1>2. Home!Max({i, j}) \in {i, j} /\ \A y \in {i, j} : Home!Max({i, j}) >= y
  BY <1>1 DEF Home!Max
<1> QED
  BY <1>2

\* Keep drops the oldest.
LEMMA KeepIs ==
  ASSUME NEW S, NEW q \in Seq(S), NEW max \in Nat
  PROVE  /\ Home!Keep(q, max) \in Seq(S) /\ Len(Home!Keep(q, max)) <= Len(q)
         /\ \E d \in Nat :
              /\ Len(Home!Keep(q, max)) = Len(q) - d \/ Len(Home!Keep(q, max)) = 0
              /\ \A i \in DOMAIN Home!Keep(q, max) :
                   i + d \in DOMAIN q /\ Home!Keep(q, max)[i] = q[i + d]
<1> DEFINE over == Len(q) - max + 1
           from == Home!Max({1, over})
<1>1. from \in Nat \ {0}
  <2>1. over \in Int
    OBVIOUS
  <2> HIDE DEF over
  <2>2. 1 \in Int
    OBVIOUS
  <2>3. Home!Max({1, over}) \in {1, over} /\ Home!Max({1, over}) >= 1
    BY <2>1, <2>2, MaxOfTwo
  <2> QED
    BY <2>1, <2>3
<1>2. Home!Keep(q, max) = SubSeq(q, from, Len(q))
  BY DEF Home!Keep
<1> HIDE DEF from
<1>3. DOMAIN q = 1 .. Len(q) /\ Len(q) \in Nat /\ \A i \in 1 .. Len(q) : q[i] \in S
  OBVIOUS
<1>4. SubSeq(q, from, Len(q)) \in Seq(S)
  BY <1>1, <1>3
<1>5. /\ Len(SubSeq(q, from, Len(q))) = IF from <= Len(q) THEN Len(q) - from + 1 ELSE 0
      /\ \A i \in 1 .. Len(q) - from + 1 : SubSeq(q, from, Len(q))[i] = q[from + i - 1]
  BY <1>1, <1>3
<1>6. from - 1 \in Nat
  BY <1>1
<1> DEFINE kept == SubSeq(q, from, Len(q))
<1>7. DOMAIN kept = 1 .. Len(kept)
  BY <1>4
<1> HIDE DEF kept
<1>8. ASSUME NEW i \in DOMAIN kept
      PROVE  i + (from - 1) \in DOMAIN q /\ kept[i] = q[i + (from - 1)]
  <2>1. i \in 1 .. Len(q) - from + 1 /\ from <= Len(q)
    BY <1>1, <1>3, <1>5, <1>7 DEF kept
  <2>2. from + i - 1 = i + (from - 1) /\ i + (from - 1) \in 1 .. Len(q)
    BY <1>1, <1>3, <2>1
  <2> QED
    BY <1>3, <1>5, <2>1, <2>2 DEF kept
<1>9. Len(kept) = Len(q) - (from - 1) \/ Len(kept) = 0
  BY <1>1, <1>3, <1>5 DEF kept
<1>10. Len(kept) <= Len(q)
  BY <1>1, <1>3, <1>5 DEF kept
<1> QED
  BY <1>2, <1>4, <1>6, <1>8, <1>9, <1>10 DEF kept

LEMMA StreamHears == ASSUME StreamInv, Home!Hear, MaxBuffered \in Nat PROVE StreamInv'
<1>1. /\ wire # <<>> /\ wire' = Tail(wire)
      /\ buffer' = Home!Keep(Append(buffer, Head(wire)), MaxBuffered)
      /\ processed' = Home!Max({processed, Head(wire).eventId})
      /\ Told' = Told
  BY DEF Home!Hear, Home!daemon, Told, Parked, ParkedIn
<1>2. Head(wire) \in Told /\ Tail(wire) \in Seq(Told)
  BY <1>1 DEF StreamInv
<1>3. Append(buffer, Head(wire)) \in Seq(Told)
  BY <1>2 DEF StreamInv
<1>4. Head(wire).eventId \in Int
  BY <1>2 DEF Told, Frames
<1> QED
  BY <1>1, <1>2, <1>3, <1>4, KeepIs, MaxOfTwo DEF StreamInv

-----------------------------------------------------------------------------
(* HomePage: the list.                                                     *)

\* A row that is true of s, if old: a run it shows as asking is parked, and its
\* turns are the first of the session's.
RowsOf(s) ==
  {row \in [status : Statuses, turns : Seq(Nat)] :
     (row.status = "awaiting_input" => Parked(s)) /\ IsStartOf(row.turns, turns[s])}

TrueList(shown) ==
  /\ shown = [s \in DOMAIN shown |-> shown[s]] /\ DOMAIN shown \subseteq Session
  /\ \A s \in DOMAIN shown : shown[s] \in RowsOf(s)

ListInv ==
  /\ TrueList(rows)
  /\ IsFiniteSet(answers) /\ \A a \in answers : TrueList(a.rows)

LEMMA ListStarts == ASSUME Home!Init PROVE ListInv
  BY FS_EmptySet DEF ListInv, TrueList, Home!Init

LEMMA StartsFollow ==
  ASSUME NEW x \in Seq(Nat), NEW y \in Seq(Nat), NEW z \in Seq(Nat), IsStartOf(x, y), IsStartOf(y, z)
  PROVE  IsStartOf(x, z)
<1>1. /\ DOMAIN x = 1 .. Len(x) /\ DOMAIN y = 1 .. Len(y)
      /\ Len(x) \in Nat /\ Len(y) \in Nat /\ Len(z) \in Nat
  OBVIOUS
<1>2. Len(x) <= Len(y) /\ Len(y) <= Len(z)
  BY DEF IsStartOf
<1>3. 1 .. Len(x) \subseteq 1 .. Len(y) /\ Len(x) <= Len(z)
  BY <1>1, <1>2
<1>4. (\A i \in DOMAIN x : x[i] = y[i]) /\ (\A i \in DOMAIN y : y[i] = z[i])
  BY DEF IsStartOf
<1>5. \A i \in DOMAIN x : x[i] = z[i]
  BY <1>1, <1>3, <1>4
<1> QED
  BY <1>3, <1>5 DEF IsStartOf

LEMMA RowsStay == ASSUME DaemonInv, DaemonInv', Grows, NEW s \in Session PROVE RowsOf(s) \subseteq RowsOf(s)'
<1> SUFFICES ASSUME NEW row \in RowsOf(s) PROVE row \in RowsOf(s)'
  OBVIOUS
<1>1. row \in [status : Statuses, turns : Seq(Nat)]
  BY DEF RowsOf
<1>2. row.turns \in Seq(Nat) /\ turns[s] \in Seq(Nat) /\ turns'[s] \in Seq(Nat)
  BY <1>1 DEF DaemonInv
<1>3. IsStartOf(row.turns, turns'[s])
  BY <1>2, StartsFollow DEF RowsOf, Grows
<1>4. row.status = "awaiting_input" => Parked(s)'
  BY DEF RowsOf, Grows
<1> QED
  BY <1>1, <1>3, <1>4 DEF RowsOf, Parked

LEMMA ListStays ==
  ASSUME DaemonInv, DaemonInv', Grows, NEW shown, TrueList(shown)
  PROVE  /\ shown = [s \in DOMAIN shown |-> shown[s]] /\ DOMAIN shown \subseteq Session
         /\ \A s \in DOMAIN shown : shown[s] \in RowsOf(s)'
  BY RowsStay DEF TrueList

LEMMA ListRests ==
  ASSUME DaemonInv, DaemonInv', Grows, ListInv, UNCHANGED <<rows, answers>> PROVE ListInv'
<1>1. TrueList(rows)'
  BY ListStays DEF ListInv, TrueList
<1>2. ASSUME NEW a \in answers PROVE /\ a.rows = [s \in DOMAIN a.rows |-> a.rows[s]]
                                     /\ DOMAIN a.rows \subseteq Session
                                     /\ \A s \in DOMAIN a.rows : a.rows[s] \in RowsOf(s)'
  BY ListStays DEF ListInv
<1> QED
  BY <1>1, <1>2 DEF ListInv, TrueList

\* What the daemon reads is true.
LEMMA ReadIsTrue ==
  ASSUME DaemonInv, NEW D \in SUBSET Session, \A s \in D : status[s] # Home!None
  PROVE  TrueList([s \in D |-> Home!Row(s)])
<1>1. ASSUME NEW s \in D PROVE Home!Row(s) \in RowsOf(s)
  <2>1. status[s] \in Statuses /\ turns[s] \in Seq(Nat) /\ IsStartOf(turns[s], turns[s])
    BY StartOfItself DEF DaemonInv
  <2>2. status[s] = "awaiting_input" => Parked(s)
    BY DEF Parked, ParkedIn
  <2> QED
    BY <2>1, <2>2 DEF RowsOf, Home!Row
<1> QED
  BY <1>1 DEF TrueList

LEMMA ListedIsTrue == ASSUME DaemonInv PROVE TrueList(Home!Listed) /\ DOMAIN Home!Listed \subseteq Session
<1> DEFINE D == {x \in Session : status[x] # Home!None}
<1>1. TrueList([s \in D |-> Home!Row(s)])
  BY ReadIsTrue
<1> QED
  BY <1>1 DEF Home!Listed

Answer(kind, content) == [kind |-> kind, of |-> selected, rows |-> content, at |-> now]

LEMMA AnswerIs ==
  ASSUME NEW kind, NEW content
  PROVE  Answer(kind, content).kind = kind /\ Answer(kind, content).rows = content
  BY DEF Answer

LEMMA Asked ==
  ASSUME ListInv, NEW kind, NEW content, Home!Ask(kind, content), TrueList(content),
         UNCHANGED <<status, turns, rows>>
  PROVE  ListInv'
<1>1. answers' = answers \cup {Answer(kind, content)}
  BY DEF Home!Ask, Answer
<1>2. IsFiniteSet(answers')
  BY <1>1, FS_AddElement DEF ListInv
<1>3. \A x : TrueList(x) => TrueList(x)'
  BY DEF TrueList, RowsOf, Parked, ParkedIn
<1>4. ASSUME NEW a \in answers' PROVE TrueList(a.rows)'
  <2>1. TrueList(a.rows)
    BY <1>1, AnswerIs DEF ListInv
  <2> QED
    BY <1>3, <2>1
<1>5. TrueList(rows)'
  BY DEF ListInv, TrueList, RowsOf, Parked, ParkedIn
<1> QED
  BY <1>2, <1>4, <1>5 DEF ListInv

LEMMA ListAsks ==
  ASSUME DaemonInv, ListInv, Home!Load \/ Home!Hydrate \/ \E b \in Home!Buttons : Home!Accepted(b)
  PROVE  ListInv'
<1>1. UNCHANGED <<status, turns, rows>>
  BY DEF Home!Load, Home!Hydrate, Home!Accepted, Home!daemon, Home!list
<1>2. CASE Home!Load \/ \E b \in Home!Buttons : Home!Accepted(b)
  BY <1>1, <1>2, Asked, ListedIsTrue DEF Home!Load, Home!Accepted
<1>3. CASE Home!Hydrate
  <2> DEFINE D == {selected} \cap DOMAIN Home!Listed
  <2>1. D \in SUBSET Session /\ \A s \in D : status[s] # Home!None
    BY DEF Home!Listed
  <2>2. Home!Ask("one", [s \in D |-> Home!Row(s)])
    BY <1>3 DEF Home!Hydrate
  <2> HIDE DEF D
  <2> QED
    BY <1>1, <2>1, <2>2, ReadIsTrue, Asked
<1> QED
  BY <1>2, <1>3

LEMMA ListLands == ASSUME ListInv, NEW a \in answers, Home!Land(a) PROVE ListInv'
<1>1. answers' = answers \ {a} /\ UNCHANGED <<status, turns>>
  BY DEF Home!Land, Home!daemon
<1>2. IsFiniteSet(answers')
  BY <1>1, FS_RemoveElement DEF ListInv
<1>3. TrueList(rows) /\ TrueList(a.rows)
  BY DEF ListInv
<1>4. TrueList(rows')
  <2>1. CASE Home!LandLoad(a) \/ Home!LandRefresh(a)
    BY <1>3, <2>1 DEF Home!LandLoad, Home!LandRefresh
  <2>2. CASE Home!LandOne(a)
    <3>1. rows' = [s \in DOMAIN a.rows \cup DOMAIN rows |->
                     IF s \in DOMAIN a.rows THEN a.rows[s] ELSE rows[s]]
      BY <2>2 DEF Home!LandOne
    <3> QED
      BY <1>3, <3>1 DEF TrueList
  <2> QED
    BY <2>1, <2>2 DEF Home!Land
<1>5. \A x : TrueList(x) => /\ x = [s \in DOMAIN x |-> x[s]] /\ DOMAIN x \subseteq Session
                            /\ \A s \in DOMAIN x : x[s] \in RowsOf(s)'
  BY <1>1 DEF TrueList, RowsOf, Parked, ParkedIn
<1> QED
  BY <1>1, <1>2, <1>4, <1>5 DEF ListInv, TrueList

Restated(row, to) == [row EXCEPT !.status = to]

LEMMA RestatedIs ==
  ASSUME NEW row \in [status : Statuses, turns : Seq(Nat)], NEW to \in Statuses
  PROVE  /\ Restated(row, to) \in [status : Statuses, turns : Seq(Nat)]
         /\ Restated(row, to).status = to /\ Restated(row, to).turns = row.turns
  BY DEF Restated

\* A frame heard changes the status of one row, never to "running".
LEMMA Patches ==
  ASSUME StreamInv, Home!Hear
  PROVE  \/ rows' = rows
         \/ \E f \in Told :
              /\ f.sessionId \in DOMAIN rows /\ f.type \in Home!Terminal \cup {"awaiting_input"}
              /\ ~(Home!Rank(rows[f.sessionId].status) > Home!Rank(f.type))
              /\ rows' = [rows EXCEPT ![f.sessionId] = Restated(rows[f.sessionId], f.type)]
<1> DEFINE f == Head(wire)
<1>1. f \in Told
  BY DEF Home!Hear, StreamInv
<1>2. rows' = Home!Patched(f)
  BY DEF Home!Hear
<1> HIDE DEF f
<1>3. f.type \in Home!Terminal \cup {"awaiting_input", "echo"}
  BY <1>1 DEF Told, Frames
<1> DEFINE to == Home!StatusOf(f)
<1>4. to = IF f.type = "echo" THEN Home!None ELSE f.type
  BY <1>3 DEF Home!StatusOf, Home!Terminal, Home!None
<1>5. to # Home!None => f.type \in Home!Terminal \cup {"awaiting_input"} /\ to = f.type
  BY <1>3, <1>4
<1> HIDE DEF to
<1>6. \/ rows' = rows
      \/ /\ to # Home!None /\ f.sessionId \in DOMAIN rows
         /\ ~(Home!Rank(rows[f.sessionId].status) > Home!Rank(to))
         /\ rows' = [rows EXCEPT ![f.sessionId] = Restated(rows[f.sessionId], to)]
  BY <1>2 DEF Home!Patched, to, Restated
<1> QED
  BY <1>1, <1>5, <1>6

LEMMA ListHears == ASSUME DaemonInv, StreamInv, ListInv, Home!Hear PROVE ListInv'
<1>1. UNCHANGED <<status, turns, answers>>
  BY DEF Home!Hear, Home!daemon
<1>2. TrueList(rows')
  <2>1. CASE rows' = rows
    BY <2>1 DEF ListInv
  <2>2. CASE rows' # rows
    <3>1. PICK f \in Told :
            /\ f.sessionId \in DOMAIN rows /\ f.type \in Home!Terminal \cup {"awaiting_input"}
            /\ rows' = [rows EXCEPT ![f.sessionId] = Restated(rows[f.sessionId], f.type)]
      BY <2>2, Patches
    <3> DEFINE s == f.sessionId
    <3>2. rows[s] \in RowsOf(s) /\ s \in Session
      BY <3>1 DEF ListInv, TrueList
    <3>3. f.type \in Statuses /\ (f.type = "awaiting_input" => Parked(s))
      BY <3>1 DEF Statuses, Told
    <3>4. Restated(rows[s], f.type) \in RowsOf(s)
      BY <3>2, <3>3, RestatedIs DEF RowsOf
    <3> QED
      BY <3>1, <3>4 DEF ListInv, TrueList
  <2> QED
    BY <2>1, <2>2
<1>3. \A x : TrueList(x) => /\ x = [s \in DOMAIN x |-> x[s]] /\ DOMAIN x \subseteq Session
                            /\ \A s \in DOMAIN x : x[s] \in RowsOf(s)'
  BY <1>1 DEF TrueList, RowsOf, Parked, ParkedIn
<1> QED
  BY <1>1, <1>2, <1>3 DEF ListInv, TrueList

-----------------------------------------------------------------------------
\* Only an answer that lands, and is one fewer, takes a row back.
Forward ==
  Home!Cardinality(answers') >= Home!Cardinality(answers) =>
    \A s \in DOMAIN rows \cap DOMAIN rows' :
      Home!Progress(rows'[s].status) >= Home!Progress(rows[s].status)

LEMMA SameCardinality == ASSUME NEW S PROVE Home!Cardinality(S) = Cardinality(S)
  BY DEF Home!Cardinality, Cardinality, Home!IsFiniteSet, IsFiniteSet

LEMMA ForwardRests == ASSUME rows' = rows PROVE Forward
<1>1. \A x : Home!Progress(x) \in Nat
  BY DEF Home!Progress
<1> QED
  BY <1>1 DEF Forward

LEMMA ForwardLands == ASSUME ListInv, NEW a \in answers, answers' = answers \ {a} PROVE Forward
<1>1. Cardinality(answers') = Cardinality(answers) - 1 /\ Cardinality(answers) \in Nat
  BY FS_RemoveElement, FS_CardinalityType DEF ListInv
<1> QED
  BY <1>1, SameCardinality DEF Forward

LEMMA ForwardHears == ASSUME ListInv, StreamInv, Home!Hear PROVE Forward
<1>1. CASE rows' = rows
  BY <1>1, ForwardRests
<1>2. CASE rows' # rows
  <2>1. PICK f \in Told :
          /\ f.sessionId \in DOMAIN rows /\ f.type \in Home!Terminal \cup {"awaiting_input"}
          /\ ~(Home!Rank(rows[f.sessionId].status) > Home!Rank(f.type))
          /\ rows' = [rows EXCEPT ![f.sessionId] = Restated(rows[f.sessionId], f.type)]
    BY <1>2, Patches
  <2> DEFINE s == f.sessionId
  <2>2. rows[s] \in [status : Statuses, turns : Seq(Nat)]
    BY <2>1 DEF ListInv, TrueList, RowsOf
  <2>3. rows'[s] = Restated(rows[s], f.type) /\ f.type \in Statuses
    BY <2>1 DEF ListInv, TrueList, Statuses
  <2>4. rows'[s].status = f.type /\ rows[s].status \in Statuses
    BY <2>2, <2>3, RestatedIs
  <2>5. Home!Progress(rows'[s].status) >= Home!Progress(rows[s].status)
    BY <2>1, <2>4 DEF Home!Progress, Home!Rank, Statuses, Home!Terminal
  <2>6. \A x \in DOMAIN rows \ {s} : rows'[x] = rows[x]
    BY <2>1 DEF ListInv, TrueList
  <2>7. \A x : Home!Progress(x) \in Nat
    BY DEF Home!Progress
  <2> QED
    BY <2>5, <2>6, <2>7 DEF Forward
<1> QED
  BY <1>1, <1>2

-----------------------------------------------------------------------------
(* HomePage: the sends in flight.                                          *)

Ops == {"reply", "steer", "cancel", "followup", "resume"}
FreePost == [op |-> Home!None]
BusyPosts ==
  [op : Ops, session : Session, sentAt : Nat, next : Place, result : {Home!None, "ok", "refused"}]
Posts == {FreePost} \cup BusyPosts

\* A post of a message, and one the daemon may still take, or has refused.
Sends(p) == p.op \in {"reply", "steer"}
Waits(p) == Sends(p) /\ p.result # "ok"

\* The posts are of distinct times, a reply goes to a parked session, and a list
\* read for a button is of a send the daemon took.
PostsInv ==
  /\ posts \in [Home!Buttons -> Posts]
  /\ \A b \in Home!Buttons :
       /\ posts[b].op # Home!None => Home!ButtonOf(posts[b].op) = b
       /\ Sends(posts[b]) => posts[b].sentAt < now
       /\ posts[b].op = "reply" => Parked(posts[b].session)
  /\ \A b, c \in Home!Buttons :
       b # c /\ Sends(posts[b]) /\ Sends(posts[c]) => posts[b].sentAt # posts[c].sentAt
  /\ \A a \in answers : a.kind \in Home!Buttons =>
       /\ posts[a.kind].op # Home!None /\ posts[a.kind].result = "ok"
       /\ \A a2 \in answers : a2.kind = a.kind => a2 = a

LEMMA FreeIs == FreePost \in Posts /\ FreePost.op = Home!None /\ ~Sends(FreePost)
  BY DEF FreePost, Posts, Sends, Home!None

LEMMA PostsStart == ASSUME Home!Init PROVE PostsInv
<1>1. posts = [b \in Home!Buttons |-> FreePost] /\ answers = {}
  BY DEF Home!Init, FreePost
<1> QED
  BY <1>1, FreeIs DEF PostsInv, Home!None

LEMMA PostOf ==
  ASSUME PostsInv, NEW b \in Home!Buttons, posts[b].op # Home!None
  PROVE  posts[b] \in BusyPosts /\ posts[b].session \in Session
<1>1. posts[b] \in Posts
  BY DEF PostsInv
<1>2. posts[b] \in BusyPosts
  BY <1>1, FreeIs DEF Posts
<1> QED
  BY <1>2 DEF BusyPosts

\* The post of a message is the one its own button waits for.
LEMMA SendsBy ==
  ASSUME PostsInv, NEW b \in Home!Buttons, Sends(posts[b])
  PROVE  posts[b].op = b /\ posts[b] \in BusyPosts /\ posts[b].session \in Session
<1>1. posts[b].op # Home!None
  BY DEF Sends, Home!None
<1>2. posts[b].op = b
  BY <1>1 DEF PostsInv, Sends, Home!ButtonOf
<1> QED
  BY <1>1, <1>2, PostOf

LEMMA PostPut ==
  ASSUME DaemonInv, DaemonInv', Grows, PostsInv, NEW b \in Home!Buttons, NEW p \in Posts,
         posts' = [posts EXCEPT ![b] = p],
         p.op # Home!None => Home!ButtonOf(p.op) = b,
         Sends(p) => /\ p.sentAt < now'
                     /\ \A c \in Home!Buttons \ {b} : Sends(posts[c]) => posts[c].sentAt # p.sentAt,
         p.op = "reply" => ParkedIn(p.session, status'),
         \A a \in answers' : /\ a.kind = b => p.op # Home!None /\ p.result = "ok"
                             /\ a.kind \in Home!Buttons \ {b} => a \in answers,
         \A a, a2 \in answers' : a.kind = b /\ a2.kind = b => a = a2
  PROVE  PostsInv'
<1>1. posts'[b] = p /\ \A c \in Home!Buttons \ {b} : posts'[c] = posts[c]
  BY DEF PostsInv
<1>2. posts' \in [Home!Buttons -> Posts]
  BY DEF PostsInv
<1>3. ASSUME NEW c \in Home!Buttons
      PROVE  /\ posts'[c].op # Home!None => Home!ButtonOf(posts'[c].op) = c
             /\ Sends(posts'[c]) => posts'[c].sentAt < now'
             /\ posts'[c].op = "reply" => ParkedIn(posts'[c].session, status')
  <2>1. CASE c = b
    BY <1>1, <2>1 DEF Parked
  <2>2. CASE c # b
    <3>1. posts'[c] = posts[c]
      BY <1>1, <2>2
    <3>2. Sends(posts[c]) => posts[c].sentAt < now'
      <4> SUFFICES ASSUME Sends(posts[c]) PROVE posts[c].sentAt < now'
        OBVIOUS
      <4>1. posts[c].sentAt \in Nat /\ posts[c].sentAt < now
        BY SendsBy DEF PostsInv, BusyPosts
      <4> QED
        BY <4>1 DEF DaemonInv, Grows
    <3>3. posts[c].op = "reply" => ParkedIn(posts[c].session, status')
      <4> SUFFICES ASSUME posts[c].op = "reply" PROVE ParkedIn(posts[c].session, status')
        OBVIOUS
      <4>1. posts[c].session \in Session
        BY SendsBy DEF Sends
      <4> QED
        BY <4>1 DEF PostsInv, Grows, Parked
    <3> QED
      BY <3>1, <3>2, <3>3 DEF PostsInv, Parked
  <2> QED
    BY <2>1, <2>2
<1>4. ASSUME NEW c \in Home!Buttons, NEW e \in Home!Buttons, c # e,
             Sends(posts'[c]), Sends(posts'[e])
      PROVE  posts'[c].sentAt # posts'[e].sentAt
  BY <1>1, <1>4 DEF PostsInv
<1>5. ASSUME NEW a \in answers', a.kind \in Home!Buttons
      PROVE  /\ posts'[a.kind].op # Home!None /\ posts'[a.kind].result = "ok"
             /\ \A a2 \in answers' : a2.kind = a.kind => a2 = a
  BY <1>1, <1>5 DEF PostsInv
<1> QED
  BY <1>2, <1>3, <1>4, <1>5 DEF PostsInv, Parked

LEMMA PostsRest ==
  ASSUME DaemonInv, DaemonInv', Grows, PostsInv, posts' = posts,
         \A a \in answers' : a.kind \in Home!Buttons => a \in answers
  PROVE  PostsInv'
<1> DEFINE b == "ask"
<1>1. b \in Home!Buttons /\ posts' = [posts EXCEPT ![b] = posts[b]]
  BY DEF Home!Buttons, PostsInv
<1> HIDE DEF b
<1>2. posts[b] \in Posts /\ (posts[b].op # Home!None => Home!ButtonOf(posts[b].op) = b)
  BY <1>1 DEF PostsInv
<1>3. Sends(posts[b]) =>
        /\ posts[b].sentAt < now'
        /\ \A c \in Home!Buttons \ {b} : Sends(posts[c]) => posts[c].sentAt # posts[b].sentAt
  <2> SUFFICES ASSUME Sends(posts[b])
               PROVE  /\ posts[b].sentAt < now'
                      /\ \A c \in Home!Buttons \ {b} :
                           Sends(posts[c]) => posts[c].sentAt # posts[b].sentAt
    OBVIOUS
  <2>1. posts[b].sentAt \in Nat /\ posts[b].sentAt < now
    BY <1>1, SendsBy DEF PostsInv, BusyPosts
  <2> QED
    BY <1>1, <2>1 DEF DaemonInv, Grows, PostsInv
<1>4. posts[b].op = "reply" => ParkedIn(posts[b].session, status')
  <2> SUFFICES ASSUME posts[b].op = "reply" PROVE ParkedIn(posts[b].session, status')
    OBVIOUS
  <2>1. posts[b].session \in Session
    BY <1>1, SendsBy DEF Sends
  <2> QED
    BY <1>1, <2>1 DEF PostsInv, Grows, Parked
<1>5. \A a \in answers' : a.kind = b => posts[b].op # Home!None /\ posts[b].result = "ok"
  BY <1>1 DEF PostsInv
<1>6. \A a, a2 \in answers' : a.kind = b /\ a2.kind = b => a = a2
  BY <1>1 DEF PostsInv
<1> DEFINE p == posts[b]
<1>7. p \in Posts /\ posts' = [posts EXCEPT ![b] = p] /\ (p.op = "reply" => ParkedIn(p.session, status'))
  BY <1>1, <1>2, <1>4 DEF Parked
<1> QED
  BY <1>1, <1>2, <1>3, <1>4, <1>5, <1>6, <1>7, PostPut DEF Parked

\* The session a message is sent to is on the list, and one replied to is parked.
LEMMA SendIs ==
  ASSUME ListInv, NEW op \in Ops, Home!Send(op)
  PROVE  /\ selected \in Session /\ (op = "reply" => Parked(selected))
         /\ Home!ButtonOf(op) \in Home!Buttons /\ posts[Home!ButtonOf(op)].op = Home!None
         /\ now' = now + 1 /\ posts' = [posts EXCEPT ![Home!ButtonOf(op)] = Home!Post(op)]
         /\ receipts' = Home!trackSend(op) /\ UNCHANGED <<status, turns, answered, answers>>
<1>1. /\ Home!Offers(op) /\ Home!Free(Home!ButtonOf(op)) /\ now' = now + 1
      /\ posts' = [posts EXCEPT ![Home!ButtonOf(op)] = Home!Post(op)]
      /\ receipts' = Home!trackSend(op) /\ UNCHANGED <<status, turns, answered, answers>>
  BY DEF Home!Send, Home!Tick, Home!daemon
<1>2. Home!Shown # Home!None /\ (op = "reply" => Home!Shown = "awaiting_input")
  BY <1>1 DEF Home!Offers, Home!None, Home!Terminal, Ops
<1>3. selected \in DOMAIN rows /\ Home!Shown = rows[selected].status
  BY <1>2 DEF Home!Shown
<1>4. selected \in Session /\ rows[selected] \in RowsOf(selected)
  BY <1>3 DEF ListInv, TrueList
<1>5. op = "reply" => Parked(selected)
  BY <1>2, <1>3, <1>4 DEF RowsOf
<1>6. Home!ButtonOf(op) \in Home!Buttons
  BY DEF Home!ButtonOf, Home!Buttons, Ops
<1> QED
  BY <1>1, <1>4, <1>5, <1>6 DEF Home!Free

LEMMA NewPost ==
  ASSUME NEW op \in Ops, selected \in Session, now \in Nat
  PROVE  /\ Home!Post(op) \in Posts /\ Home!Post(op).op = op /\ Home!Post(op).session = selected
         /\ Home!Post(op).sentAt = now /\ Home!Post(op).result # "ok"
<1>1. Home!Post(op) \in BusyPosts
  BY DEF Home!Post, BusyPosts, Place, Home!None, Over!None
<1> QED
  BY <1>1 DEF Home!Post, Posts, Home!None

LEMMA PostsSend ==
  ASSUME DaemonInv, DaemonInv', Grows, ListInv, PostsInv, NEW op \in Ops, Home!Send(op)
  PROVE  PostsInv'
<1> DEFINE b == Home!ButtonOf(op)
           p == Home!Post(op)
<1>1. /\ selected \in Session /\ (op = "reply" => Parked(selected))
      /\ b \in Home!Buttons /\ posts[b].op = Home!None
      /\ now' = now + 1 /\ posts' = [posts EXCEPT ![b] = p]
      /\ answers' = answers
  BY SendIs
<1>2. /\ p \in Posts /\ p.op = op /\ p.session = selected /\ p.sentAt = now
  BY <1>1, NewPost DEF DaemonInv
<1>3. \A c \in Home!Buttons : Sends(posts[c]) => posts[c].sentAt \in Nat /\ posts[c].sentAt < now
  BY SendsBy DEF PostsInv, BusyPosts
<1>4. p.op = "reply" => ParkedIn(p.session, status')
  BY <1>1, <1>2 DEF Grows, Parked
<1>5. \A a \in answers' : a.kind # b
  BY <1>1 DEF PostsInv
<1>6. p.op # Home!None => Home!ButtonOf(p.op) = b
  BY <1>2
<1> HIDE DEF b, p
<1>7. Sends(p) => /\ p.sentAt < now'
                  /\ \A c \in Home!Buttons \ {b} : Sends(posts[c]) => posts[c].sentAt # p.sentAt
  BY <1>1, <1>2, <1>3 DEF DaemonInv
<1>8. /\ \A a \in answers' : /\ a.kind = b => p.op # Home!None /\ p.result = "ok"
                             /\ a.kind \in Home!Buttons \ {b} => a \in answers
      /\ \A a, a2 \in answers' : a.kind = b /\ a2.kind = b => a = a2
  BY <1>1, <1>5
<1>9. b \in Home!Buttons /\ p \in Posts /\ posts' = [posts EXCEPT ![b] = p]
  BY <1>1, <1>2
<1> QED
  BY <1>4, <1>6, <1>7, <1>8, <1>9, PostPut

\* A post the daemon has taken or refused.
Answered(p, result, next) ==
  [op |-> p.op, session |-> p.session, sentAt |-> p.sentAt, next |-> next, result |-> result]

LEMMA AnsweredIs ==
  ASSUME NEW p \in BusyPosts, NEW result, NEW next
  PROVE  [[p EXCEPT !.result = result] EXCEPT !.next = next] = Answered(p, result, next)
<1> DEFINE o == p.op
           s == p.session
           at == p.sentAt
           q == [p EXCEPT !.result = result]
<1>1. p = [op |-> o, session |-> s, sentAt |-> at, next |-> p.next, result |-> p.result]
  BY DEF BusyPosts
<1>2. Answered(p, result, next) =
        [op |-> o, session |-> s, sentAt |-> at, next |-> next, result |-> result]
  BY DEF Answered
<1> HIDE DEF o, s, at
<1>3. q = [op |-> o, session |-> s, sentAt |-> at, next |-> p.next, result |-> result]
  BY <1>1
<1> HIDE DEF q
<1>4. [q EXCEPT !.next = next] =
        [op |-> o, session |-> s, sentAt |-> at, next |-> next, result |-> result]
  BY <1>3
<1> QED
  BY <1>2, <1>4 DEF q

LEMMA ResultIs ==
  ASSUME PostsInv, NEW b \in Home!Buttons, posts[b].op # Home!None,
         NEW result \in {"ok", "refused"}, NEW next \in Place, Home!Result(b, result, next)
  PROVE  LET p == Answered(posts[b], result, next) IN
         /\ posts' = [posts EXCEPT ![b] = p] /\ p \in Posts /\ p.op = posts[b].op
         /\ p.session = posts[b].session /\ p.sentAt = posts[b].sentAt /\ p.result = result
<1> DEFINE p == Answered(posts[b], result, next)
<1>1. posts[b] \in BusyPosts
  BY PostOf
<1>2. /\ p.op = posts[b].op /\ p.session = posts[b].session
      /\ p.sentAt = posts[b].sentAt /\ p.result = result
  BY DEF Answered
<1>6. p \in Posts
  BY <1>1 DEF Answered, Posts, BusyPosts
<1>3. posts' = [[posts EXCEPT ![b] = [posts[b] EXCEPT !.result = result]] EXCEPT
                  ![b] = [[posts[b] EXCEPT !.result = result] EXCEPT !.next = next]]
  BY DEF Home!Result, PostsInv
<1>4. [[posts[b] EXCEPT !.result = result] EXCEPT !.next = next] = p
  BY <1>1, AnsweredIs
<1>5. posts' = [posts EXCEPT ![b] = p]
  BY <1>3, <1>4 DEF PostsInv
<1> QED
  BY <1>2, <1>5, <1>6

\* What the daemon does with a send: it refuses it, and nothing else changes; or
\* takes it, a message with a turn, in a session open to it.
LEMMA TakeIs ==
  ASSUME DaemonInv, PostsInv, NEW b \in Home!Buttons, Home!Take(b)
  PROVE  /\ posts[b] \in BusyPosts /\ posts[b].result = Home!None /\ UNCHANGED <<answers, receipts>>
         /\ \E p \in Posts :
              /\ posts' = [posts EXCEPT ![b] = p] /\ p.op = posts[b].op
              /\ p.session = posts[b].session /\ p.sentAt = posts[b].sentAt
              /\ \/ p.result = "refused" /\ turns' = turns
                 \/ p.result = "ok" /\ turns' = turns /\ ~Sends(p)
                 \/ /\ p.result = "ok" /\ Sends(p) /\ ~Closed(p.session)
                    /\ turns' = [turns EXCEPT ![p.session] = Append(turns[p.session], now)]
                    /\ p.op = "steer" => ~Parked(p.session)
                    /\ p.op = "reply" => Closed(p.session)'
<1> DEFINE s == posts[b].session
<1>1. /\ posts[b] \in BusyPosts /\ posts[b].result = Home!None /\ UNCHANGED <<answers, receipts>>
      /\ posts[b].op # Home!None /\ s \in Session
  BY PostOf DEF Home!Take
<1>2. CASE Home!TakeTurn(b)
  <2>1. /\ posts[b].op = "steer" /\ status[s] \in {"queued", "running"}
        /\ turns' = [turns EXCEPT ![s] = Append(turns[s], now)] /\ Home!Result(b, "ok", Home!None)
    BY <1>2 DEF Home!TakeTurn
  <2>2. Home!None \in Place
    BY DEF Place, Over!None, Home!None
  <2>3. PICK p \in Posts : /\ posts' = [posts EXCEPT ![b] = p] /\ p.op = posts[b].op /\ p.session = s
                           /\ p.sentAt = posts[b].sentAt /\ p.result = "ok"
    BY <1>1, <2>1, <2>2, ResultIs
  <2>4. ~Closed(s) /\ ~Parked(s)
    BY <2>1 DEF Closed, Parked, ParkedIn
  <2> HIDE DEF s
  <2>5. Sends(p) /\ p.op # "reply"
    BY <2>1, <2>3 DEF Sends
  <2> QED
    BY <1>1, <2>1, <2>3, <2>4, <2>5 DEF s
<1>3. CASE Home!TakeReply(b)
  <2>1. PICK f \in Session :
          /\ posts[b].op = "reply" /\ status[s] = "awaiting_input" /\ s \notin answered
          /\ turns' = [turns EXCEPT ![s] = Append(turns[s], now)] /\ answered' = answered \cup {s}
          /\ status[f] = Home!None /\ status' = [status EXCEPT ![f] = "queued"]
          /\ Home!Result(b, "ok", f)
    BY <1>3 DEF Home!TakeReply
  <2>2. f \in Place
    BY DEF Place
  <2>3. PICK p \in Posts : /\ posts' = [posts EXCEPT ![b] = p] /\ p.op = posts[b].op /\ p.session = s
                           /\ p.sentAt = posts[b].sentAt /\ p.result = "ok"
    BY <1>1, <2>1, <2>2, ResultIs
  <2>4. ~Closed(s)
    BY <2>1 DEF Closed
  <2>5. status'[s] = "awaiting_input" /\ s \in answered'
    BY <1>1, <2>1 DEF DaemonInv, Home!None
  <2> HIDE DEF s
  <2>6. Sends(p) /\ p.op # "steer"
    BY <2>1, <2>3 DEF Sends
  <2>7. Closed(p.session)'
    BY <2>3, <2>5 DEF Closed, Home!None
  <2> QED
    BY <1>1, <2>1, <2>3, <2>4, <2>6, <2>7 DEF s
<1>4. CASE Home!TakeCancel(b)
  <2>1. posts[b].op = "cancel" /\ turns' = turns /\ Home!Result(b, "ok", Home!None)
    BY <1>4 DEF Home!TakeCancel
  <2>2. Home!None \in Place
    BY DEF Place, Over!None, Home!None
  <2>3. PICK p \in Posts : /\ posts' = [posts EXCEPT ![b] = p] /\ p.op = posts[b].op /\ p.session = s
                           /\ p.sentAt = posts[b].sentAt /\ p.result = "ok"
    BY <1>1, <2>1, <2>2, ResultIs
  <2>4. ~Sends(p)
    BY <2>1, <2>3 DEF Sends
  <2> QED
    BY <1>1, <2>1, <2>3, <2>4
<1>5. CASE Home!TakeAsk(b)
  <2>1. PICK f \in Session :
          posts[b].op \in {"followup", "resume"} /\ turns' = turns /\ Home!Result(b, "ok", f)
    BY <1>5 DEF Home!TakeAsk
  <2>2. f \in Place
    BY DEF Place
  <2>3. PICK p \in Posts : /\ posts' = [posts EXCEPT ![b] = p] /\ p.op = posts[b].op /\ p.session = s
                           /\ p.sentAt = posts[b].sentAt /\ p.result = "ok"
    BY <1>1, <2>1, <2>2, ResultIs
  <2>4. ~Sends(p)
    BY <2>1, <2>3 DEF Sends
  <2> QED
    BY <1>1, <2>1, <2>3, <2>4
<1>6. CASE Home!Refuse(b)
  <2>1. turns' = turns /\ Home!Result(b, "refused", Home!None)
    BY <1>6 DEF Home!Refuse, Home!daemon
  <2>2. Home!None \in Place
    BY DEF Place, Over!None, Home!None
  <2>3. PICK p \in Posts : /\ posts' = [posts EXCEPT ![b] = p] /\ p.op = posts[b].op /\ p.session = s
                           /\ p.sentAt = posts[b].sentAt /\ p.result = "refused"
    BY <1>1, <2>1, <2>2, ResultIs
  <2> QED
    BY <1>1, <2>1, <2>3
<1> QED
  BY <1>2, <1>3, <1>4, <1>5, <1>6 DEF Home!Take

LEMMA PostsTake ==
  ASSUME DaemonInv, DaemonInv', Grows, PostsInv, NEW b \in Home!Buttons, Home!Take(b)
  PROVE  PostsInv'
<1>1. /\ posts[b] \in BusyPosts /\ posts[b].result = Home!None /\ answers' = answers
  BY TakeIs
<1>2. PICK p \in Posts :
        /\ posts' = [posts EXCEPT ![b] = p] /\ p.op = posts[b].op
        /\ p.session = posts[b].session /\ p.sentAt = posts[b].sentAt
  BY TakeIs
<1>3. p.op # Home!None => Home!ButtonOf(p.op) = b
  BY <1>2 DEF PostsInv
<1>4. p.sentAt \in Nat /\ p.session \in Session
  BY <1>1, <1>2 DEF BusyPosts
<1>5. Sends(p) => /\ p.sentAt < now'
                  /\ \A c \in Home!Buttons \ {b} : Sends(posts[c]) => posts[c].sentAt # p.sentAt
  BY <1>2, <1>4 DEF DaemonInv, Grows, PostsInv, Sends
<1>6. p.op = "reply" => ParkedIn(p.session, status')
  BY <1>2, <1>4 DEF PostsInv, Grows, Parked
<1>7. \A a \in answers : a.kind # b
  BY <1>1 DEF PostsInv, Home!None
<1> QED
  BY <1>1, <1>2, <1>3, <1>5, <1>6, <1>7, PostPut

\* The answer to a button is in: its list is asked for.
LEMMA AcceptedIs ==
  ASSUME PostsInv, NEW b \in Home!Buttons, Home!Accepted(b)
  PROVE  /\ posts[b] \in BusyPosts /\ posts[b].result = "ok" /\ \A a \in answers : a.kind # b
         /\ receipts' = Home!settleSend(posts[b], TRUE) /\ UNCHANGED <<now, status, turns, answered>>
         /\ answers' = answers \cup {Answer(b, Home!Listed)}
         /\ \E p \in BusyPosts :
              /\ posts' = [posts EXCEPT ![b] = p] /\ p.op = posts[b].op
              /\ p.session = posts[b].session /\ p.sentAt = posts[b].sentAt /\ p.result = "ok"
<1> DEFINE p == IF posts[b].op = "resume" THEN [posts[b] EXCEPT !.next = Home!None] ELSE posts[b]
<1>1. /\ posts[b].op # Home!None /\ posts[b].result = "ok" /\ \A a \in answers : a.kind # b
      /\ receipts' = Home!settleSend(posts[b], TRUE) /\ UNCHANGED <<now, status, turns, answered>>
      /\ answers' = answers \cup {Answer(b, Home!Listed)}
      /\ posts' = IF posts[b].op = "resume" THEN [posts EXCEPT ![b].next = Home!None] ELSE posts
  BY DEF Home!Accepted, Home!Ask, Answer, Home!daemon
<1>2. posts[b] \in BusyPosts
  BY <1>1, PostOf
<1>3. posts' = [posts EXCEPT ![b] = p]
  BY <1>1 DEF PostsInv
<1>4. /\ p \in BusyPosts /\ p.op = posts[b].op
      /\ p.session = posts[b].session /\ p.sentAt = posts[b].sentAt /\ p.result = "ok"
  BY <1>1, <1>2 DEF BusyPosts, Place, Home!None, Over!None
<1> QED
  BY <1>1, <1>2, <1>3, <1>4

LEMMA PostsAccepted ==
  ASSUME DaemonInv, DaemonInv', Grows, PostsInv, NEW b \in Home!Buttons, Home!Accepted(b)
  PROVE  PostsInv'
<1>1. /\ posts[b] \in BusyPosts /\ \A a \in answers : a.kind # b
      /\ answers' = answers \cup {Answer(b, Home!Listed)}
  BY AcceptedIs
<1>2. PICK p \in BusyPosts :
        /\ posts' = [posts EXCEPT ![b] = p] /\ p.op = posts[b].op
        /\ p.session = posts[b].session /\ p.sentAt = posts[b].sentAt /\ p.result = "ok"
  BY AcceptedIs
<1>3. p.op # Home!None /\ Home!ButtonOf(p.op) = b /\ p \in Posts
  BY <1>2 DEF BusyPosts, Ops, Home!None, PostsInv, Posts
<1>4. p.sentAt \in Nat /\ p.session \in Session
  BY <1>1, <1>2 DEF BusyPosts
<1>5. Sends(p) => /\ p.sentAt < now'
                  /\ \A c \in Home!Buttons \ {b} : Sends(posts[c]) => posts[c].sentAt # p.sentAt
  BY <1>2, <1>4 DEF DaemonInv, Grows, PostsInv, Sends
<1>6. p.op = "reply" => ParkedIn(p.session, status')
  BY <1>2, <1>4 DEF PostsInv, Grows, Parked
<1>7. \A a \in answers' : a.kind = b => a = Answer(b, Home!Listed)
  BY <1>1
<1>8. \A a \in answers' : a.kind # b => a \in answers
  BY <1>1, AnswerIs
<1>9. \A a, a2 \in answers' : a.kind = b /\ a2.kind = b => a = a2
  BY <1>7
<1>10. \A a \in answers' : /\ a.kind = b => p.op # Home!None /\ p.result = "ok"
                           /\ a.kind \in Home!Buttons \ {b} => a \in answers
  BY <1>2, <1>3, <1>8
<1> QED
  BY <1>2, <1>3, <1>5, <1>6, <1>9, <1>10, PostPut

\* A button is free again: what it sent failed, or its list landed.
LEMMA PostsFree ==
  ASSUME DaemonInv, DaemonInv', Grows, PostsInv, NEW b \in Home!Buttons,
         posts' = [posts EXCEPT ![b] = FreePost], answers' \subseteq answers,
         \A a \in answers' : a.kind # b
  PROVE  PostsInv'
<1> DEFINE p == FreePost
<1>1. p \in Posts /\ p.op = Home!None /\ ~Sends(p) /\ p.op # "reply"
  BY FreeIs DEF Home!None
<1> HIDE DEF p
<1>2. posts' = [posts EXCEPT ![b] = p]
  BY DEF p
<1> QED
  BY <1>1, <1>2, PostPut

LEMMA FailedIs ==
  ASSUME PostsInv, NEW b \in Home!Buttons, Home!Failed(b)
  PROVE  /\ posts[b] \in BusyPosts /\ \A a \in answers : a.kind # b
         /\ receipts' = Home!settleSend(posts[b], FALSE)
         /\ UNCHANGED <<now, status, turns, answered, answers>>
         /\ posts' = [posts EXCEPT ![b] = FreePost]
  BY PostOf DEF Home!Failed, Home!daemon, FreePost

LEMMA LandIs ==
  ASSUME PostsInv, NEW a \in answers, Home!Land(a)
  PROVE  /\ answers' = answers \ {a} /\ UNCHANGED <<now, status, turns, answered, receipts>>
         /\ \/ posts' = posts
            \/ /\ a.kind \in Home!Buttons /\ posts[a.kind].result = "ok"
               /\ posts' = [posts EXCEPT ![a.kind] = FreePost]
               /\ \A a2 \in answers' : a2.kind # a.kind
<1>1. answers' = answers \ {a} /\ UNCHANGED <<now, status, turns, answered, receipts>>
  BY DEF Home!Land, Home!daemon
<1>2. CASE Home!LandRefresh(a)
  <2>1. a.kind \in Home!Buttons /\ posts' = [posts EXCEPT ![a.kind] = FreePost]
    BY <1>2 DEF Home!LandRefresh, PostsInv, FreePost
  <2> QED
    BY <1>1, <2>1 DEF PostsInv
<1>3. CASE Home!LandLoad(a) \/ Home!LandOne(a)
  BY <1>1, <1>3 DEF Home!LandLoad, Home!LandOne
<1> QED
  BY <1>2, <1>3 DEF Home!Land

LEMMA PostsLand ==
  ASSUME DaemonInv, DaemonInv', Grows, PostsInv, NEW a \in answers, Home!Land(a)
  PROVE  PostsInv'
<1>1. answers' \subseteq answers
  BY LandIs
<1>2. CASE posts' = posts
  BY <1>1, <1>2, PostsRest
<1>3. CASE posts' # posts
  BY <1>1, <1>3, LandIs, PostsFree
<1> QED
  BY <1>2, <1>3

-----------------------------------------------------------------------------
(* HomePage: a message in flight has no turn yet, unless another message of *)
(* its time or later ended the session.                                    *)

WaitOK(p) ==
  \A m \in DOMAIN turns[p.session] :
    turns[p.session][m] >= p.sentAt => m = Len(turns[p.session]) /\ Closed(p.session)

WaitsInv == \A b \in Home!Buttons : Waits(posts[b]) => WaitOK(posts[b])

LEMMA WaitsStart == ASSUME Home!Init PROVE WaitsInv
<1>1. posts = [b \in Home!Buttons |-> FreePost]
  BY DEF Home!Init, FreePost
<1> QED
  BY <1>1, FreeIs DEF WaitsInv, Waits

LEMMA WaitStays ==
  ASSUME Grows, NEW p, p.session \in Session, WaitOK(p), turns'[p.session] = turns[p.session]
  PROVE  WaitOK(p)'
  BY DEF WaitOK, Grows

LEMMA WaitsKept ==
  ASSUME DaemonInv, Grows, PostsInv, WaitsInv, turns' = turns,
         \A b \in Home!Buttons : Waits(posts'[b]) =>
           Waits(posts[b]) /\ posts'[b].session = posts[b].session /\ posts'[b].sentAt = posts[b].sentAt
  PROVE  WaitsInv'
<1> SUFFICES ASSUME NEW b \in Home!Buttons, Waits(posts'[b]) PROVE WaitOK(posts[b])'
  BY DEF WaitsInv
<1>1. /\ Waits(posts[b]) /\ posts'[b].session = posts[b].session /\ posts'[b].sentAt = posts[b].sentAt
      /\ WaitOK(posts[b]) /\ posts[b].session \in Session
  BY SendsBy DEF WaitsInv, Waits
<1> DEFINE p == posts[b]
<1>2. PICK q : q = p
  OBVIOUS
<1>3. WaitOK(q)'
  BY <1>1, <1>2, WaitStays
<1>4. WaitOK(q)' => \A m \in DOMAIN turns'[q.session] :
        turns'[q.session][m] >= q.sentAt => m = Len(turns'[q.session]) /\ Closed(q.session)'
  BY DEF WaitOK
<1> QED
  BY <1>1, <1>2, <1>3, <1>4 DEF WaitOK, Closed

LEMMA WaitsSend ==
  ASSUME DaemonInv, Grows, ListInv, PostsInv, WaitsInv, NEW op \in Ops, Home!Send(op)
  PROVE  WaitsInv'
<1> SUFFICES ASSUME NEW c \in Home!Buttons, Waits(posts'[c]) PROVE WaitOK(posts[c])'
  BY DEF WaitsInv
<1> DEFINE b == Home!ButtonOf(op)
<1>1. /\ b \in Home!Buttons /\ posts' = [posts EXCEPT ![b] = Home!Post(op)] /\ turns' = turns
      /\ selected \in Session /\ posts[b].op = Home!None
  BY SendIs
<1>2. CASE c = b
  <2>1. posts'[c].session \in Session /\ posts'[c].sentAt = now
    BY <1>1, <1>2, NewPost DEF DaemonInv, PostsInv
  <2>2. \A m \in DOMAIN turns[posts'[c].session] : turns[posts'[c].session][m] < now
    BY <2>1 DEF DaemonInv, Before
  <2>3. \A m \in DOMAIN turns[posts'[c].session] : turns[posts'[c].session][m] \in Nat
    BY <2>1 DEF DaemonInv
  <2> QED
    BY <1>1, <2>1, <2>2, <2>3 DEF WaitOK, DaemonInv
<1>3. CASE c # b
  <2>1. posts'[c] = posts[c]
    BY <1>1, <1>3 DEF PostsInv
  <2>2. Waits(posts[c]) /\ WaitOK(posts[c]) /\ posts[c].session \in Session
    BY <2>1, SendsBy DEF WaitsInv, Waits
  <2>3. PICK q : q = posts[c]
    OBVIOUS
  <2>4. WaitOK(q)'
    BY <1>1, <2>2, <2>3, WaitStays
  <2> QED
    BY <2>1, <2>3, <2>4 DEF WaitOK, Closed
<1> QED
  BY <1>2, <1>3

LEMMA WaitsTake ==
  ASSUME DaemonInv, DaemonInv', Grows, PostsInv, WaitsInv, NEW b \in Home!Buttons, Home!Take(b)
  PROVE  WaitsInv'
<1>1. PICK p \in Posts :
        /\ posts' = [posts EXCEPT ![b] = p] /\ p.op = posts[b].op
        /\ p.session = posts[b].session /\ p.sentAt = posts[b].sentAt
        /\ \/ p.result = "refused" /\ turns' = turns
           \/ p.result = "ok" /\ turns' = turns /\ ~Sends(p)
           \/ /\ p.result = "ok" /\ Sends(p) /\ ~Closed(p.session)
              /\ turns' = [turns EXCEPT ![p.session] = Append(turns[p.session], now)]
              /\ p.op = "steer" => ~Parked(p.session)
              /\ p.op = "reply" => Closed(p.session)'
  BY TakeIs
<1>2. posts[b] \in BusyPosts /\ posts[b].result = Home!None
  BY TakeIs
<1>3. /\ posts'[b] = p /\ \A c \in Home!Buttons \ {b} : posts'[c] = posts[c]
      /\ Waits(p) => Waits(posts[b])
  BY <1>1, <1>2 DEF PostsInv, Waits, Sends, Home!None
<1>4. CASE turns' = turns
  BY <1>1, <1>3, <1>4, WaitsKept
<1>5. CASE turns' # turns
  <2>1. /\ p.result = "ok" /\ Sends(p) /\ ~Closed(p.session)
        /\ turns' = [turns EXCEPT ![p.session] = Append(turns[p.session], now)]
        /\ p.op = "steer" => ~Parked(p.session)
        /\ p.op = "reply" => Closed(p.session)'
    BY <1>1, <1>5
  <2>2. p.op = b /\ p.session \in Session
    BY <1>1, <2>1, SendsBy DEF Sends
  <2> SUFFICES ASSUME NEW c \in Home!Buttons, Waits(posts'[c]) PROVE WaitOK(posts[c])'
    BY DEF WaitsInv
  <2>3. c # b /\ posts'[c] = posts[c] /\ Waits(posts[c])
    BY <1>3, <2>1 DEF Waits
  <2>4. PICK q : q = posts[c]
    OBVIOUS
  <2>5. WaitOK(q) /\ q.session \in Session /\ q.op = c /\ q \in BusyPosts
    BY <2>3, <2>4, SendsBy DEF WaitsInv, Waits
  <2>6. CASE q.session # p.session
    <3>1. turns'[q.session] = turns[q.session]
      BY <2>1, <2>5, <2>6 DEF DaemonInv
    <3>2. WaitOK(q)'
      BY <2>5, <3>1, WaitStays
    <3> QED
      BY <2>3, <2>4, <3>2 DEF WaitOK, Closed
  <2>7. CASE q.session = p.session
    <3>1. p.op = "reply"
      <4> SUFFICES ASSUME p.op = "steer" PROVE FALSE
        BY <2>1 DEF Sends
      <4>1. q.op = "reply"
        BY <2>2, <2>3, <2>4, <2>5 DEF Waits, Sends
      <4> QED
        BY <2>1, <2>4, <2>7, <4>1 DEF PostsInv
    <3>2. turns'[p.session] = Append(turns[p.session], now) /\ turns[p.session] \in Seq(Nat)
      BY <2>1, <2>2 DEF DaemonInv
    <3>3. \A m \in DOMAIN turns[p.session] : ~(turns[p.session][m] >= q.sentAt)
      BY <2>1, <2>5, <2>7 DEF WaitOK
    <3>4. ASSUME NEW m \in DOMAIN turns'[p.session], turns'[p.session][m] >= q.sentAt
          PROVE  m = Len(turns'[p.session])
      <4>1. m \in 1 .. Len(turns[p.session]) + 1 /\ Len(turns[p.session]) \in Nat
        BY <3>2
      <4>2. CASE m = Len(turns[p.session]) + 1
        BY <3>2, <4>2
      <4>3. CASE m # Len(turns[p.session]) + 1
        <5>1. m \in 1 .. Len(turns[p.session])
          BY <4>1, <4>3
        <5>2. turns'[p.session][m] = turns[p.session][m] /\ m \in DOMAIN turns[p.session]
          BY <3>2, <5>1
        <5> QED
          BY <3>3, <3>4, <5>2
      <4> QED
        BY <4>2, <4>3
    <3>5. Closed(p.session)'
      BY <2>1, <3>1
    <3> QED
      BY <2>3, <2>4, <2>7, <3>4, <3>5 DEF WaitOK, Closed
  <2> QED
    BY <2>6, <2>7
<1> QED
  BY <1>4, <1>5

-----------------------------------------------------------------------------
(* HomePage: the receipts kept.  Each names the session and the time of a   *)
(* message; the posts in flight and the turns of the daemon say what came   *)
(* of it.                                                                   *)

Receipts == [session : Session, sentAt : Nat, state : {"sending", "sent", "failed"}]

For(p, r) == Sends(p) /\ p.session = r.session /\ p.sentAt = r.sentAt
Settled(r, sends) == \A b \in Home!Buttons : ~(Waits(sends[b]) /\ For(sends[b], r))

\* What was sent and did not fail has a turn since.
Covered(r, sends, times) ==
  r.state # "failed" /\ Settled(r, sends) =>
    \E m \in DOMAIN times[r.session] : times[r.session][m] >= r.sentAt

\* No button waits for what failed.
Gone(r, sends) ==
  r.state = "failed" => \A b \in Home!Buttons : Sends(sends[b]) => sends[b].sentAt # r.sentAt

\* Of two messages to a session, the first has its turn before the second is sent.
Between(r, q, times) ==
  \E m \in DOMAIN times[r.session] :
    times[r.session][m] >= r.sentAt /\ times[r.session][m] < q.sentAt
Apart(r, q, sends, times) ==
  /\ r.session = q.session /\ r.state # "failed" /\ q.state # "failed"
  /\ Settled(r, sends) /\ Settled(q, sends)
  => Between(r, q, times)

ReceiptsOK(kept, at, sends, times) ==
  /\ kept \in Seq(Receipts)
  /\ \A i \in DOMAIN kept :
       kept[i].sentAt < at /\ Covered(kept[i], sends, times) /\ Gone(kept[i], sends)
  /\ \A i, j \in DOMAIN kept :
       i < j => kept[i].sentAt < kept[j].sentAt /\ Apart(kept[i], kept[j], sends, times)

TicksInv == ReceiptsOK(receipts, now, posts, turns)

LEMMA TicksStart == ASSUME Home!Init PROVE TicksInv
<1>1. receipts = <<>>
  BY DEF Home!Init
<1> QED
  BY <1>1 DEF TicksInv, ReceiptsOK

LEMMA KeptOK ==
  ASSUME NEW kept, NEW at, NEW sends, NEW times, ReceiptsOK(kept, at, sends, times),
         NEW max \in Nat
  PROVE  ReceiptsOK(Home!Keep(kept, max), at, sends, times)
<1> DEFINE q == Home!Keep(kept, max)
<1>1. kept \in Seq(Receipts)
  BY DEF ReceiptsOK
<1>2. PICK d \in Nat : \A i \in DOMAIN q : i + d \in DOMAIN kept /\ q[i] = kept[i + d]
  BY <1>1, KeepIs
<1>3. q \in Seq(Receipts)
  BY <1>1, KeepIs
<1> HIDE DEF q
<1>4. \A i \in DOMAIN q : q[i].sentAt < at /\ Covered(q[i], sends, times) /\ Gone(q[i], sends)
  BY <1>2 DEF ReceiptsOK
<1>5. ASSUME NEW i \in DOMAIN q, NEW j \in DOMAIN q, i < j
      PROVE  q[i].sentAt < q[j].sentAt /\ Apart(q[i], q[j], sends, times)
  <2>1. i \in Nat /\ j \in Nat /\ i + d < j + d
    BY <1>3, <1>5
  <2> QED
    BY <1>2, <2>1 DEF ReceiptsOK
<1>6. ReceiptsOK(q, at, sends, times)
  BY <1>3, <1>4, <1>5 DEF ReceiptsOK
<1> QED
  BY <1>6 DEF q

\* A step that settles no receipt but by failing it.
Succeeds(r, old) ==
  /\ r.session = old.session /\ r.sentAt = old.sentAt
  /\ r.state # "failed" => old.state # "failed" /\ (Settled(old, posts') => Settled(old, posts))
  /\ Gone(r, posts')

LEMMA SettledAlike ==
  ASSUME NEW r, NEW old, NEW sends, r.session = old.session, r.sentAt = old.sentAt
  PROVE  Settled(r, sends) <=> Settled(old, sends)
  BY DEF Settled, For

LEMMA TicksCarry ==
  ASSUME DaemonInv, DaemonInv', Grows, TicksInv, receipts' \in Seq(Receipts),
         DOMAIN receipts' = DOMAIN receipts,
         \A i \in DOMAIN receipts : Succeeds(receipts'[i], receipts[i])
  PROVE  TicksInv'
<1>1. \A s \in Session : /\ turns[s] \in Seq(Nat) /\ turns'[s] \in Seq(Nat)
                         /\ IsStartOf(turns[s], turns'[s])
  BY DEF DaemonInv, Grows
<1>2. \A s \in Session : \A m \in DOMAIN turns[s] : m \in DOMAIN turns'[s] /\ turns'[s][m] = turns[s][m]
  BY <1>1 DEF IsStartOf
<1>3. \A i \in DOMAIN receipts : receipts[i] \in Receipts
  BY DEF TicksInv, ReceiptsOK
<1>4. \A i \in DOMAIN receipts : receipts[i].session \in Session /\ receipts[i].sentAt \in Nat
  BY <1>3 DEF Receipts
<1>5. ASSUME NEW i \in DOMAIN receipts
      PROVE  /\ receipts'[i].sentAt < now' /\ Covered(receipts'[i], posts', turns')
             /\ Gone(receipts'[i], posts')
  <2> DEFINE r == receipts'[i]
             old == receipts[i]
  <2>1. /\ Succeeds(r, old) /\ old.sentAt < now /\ Covered(old, posts, turns)
        /\ old.session \in Session /\ old.sentAt \in Nat
    BY <1>4 DEF TicksInv, ReceiptsOK
  <2>2. r.session = old.session /\ r.sentAt = old.sentAt /\ Gone(r, posts')
    BY <2>1 DEF Succeeds
  <2> HIDE DEF r, old
  <2>3. Covered(r, posts', turns')
    <3> SUFFICES ASSUME r.state # "failed", Settled(r, posts')
                 PROVE  \E m \in DOMAIN turns'[r.session] : turns'[r.session][m] >= r.sentAt
      BY DEF Covered
    <3>1. old.state # "failed" /\ Settled(old, posts)
      BY <2>1, <2>2, SettledAlike DEF Succeeds
    <3>2. PICK m \in DOMAIN turns[old.session] : turns[old.session][m] >= old.sentAt
      BY <2>1, <3>1 DEF Covered
    <3> QED
      BY <1>2, <2>1, <2>2, <3>2
  <2> QED
    BY <2>1, <2>2, <2>3 DEF DaemonInv, Grows, r
<1>6. ASSUME NEW i \in DOMAIN receipts, NEW j \in DOMAIN receipts, i < j
      PROVE  /\ receipts'[i].sentAt < receipts'[j].sentAt
             /\ Apart(receipts'[i], receipts'[j], posts', turns')
  <2> DEFINE r == receipts'[i]
             q == receipts'[j]
             older == receipts[i]
             old == receipts[j]
  <2>1. /\ Succeeds(r, older) /\ Succeeds(q, old) /\ older.sentAt < old.sentAt
        /\ Apart(older, old, posts, turns) /\ older.session \in Session
    BY <1>4, <1>6 DEF TicksInv, ReceiptsOK
  <2>2. /\ r.session = older.session /\ r.sentAt = older.sentAt
        /\ q.session = old.session /\ q.sentAt = old.sentAt
    BY <2>1 DEF Succeeds
  <2> HIDE DEF r, q, older, old
  <2>3. Apart(r, q, posts', turns')
    <3> SUFFICES ASSUME r.session = q.session, r.state # "failed", q.state # "failed",
                        Settled(r, posts'), Settled(q, posts')
                 PROVE  Between(r, q, turns')
      BY DEF Apart
    <3>1. /\ older.state # "failed" /\ Settled(older, posts)
          /\ old.state # "failed" /\ Settled(old, posts)
      BY <2>1, <2>2, SettledAlike DEF Succeeds
    <3>2. Between(older, old, turns)
      BY <2>1, <2>2, <3>1 DEF Apart
    <3> QED
      BY <1>2, <2>1, <2>2, <3>2 DEF Between
  <2> QED
    BY <2>1, <2>2, <2>3 DEF r, q
<1> QED
  BY <1>5, <1>6 DEF TicksInv, ReceiptsOK

\* A step that changes no receipt, and frees no button that waits.
LEMMA TicksRest ==
  ASSUME DaemonInv, DaemonInv', Grows, PostsInv, TicksInv, receipts' = receipts,
         \A b \in Home!Buttons :
           /\ Sends(posts'[b]) => Sends(posts[b]) /\ posts'[b].sentAt = posts[b].sentAt
           /\ Waits(posts[b]) => /\ Waits(posts'[b]) /\ posts'[b].session = posts[b].session
                                 /\ posts'[b].sentAt = posts[b].sentAt
  PROVE  TicksInv'
<1>1. receipts \in Seq(Receipts)
  BY DEF TicksInv, ReceiptsOK
<1>2. ASSUME NEW i \in DOMAIN receipts PROVE Succeeds(receipts'[i], receipts[i])
  <2> DEFINE r == receipts[i]
  <2>1. Gone(r, posts)
    BY DEF TicksInv, ReceiptsOK
  <2> HIDE DEF r
  <2>2. Gone(r, posts')
    BY <2>1 DEF Gone
  <2>3. Settled(r, posts') => Settled(r, posts)
    BY DEF Settled, For, Waits
  <2>4. Succeeds(r, r)
    BY <2>2, <2>3 DEF Succeeds
  <2> QED
    BY <2>4 DEF r
<1> QED
  BY <1>1, <1>2, TicksCarry

\* What settleSend makes of a receipt.
SettleOne(r, p, ok) ==
  IF p.op \in {"reply", "steer"} /\ r.session = p.session /\ r.sentAt = p.sentAt
  THEN [r EXCEPT !.state = IF ok THEN "sent" ELSE "failed"] ELSE r

LEMMA SettleOneIs ==
  ASSUME NEW r \in Receipts, NEW p, NEW ok \in BOOLEAN
  PROVE  LET q == SettleOne(r, p, ok) IN
         /\ q \in Receipts /\ q.session = r.session /\ q.sentAt = r.sentAt
         /\ For(p, r) => q.state = IF ok THEN "sent" ELSE "failed"
         /\ ~For(p, r) => q = r
<1>1. CASE For(p, r)
  <2>1. SettleOne(r, p, ok) = [r EXCEPT !.state = IF ok THEN "sent" ELSE "failed"]
    BY <1>1 DEF SettleOne, For, Sends
  <2> QED
    BY <1>1, <2>1 DEF Receipts
<1>2. CASE ~For(p, r)
  <2>1. SettleOne(r, p, ok) = r
    BY <1>2 DEF SettleOne, For, Sends
  <2> QED
    BY <1>2, <2>1
<1> QED
  BY <1>1, <1>2

LEMMA SettleIs ==
  ASSUME TicksInv, NEW p, NEW ok \in BOOLEAN, receipts' = Home!settleSend(p, ok)
  PROVE  /\ receipts' \in Seq(Receipts) /\ DOMAIN receipts' = DOMAIN receipts
         /\ \A i \in DOMAIN receipts : /\ receipts[i] \in Receipts
                                       /\ receipts'[i] = SettleOne(receipts[i], p, ok)
<1>1. receipts' = [i \in DOMAIN receipts |-> SettleOne(receipts[i], p, ok)]
  BY DEF Home!settleSend, SettleOne
<1>2. /\ receipts \in Seq(Receipts) /\ DOMAIN receipts = 1 .. Len(receipts) /\ Len(receipts) \in Nat
      /\ \A i \in DOMAIN receipts : receipts[i] \in Receipts
  BY DEF TicksInv, ReceiptsOK
<1>3. \A i \in DOMAIN receipts : SettleOne(receipts[i], p, ok) \in Receipts
  BY <1>2, SettleOneIs
<1> QED
  BY <1>1, <1>2, <1>3

LEMMA TicksAccepted ==
  ASSUME DaemonInv, DaemonInv', Grows, PostsInv, TicksInv, NEW b \in Home!Buttons, Home!Accepted(b)
  PROVE  TicksInv'
<1>1. receipts' = Home!settleSend(posts[b], TRUE)
  BY AcceptedIs
<1>2. PICK p \in BusyPosts :
        /\ posts' = [posts EXCEPT ![b] = p] /\ p.op = posts[b].op
        /\ p.session = posts[b].session /\ p.sentAt = posts[b].sentAt /\ p.result = "ok"
  BY AcceptedIs
<1>3. posts[b].result = "ok"
  BY AcceptedIs
<1>4. posts'[b] = p /\ \A c \in Home!Buttons \ {b} : posts'[c] = posts[c]
  BY <1>2 DEF PostsInv
<1>5. \A c \in Home!Buttons :
        /\ Sends(posts'[c]) <=> Sends(posts[c])
        /\ posts'[c].sentAt = posts[c].sentAt /\ posts'[c].session = posts[c].session
        /\ Waits(posts'[c]) <=> Waits(posts[c])
  BY <1>2, <1>3, <1>4 DEF Sends, Waits
<1>6. ASSUME NEW i \in DOMAIN receipts PROVE Succeeds(receipts'[i], receipts[i])
  <2> DEFINE r == receipts[i]
             p0 == posts[b]
             q == SettleOne(r, p0, TRUE)
  <2>1. r \in Receipts /\ Gone(r, posts) /\ receipts'[i] = q
    BY <1>1, SettleIs DEF TicksInv, ReceiptsOK
  <2>2. /\ q.session = r.session /\ q.sentAt = r.sentAt
        /\ For(p0, r) => q.state = "sent"
        /\ ~For(p0, r) => q = r
    BY <2>1, SettleOneIs
  <2>3. For(p0, r) => r.state # "failed"
    BY <2>1 DEF For, Gone
  <2> HIDE DEF r, p0, q
  <2>4. Gone(r, posts') /\ (Settled(r, posts') => Settled(r, posts))
    BY <1>5, <2>1 DEF Gone, Settled, For
  <2>5. Succeeds(q, r)
    <3>1. CASE For(p0, r)
      BY <2>2, <2>3, <2>4, <3>1 DEF Succeeds, Gone
    <3>2. CASE ~For(p0, r)
      BY <2>2, <2>4, <3>2 DEF Succeeds
    <3> QED
      BY <3>1, <3>2
  <2> QED
    BY <2>1, <2>5 DEF r
<1> QED
  BY <1>1, <1>6, SettleIs, TicksCarry

LEMMA TicksFailed ==
  ASSUME DaemonInv, DaemonInv', Grows, PostsInv, TicksInv, NEW b \in Home!Buttons, Home!Failed(b)
  PROVE  TicksInv'
<1>1. receipts' = Home!settleSend(posts[b], FALSE) /\ posts' = [posts EXCEPT ![b] = FreePost]
  BY FailedIs
<1>2. posts'[b] = FreePost /\ ~Sends(posts'[b]) /\ \A c \in Home!Buttons \ {b} : posts'[c] = posts[c]
  BY <1>1, FreeIs DEF PostsInv
<1>3. ASSUME NEW i \in DOMAIN receipts PROVE Succeeds(receipts'[i], receipts[i])
  <2> DEFINE r == receipts[i]
             p0 == posts[b]
             q == SettleOne(r, p0, FALSE)
  <2>1. r \in Receipts /\ Gone(r, posts) /\ receipts'[i] = q
    BY <1>1, SettleIs DEF TicksInv, ReceiptsOK
  <2>2. /\ q.session = r.session /\ q.sentAt = r.sentAt
        /\ For(p0, r) => q.state = "failed"
        /\ ~For(p0, r) => q = r
    BY <2>1, SettleOneIs
  <2>3. For(p0, r) => \A c \in Home!Buttons : Sends(posts'[c]) => posts'[c].sentAt # r.sentAt
    BY <1>2 DEF For, PostsInv
  <2>4. Gone(r, posts')
    BY <1>2, <2>1 DEF Gone
  <2>5. ~For(p0, r) /\ Settled(r, posts') => Settled(r, posts)
    BY <1>2 DEF Settled
  <2> HIDE DEF r, p0, q
  <2>6. Succeeds(q, r)
    <3>1. CASE For(p0, r)
      <4>1. Gone(q, posts')
        BY <2>2, <2>3, <3>1 DEF Gone
      <4> QED
        BY <2>2, <3>1, <4>1 DEF Succeeds
    <3>2. CASE ~For(p0, r)
      BY <2>2, <2>4, <2>5, <3>2 DEF Succeeds
    <3> QED
      BY <3>1, <3>2
  <2> QED
    BY <2>1, <2>6 DEF r
<1> QED
  BY <1>1, <1>3, SettleIs, TicksCarry

LEMMA TicksLand ==
  ASSUME DaemonInv, DaemonInv', Grows, PostsInv, TicksInv, NEW a \in answers, Home!Land(a)
  PROVE  TicksInv'
<1>1. receipts' = receipts
  BY LandIs
<1>2. CASE posts' = posts
  BY <1>1, <1>2, TicksRest
<1>3. CASE posts' # posts
  <2>1. /\ a.kind \in Home!Buttons /\ posts[a.kind].result = "ok"
        /\ posts' = [posts EXCEPT ![a.kind] = FreePost]
    BY <1>3, LandIs
  <2>2. /\ ~Sends(posts'[a.kind]) /\ ~Waits(posts[a.kind])
        /\ \A c \in Home!Buttons \ {a.kind} : posts'[c] = posts[c]
    BY <2>1, FreeIs DEF PostsInv, Waits
  <2> QED
    BY <1>1, <2>2, TicksRest
<1> QED
  BY <1>2, <1>3

NewReceipt(s, at) == [session |-> s, sentAt |-> at, state |-> "sending"]

LEMMA TicksSend ==
  ASSUME DaemonInv, DaemonInv', Grows, ListInv, PostsInv, TicksInv, MaxReceipts \in Nat,
         NEW op \in Ops, Home!Send(op)
  PROVE  TicksInv'
<1> DEFINE b == Home!ButtonOf(op)
           n == NewReceipt(selected, now)
           all == Append(receipts, n)
<1>1. /\ selected \in Session /\ b \in Home!Buttons /\ posts[b].op = Home!None /\ now' = now + 1
      /\ posts' = [posts EXCEPT ![b] = Home!Post(op)] /\ receipts' = Home!trackSend(op)
      /\ turns' = turns
  BY SendIs
<1>2. /\ posts'[b].op = op /\ posts'[b].session = selected /\ posts'[b].sentAt = now
      /\ posts'[b].result # "ok" /\ ~Sends(posts[b])
      /\ \A c \in Home!Buttons \ {b} : posts'[c] = posts[c]
  BY <1>1, NewPost DEF DaemonInv, PostsInv, Sends, Home!None
<1>3. CASE op \notin {"reply", "steer"}
  <2>1. receipts' = receipts
    BY <1>1, <1>3 DEF Home!trackSend
  <2>2. ~Sends(posts'[b])
    BY <1>2, <1>3 DEF Sends
  <2> HIDE DEF b
  <2> QED
    BY <1>1, <1>2, <2>1, <2>2, TicksRest DEF Waits
<1>4. CASE op \in {"reply", "steer"}
  <2>1. receipts' = Home!Keep(all, MaxReceipts)
    BY <1>1, <1>4 DEF Home!trackSend, NewReceipt
  <2>2. /\ n \in Receipts /\ n.session = selected /\ n.sentAt = now /\ n.state = "sending"
    BY <1>1 DEF NewReceipt, Receipts, DaemonInv
  <2>3. receipts \in Seq(Receipts) /\ now \in Nat
    BY DEF TicksInv, ReceiptsOK, DaemonInv
  <2> HIDE DEF n, b
  <2>4. /\ all \in Seq(Receipts) /\ all[Len(receipts) + 1] = n /\ Len(receipts) \in Nat
        /\ \A i \in 1 .. Len(receipts) : all[i] = receipts[i]
        /\ DOMAIN all = 1 .. Len(receipts) + 1 /\ DOMAIN receipts = 1 .. Len(receipts)
    BY <2>2, <2>3
  <2> HIDE DEF all
  <2>5. \A k \in Nat : \A i \in 1 .. k + 1 : i \in 1 .. k \/ i = k + 1
    OBVIOUS
  <2>6. Waits(posts'[b]) /\ For(posts'[b], n) /\ ~Settled(n, posts')
    BY <1>1, <1>2, <1>4, <2>2 DEF Waits, For, Sends, Settled
  <2>7. ASSUME NEW r \in Receipts, r.sentAt < now, Covered(r, posts, turns), Gone(r, posts)
        PROVE  /\ Settled(r, posts') => Settled(r, posts)
               /\ Covered(r, posts', turns') /\ Gone(r, posts')
    <3>1. r.sentAt # now
      BY <2>3, <2>7 DEF Receipts
    <3>2. Settled(r, posts') => Settled(r, posts)
      BY <1>2 DEF Settled, Waits
    <3>3. Gone(r, posts')
      BY <1>2, <2>7, <3>1 DEF Gone
    <3> QED
      BY <1>1, <2>7, <3>2, <3>3 DEF Covered
  <2>8. ASSUME NEW i \in DOMAIN all
        PROVE  all[i].sentAt < now' /\ Covered(all[i], posts', turns') /\ Gone(all[i], posts')
    <3>1. CASE i = Len(receipts) + 1
      BY <1>1, <2>2, <2>3, <2>4, <2>6, <3>1 DEF Covered, Gone
    <3>2. CASE i \in 1 .. Len(receipts)
      <4>1. /\ all[i] = receipts[i] /\ receipts[i] \in Receipts /\ receipts[i].sentAt < now
            /\ Covered(receipts[i], posts, turns) /\ Gone(receipts[i], posts)
        BY <2>3, <2>4, <3>2 DEF TicksInv, ReceiptsOK
      <4>2. receipts[i].sentAt < now'
        BY <1>1, <2>3, <4>1 DEF Receipts
      <4> QED
        BY <2>7, <4>1, <4>2
    <3> QED
      BY <2>4, <2>5, <3>1, <3>2
  <2>9. ASSUME NEW i \in DOMAIN all, NEW j \in DOMAIN all, i < j
        PROVE  all[i].sentAt < all[j].sentAt /\ Apart(all[i], all[j], posts', turns')
    <3>1. i \in 1 .. Len(receipts)
      BY <2>4, <2>9
    <3>2. /\ all[i] = receipts[i] /\ receipts[i] \in Receipts /\ receipts[i].sentAt < now
          /\ Covered(receipts[i], posts, turns) /\ Gone(receipts[i], posts)
      BY <2>3, <2>4, <3>1 DEF TicksInv, ReceiptsOK
    <3>3. CASE j = Len(receipts) + 1
      BY <2>2, <2>4, <2>6, <3>2, <3>3 DEF Apart
    <3>4. CASE j \in 1 .. Len(receipts)
      <4>1. /\ all[j] = receipts[j] /\ receipts[j] \in Receipts /\ receipts[j].sentAt < now
            /\ Covered(receipts[j], posts, turns) /\ Gone(receipts[j], posts)
            /\ receipts[i].sentAt < receipts[j].sentAt
            /\ Apart(receipts[i], receipts[j], posts, turns)
        BY <2>3, <2>4, <2>9, <3>1, <3>4 DEF TicksInv, ReceiptsOK
      <4> QED
        BY <1>1, <2>7, <3>2, <4>1 DEF Apart
    <3> QED
      BY <2>4, <2>5, <3>3, <3>4
  <2>10. ReceiptsOK(all, now', posts', turns')
    BY <2>4, <2>8, <2>9 DEF ReceiptsOK
  <2> QED
    BY <2>1, <2>10, KeptOK DEF TicksInv
<1> QED
  BY <1>3, <1>4

LEMMA TicksTake ==
  ASSUME DaemonInv, DaemonInv', Grows, PostsInv, WaitsInv, TicksInv,
         NEW b \in Home!Buttons, Home!Take(b)
  PROVE  TicksInv'
<1>1. PICK p \in Posts :
        /\ posts' = [posts EXCEPT ![b] = p] /\ p.op = posts[b].op
        /\ p.session = posts[b].session /\ p.sentAt = posts[b].sentAt
        /\ \/ p.result = "refused" /\ turns' = turns
           \/ p.result = "ok" /\ turns' = turns /\ ~Sends(p)
           \/ /\ p.result = "ok" /\ Sends(p) /\ ~Closed(p.session)
              /\ turns' = [turns EXCEPT ![p.session] = Append(turns[p.session], now)]
              /\ p.op = "steer" => ~Parked(p.session)
              /\ p.op = "reply" => Closed(p.session)'
  BY TakeIs
<1>2. posts[b] \in BusyPosts /\ posts[b].result = Home!None /\ receipts' = receipts
  BY TakeIs
<1>3. posts'[b] = p /\ \A c \in Home!Buttons \ {b} : posts'[c] = posts[c]
  BY <1>1 DEF PostsInv
<1>4. CASE turns' = turns /\ (p.result = "refused" \/ ~Sends(p))
  <2>1. Sends(posts'[b]) => Sends(posts[b])
    BY <1>1, <1>3 DEF Sends
  <2>2. Waits(posts[b]) => Waits(posts'[b])
    BY <1>1, <1>3, <1>4 DEF Waits, Sends
  <2> QED
    BY <1>1, <1>2, <1>3, <2>1, <2>2, TicksRest
<1>5. CASE ~(turns' = turns /\ (p.result = "refused" \/ ~Sends(p)))
  <2>1. /\ p.result = "ok" /\ Sends(p) /\ ~Closed(p.session)
        /\ turns' = [turns EXCEPT ![p.session] = Append(turns[p.session], now)]
    BY <1>1, <1>5
  <2> DEFINE s == p.session
  <2>2. /\ Sends(posts[b]) /\ Waits(posts[b]) /\ s \in Session /\ p.sentAt < now /\ p.sentAt \in Nat
    BY <1>1, <1>2, <2>1, SendsBy DEF Sends, Waits, PostsInv, BusyPosts, Home!None
  <2>3. \A m \in DOMAIN turns[s] : ~(turns[s][m] >= p.sentAt)
    BY <1>1, <2>1, <2>2 DEF WaitsInv, WaitOK
  <2>4. /\ turns[s] \in Seq(Nat) /\ turns'[s] = Append(turns[s], now)
        /\ \A x \in Session \ {s} : turns'[x] = turns[x]
    BY <2>1, <2>2 DEF DaemonInv
  <2>5. /\ Len(turns[s]) + 1 \in DOMAIN turns'[s] /\ turns'[s][Len(turns[s]) + 1] = now
        /\ \A m \in DOMAIN turns[s] : m \in DOMAIN turns'[s] /\ turns'[s][m] = turns[s][m]
        /\ \A m \in DOMAIN turns[s] : turns[s][m] \in Nat
    <3> DEFINE times == turns[s]
    <3>1. times \in Seq(Nat) /\ now \in Nat
      BY <2>4 DEF DaemonInv
    <3> HIDE DEF times
    <3>2. /\ Len(times) + 1 \in DOMAIN Append(times, now) /\ Append(times, now)[Len(times) + 1] = now
          /\ \A m \in DOMAIN times : m \in DOMAIN Append(times, now) /\ Append(times, now)[m] = times[m]
          /\ \A m \in DOMAIN times : times[m] \in Nat
      BY <3>1
    <3> QED
      BY <2>4, <3>2 DEF times
  <2> HIDE DEF s
  <2>6. ASSUME NEW r \in Receipts, Settled(r, posts'), ~Settled(r, posts) PROVE For(p, r)
    <3>1. PICK c \in Home!Buttons : Waits(posts[c]) /\ For(posts[c], r)
      BY <2>6 DEF Settled
    <3>2. CASE c = b
      BY <1>1, <2>1, <3>1, <3>2 DEF For
    <3>3. CASE c # b
      BY <1>3, <2>6, <3>1, <3>3 DEF Settled
    <3> QED
      BY <3>2, <3>3
  <2>7. ASSUME NEW r \in Receipts, Covered(r, posts, turns), Gone(r, posts)
        PROVE  Covered(r, posts', turns') /\ Gone(r, posts')
    <3>1. Gone(r, posts')
      BY <1>1, <1>3, <2>1, <2>2, <2>7 DEF Gone
    <3>2. ASSUME r.state # "failed", Settled(r, posts')
          PROVE  \E m \in DOMAIN turns'[r.session] : turns'[r.session][m] >= r.sentAt
      <4>1. CASE Settled(r, posts)
        <5>1. PICK m \in DOMAIN turns[r.session] : turns[r.session][m] >= r.sentAt
          BY <2>7, <3>2, <4>1 DEF Covered
        <5>2. r.session \in Session
          BY DEF Receipts
        <5> QED
          BY <2>4, <2>5, <5>1, <5>2
      <4>2. CASE ~Settled(r, posts)
        <5>1. r.session = s /\ r.sentAt = p.sentAt
          BY <2>6, <3>2, <4>2 DEF For, s
        <5> QED
          BY <2>2, <2>5, <5>1 DEF DaemonInv
      <4> QED
        BY <4>1, <4>2
    <3> QED
      BY <3>1, <3>2 DEF Covered
  <2>8. ASSUME NEW r \in Receipts, NEW q \in Receipts, r.sentAt < q.sentAt,
               Apart(r, q, posts, turns), Covered(r, posts, turns), Covered(q, posts, turns)
        PROVE  Apart(r, q, posts', turns')
    <3> SUFFICES ASSUME r.session = q.session, r.state # "failed", q.state # "failed",
                        Settled(r, posts'), Settled(q, posts')
                 PROVE  Between(r, q, turns')
      BY DEF Apart
    <3>1. r.session \in Session /\ r.sentAt \in Nat /\ q.sentAt \in Nat
      BY DEF Receipts
    <3>2. CASE Settled(r, posts) /\ Settled(q, posts)
      <4>1. PICK m \in DOMAIN turns[r.session] :
              turns[r.session][m] >= r.sentAt /\ turns[r.session][m] < q.sentAt
        BY <2>8, <3>2 DEF Apart, Between
      <4> QED
        BY <2>4, <2>5, <3>1, <4>1 DEF Between
    <3>3. CASE ~Settled(r, posts)
      <4>1. r.session = s /\ r.sentAt = p.sentAt
        BY <2>6, <3>3 DEF For, s
      <4>2. Settled(q, posts)
        <5> SUFFICES ASSUME ~Settled(q, posts) PROVE FALSE
          OBVIOUS
        <5>1. q.sentAt = p.sentAt
          BY <2>6 DEF For
        <5> QED
          BY <2>8, <3>1, <4>1, <5>1
      <4>3. PICK m \in DOMAIN turns[s] : turns[s][m] >= q.sentAt
        BY <2>8, <4>1, <4>2 DEF Covered
      <4>4. turns[s][m] \in Nat /\ turns[s][m] >= p.sentAt
        BY <2>2, <2>5, <2>8, <3>1, <4>1, <4>3
      <4> QED
        BY <2>3, <4>4
    <3>4. CASE Settled(r, posts) /\ ~Settled(q, posts)
      <4>1. q.session = s /\ q.sentAt = p.sentAt
        BY <2>6, <3>4 DEF For, s
      <4>2. PICK m \in DOMAIN turns[s] : turns[s][m] >= r.sentAt
        BY <2>8, <3>4, <4>1 DEF Covered
      <4>3. turns[s][m] < q.sentAt
        BY <2>2, <2>3, <2>5, <4>1
      <4> QED
        BY <2>5, <4>1, <4>2, <4>3 DEF Between
    <3> QED
      BY <3>2, <3>3, <3>4
  <2>9. receipts \in Seq(Receipts) /\ \A i \in DOMAIN receipts : receipts[i] \in Receipts
    BY DEF TicksInv, ReceiptsOK
  <2>10. ASSUME NEW i \in DOMAIN receipts
         PROVE  /\ receipts[i].sentAt < now' /\ Covered(receipts[i], posts', turns')
                /\ Gone(receipts[i], posts')
    <3>1. /\ receipts[i].sentAt < now /\ receipts[i].sentAt \in Nat
          /\ Covered(receipts[i], posts, turns) /\ Gone(receipts[i], posts)
      BY <2>9 DEF TicksInv, ReceiptsOK, Receipts
    <3> QED
      BY <2>7, <2>9, <3>1 DEF DaemonInv, Grows
  <2>11. ASSUME NEW i \in DOMAIN receipts, NEW j \in DOMAIN receipts, i < j
         PROVE  /\ receipts[i].sentAt < receipts[j].sentAt
                /\ Apart(receipts[i], receipts[j], posts', turns')
    BY <2>8, <2>9, <2>11 DEF TicksInv, ReceiptsOK
  <2>12. ReceiptsOK(receipts, now', posts', turns')
    BY <2>9, <2>10, <2>11 DEF ReceiptsOK
  <2> QED
    BY <1>2, <2>12 DEF TicksInv
<1> QED
  BY <1>4, <1>5

-----------------------------------------------------------------------------
(* HomePage: every step.                                                   *)

HomeInv == DaemonInv /\ StreamInv /\ ListInv /\ PostsInv /\ WaitsInv /\ TicksInv

LEMMA HomeStarts == ASSUME Home!Init PROVE HomeInv
  BY DaemonStarts, StreamStarts, ListStarts, PostsStart, WaitsStart, TicksStart DEF HomeInv

\* Steps that leave the sends alone.
LEMMA SendsRest ==
  ASSUME HomeInv, DaemonInv', Grows, turns' = turns, UNCHANGED <<posts, receipts>>,
         \A a \in answers' : a.kind \in Home!Buttons => a \in answers
  PROVE  PostsInv' /\ WaitsInv' /\ TicksInv'
  BY PostsRest, WaitsKept, TicksRest DEF HomeInv

LEMMA MoveHolds ==
  ASSUME HomeInv, NEW s \in Session, NEW to \in Home!Terminal \cup {"running", "awaiting_input"},
         Home!Move(s, to)
  PROVE  HomeInv' /\ Forward
<1>1. UNCHANGED <<turns, rows, answers, posts, receipts>>
  BY DEF Home!Move, Home!list
<1>2. DaemonInv' /\ Grows
  BY DaemonMoves DEF HomeInv
<1>3. StreamInv' /\ ListInv'
  BY <1>1, <1>2, StreamMoves, ListRests DEF HomeInv
<1> QED
  BY <1>1, <1>2, <1>3, SendsRest, ForwardRests DEF HomeInv

LEMMA AskHolds ==
  ASSUME HomeInv, Home!Load \/ Home!Hydrate PROVE HomeInv' /\ Forward
<1>1. /\ UNCHANGED <<now, status, turns, answered, wire, buffer, processed, rows, posts, receipts>>
      /\ \E kind \in {"load", "one"} : \E content : answers' = answers \cup {Answer(kind, content)}
  BY DEF Home!Load, Home!Hydrate, Home!Ask, Answer, Home!daemon, Home!list
<1>2. DaemonInv' /\ Grows
  BY <1>1, DaemonRests DEF HomeInv
<1>3. StreamInv'
  BY <1>1, <1>2, ToldStays, SeqGrows DEF HomeInv, StreamInv
<1>4. ListInv'
  BY ListAsks DEF HomeInv
<1>5. \A a \in answers' : a.kind \in Home!Buttons => a \in answers
  BY <1>1, AnswerIs DEF Home!Buttons
<1> QED
  BY <1>1, <1>2, <1>3, <1>4, <1>5, SendsRest, ForwardRests DEF HomeInv

LEMMA LandHolds == ASSUME HomeInv, NEW a \in answers, Home!Land(a) PROVE HomeInv' /\ Forward
<1>1. /\ UNCHANGED <<now, status, turns, answered, wire, buffer, processed>>
      /\ answers' = answers \ {a}
  BY DEF Home!Land, Home!daemon
<1>2. DaemonInv' /\ Grows
  BY <1>1, DaemonRests DEF HomeInv
<1>3. StreamInv'
  BY <1>1, <1>2, ToldStays, SeqGrows DEF HomeInv, StreamInv
<1>4. ListInv' /\ Forward
  BY <1>1, ListLands, ForwardLands DEF HomeInv
<1>5. PostsInv' /\ TicksInv'
  BY <1>2, PostsLand, TicksLand DEF HomeInv
<1>6. \A b \in Home!Buttons : Waits(posts'[b]) => posts'[b] = posts[b]
  BY LandIs, FreeIs DEF HomeInv, PostsInv, Waits
<1>7. WaitsInv'
  BY <1>1, <1>2, <1>6, WaitsKept DEF HomeInv
<1> QED
  BY <1>2, <1>3, <1>4, <1>5, <1>7 DEF HomeInv

LEMMA HearHolds == ASSUME HomeInv, Home!Hear PROVE HomeInv' /\ Forward
<1>1. UNCHANGED <<now, status, turns, answered, answers, posts, receipts>>
  BY DEF Home!Hear, Home!daemon
<1>2. DaemonInv' /\ Grows
  BY <1>1, DaemonRests DEF HomeInv
<1>3. MaxBuffered \in Nat
  BY InputsAreKnown DEF Home!BoundsArePositive
<1>4. StreamInv' /\ ListInv' /\ Forward
  BY <1>3, StreamHears, ListHears, ForwardHears DEF HomeInv
<1> QED
  BY <1>1, <1>2, <1>4, SendsRest DEF HomeInv

\* The stream breaks or comes back, the user moves, or nothing happens.
LEMMA QuietHolds ==
  ASSUME HomeInv,
         \/ Home!Drop \/ Home!Reconnect \/ Home!Close \/ Home!Restore
         \/ \E s \in Session : Home!Select(s)
         \/ UNCHANGED Home!vars
  PROVE  HomeInv' /\ Forward
<1>1. /\ UNCHANGED <<now, status, turns, answered, buffer, processed, rows, answers, posts, receipts>>
      /\ wire' \in {wire, <<>>}
  BY DEF Home!Drop, Home!Reconnect, Home!Close, Home!Restore, Home!Select, Home!vars,
     Home!daemon, Home!list
<1>2. DaemonInv' /\ Grows
  BY <1>1, DaemonRests DEF HomeInv
<1>3. StreamInv'
  <2>1. wire \in Seq(Told') /\ buffer \in Seq(Told') /\ <<>> \in Seq(Told')
    BY <1>2, ToldStays, SeqGrows DEF HomeInv, StreamInv
  <2> QED
    BY <1>1, <2>1 DEF HomeInv, StreamInv
<1>4. ListInv'
  BY <1>1, <1>2, ListRests DEF HomeInv
<1> QED
  BY <1>1, <1>2, <1>3, <1>4, SendsRest, ForwardRests DEF HomeInv

LEMMA SendHolds == ASSUME HomeInv, NEW op \in Ops, Home!Send(op) PROVE HomeInv' /\ Forward
<1>1. UNCHANGED <<status, turns, answered, wire, buffer, processed, rows, answers>> /\ now' = now + 1
  BY DEF Home!Send, Home!Tick, Home!daemon, Home!list
<1>2. DaemonInv' /\ Grows
  BY <1>1, DaemonRests DEF HomeInv
<1>3. StreamInv'
  BY <1>1, <1>2, ToldStays, SeqGrows DEF HomeInv, StreamInv
<1>4. ListInv'
  BY <1>1, <1>2, ListRests DEF HomeInv
<1>5. MaxReceipts \in Nat
  BY InputsAreKnown DEF Home!BoundsArePositive
<1>6. PostsInv' /\ WaitsInv' /\ TicksInv'
  BY <1>2, <1>5, PostsSend, WaitsSend, TicksSend DEF HomeInv
<1> QED
  BY <1>1, <1>2, <1>3, <1>4, <1>6, ForwardRests DEF HomeInv

LEMMA TakeHolds ==
  ASSUME HomeInv, NEW b \in Home!Buttons, Home!Take(b) PROVE HomeInv' /\ Forward
<1>1. UNCHANGED <<rows, answers>>
  BY DEF Home!Take, Home!list
<1>2. posts[b].op # Home!None => posts[b].session \in Session
  BY PostOf DEF HomeInv
<1>3. DaemonInv' /\ Grows
  BY <1>2, DaemonTakes DEF HomeInv
<1>4. StreamInv' /\ ListInv'
  BY <1>1, <1>2, <1>3, StreamTakes, ListRests DEF HomeInv
<1>5. PostsInv' /\ WaitsInv' /\ TicksInv'
  BY <1>3, PostsTake, WaitsTake, TicksTake DEF HomeInv
<1> QED
  BY <1>1, <1>3, <1>4, <1>5, ForwardRests DEF HomeInv

LEMMA AcceptedHolds ==
  ASSUME HomeInv, NEW b \in Home!Buttons, Home!Accepted(b) PROVE HomeInv' /\ Forward
<1>1. UNCHANGED <<now, status, turns, answered, wire, buffer, processed, rows>>
  BY DEF Home!Accepted, Home!daemon, Home!list
<1>2. DaemonInv' /\ Grows
  BY <1>1, DaemonRests DEF HomeInv
<1>3. StreamInv'
  BY <1>1, <1>2, ToldStays, SeqGrows DEF HomeInv, StreamInv
<1>4. ListInv' /\ PostsInv' /\ TicksInv'
  BY <1>2, ListAsks, PostsAccepted, TicksAccepted DEF HomeInv
<1>5. \A c \in Home!Buttons : Waits(posts'[c]) => posts'[c] = posts[c]
  BY AcceptedIs DEF HomeInv, PostsInv, Waits
<1>6. WaitsInv'
  BY <1>1, <1>2, <1>5, WaitsKept DEF HomeInv
<1> QED
  BY <1>1, <1>2, <1>3, <1>4, <1>6, ForwardRests DEF HomeInv

LEMMA FailedHolds ==
  ASSUME HomeInv, NEW b \in Home!Buttons, Home!Failed(b) PROVE HomeInv' /\ Forward
<1>1. UNCHANGED <<now, status, turns, answered, wire, buffer, processed, rows, answers>>
  BY DEF Home!Failed, Home!daemon, Home!list
<1>2. DaemonInv' /\ Grows
  BY <1>1, DaemonRests DEF HomeInv
<1>3. StreamInv'
  BY <1>1, <1>2, ToldStays, SeqGrows DEF HomeInv, StreamInv
<1>4. ListInv'
  BY <1>1, <1>2, ListRests DEF HomeInv
<1>5. /\ posts' = [posts EXCEPT ![b] = FreePost] /\ \A a \in answers : a.kind # b
  BY FailedIs DEF HomeInv
<1>6. PostsInv' /\ TicksInv'
  BY <1>1, <1>2, <1>5, PostsFree, TicksFailed DEF HomeInv
<1>7. \A c \in Home!Buttons : Waits(posts'[c]) => posts'[c] = posts[c]
  BY <1>5, FreeIs DEF HomeInv, PostsInv, Waits
<1>8. WaitsInv'
  BY <1>1, <1>2, <1>7, WaitsKept DEF HomeInv
<1> QED
  BY <1>1, <1>2, <1>3, <1>4, <1>6, <1>8, ForwardRests DEF HomeInv

LEMMA HomeHolds == ASSUME HomeInv, [Home!Next]_(Home!vars) PROVE HomeInv' /\ Forward
<1>1. CASE Home!Next
  <2>1. CASE \E s \in Session : \E to \in Home!Terminal \cup {"running", "awaiting_input"} :
               Home!Move(s, to)
    BY <2>1, MoveHolds
  <2>2. CASE Home!Load \/ Home!Hydrate
    BY <2>2, AskHolds
  <2>3. CASE \E a \in answers : Home!Land(a)
    BY <2>3, LandHolds
  <2>4. CASE Home!Hear
    BY <2>4, HearHolds
  <2>5. CASE \/ Home!Drop \/ Home!Reconnect \/ Home!Close \/ Home!Restore
             \/ \E s \in Session : Home!Select(s)
    BY <2>5, QuietHolds
  <2>6. CASE \E op \in Ops : Home!Send(op)
    BY <2>6, SendHolds
  <2>7. CASE \E b \in Home!Buttons : Home!Take(b) \/ Home!Accepted(b) \/ Home!Failed(b)
    BY <2>7, TakeHolds, AcceptedHolds, FailedHolds
  <2> QED
    BY <1>1, <2>1, <2>2, <2>3, <2>4, <2>5, <2>6, <2>7 DEF Home!Next, Ops
<1>2. CASE UNCHANGED Home!vars
  BY <1>2, QuietHolds
<1> QED
  BY <1>1, <1>2

\* However frames, answers of any age and the user's own moves interleave: only
\* a list that lands takes a row of a session back.
THEOREM OnlyListsGoBack == Spec => RowsMoveForward
<1>1. Init => HomeInv
  BY StartsEachPart, HomeStarts
<1>2. HomeInv /\ [Next]_vars => HomeInv' /\ Forward
  BY MovesOnePart, HomeHolds
<1>3. Forward => (Home!Cardinality(answers') >= Home!Cardinality(answers) =>
                    \A s \in DOMAIN rows \cap DOMAIN rows' :
                      Home!Progress(rows'[s].status) >= Home!Progress(rows[s].status))
  BY DEF Forward
<1> QED
  BY <1>1, <1>2, <1>3, PTL DEF Spec, RowsMoveForward, Home!RowsMoveForward

-----------------------------------------------------------------------------
(* Induction over the naturals, from counting: a set of numbers that holds *)
(* everything below each of its members is 1 .. its size.                  *)

LEMMA DownwardClosed ==
  ASSUME NEW n \in Nat, NEW D \in SUBSET (1 .. n), \A i \in D : 1 .. i \subseteq D
  PROVE  D = 1 .. Cardinality(D) /\ Cardinality(D) \in 0 .. n /\ IsFiniteSet(D)
<1> DEFINE k == Cardinality(D)
<1>1. IsFiniteSet(1 .. n) /\ Cardinality(1 .. n) = n
  BY FS_Interval
<1>2. IsFiniteSet(D) /\ k \in Nat /\ k <= n
  <2>1. IsFiniteSet(D) /\ Cardinality(D) <= n
    BY <1>1, FS_Subset
  <2>2. Cardinality(D) \in Nat
    BY <2>1, FS_CardinalityType
  <2> QED
    BY <2>1, <2>2
<1>3. ASSUME NEW i \in D PROVE i <= k
  <2>1. Cardinality(1 .. i) = i
    BY FS_Interval
  <2>2. Cardinality(1 .. i) <= k
    BY <1>2, FS_Subset
  <2> QED
    BY <1>2, <2>1, <2>2
<1>4. D \subseteq 1 .. k
  BY <1>2, <1>3
<1>5. IsFiniteSet(1 .. k) /\ Cardinality(1 .. k) = k
  BY <1>2, FS_Interval
<1>6. D = 1 .. k
  BY <1>4, <1>5, FS_Subset
<1> QED
  BY <1>2, <1>6

LEMMA LeastNumber ==
  ASSUME NEW T \in SUBSET Nat, T # {}
  PROVE  \E m \in T : \A n \in T : m <= n
<1>1. PICK t \in T : TRUE
  OBVIOUS
<1> DEFINE D == {i \in 1 .. t : \A j \in 0 .. i - 1 : j \notin T}
           k == Cardinality(D)
<1>2. D \in SUBSET (1 .. t) /\ \A i \in D : 1 .. i \subseteq D
  OBVIOUS
<1>3. \A i : i \in D <=> i \in 1 .. t /\ \A j \in 0 .. i - 1 : j \notin T
  OBVIOUS
<1> HIDE DEF D
<1>4. D = 1 .. k /\ k \in 0 .. t
  BY <1>2, DownwardClosed
<1> HIDE DEF k
<1>5. \A j \in 0 .. k - 1 : j \notin T
  <2>1. k = 0 \/ k \in D
    BY <1>4
  <2> QED
    BY <1>3, <2>1
<1>6. k \in T
  <2>1. CASE k = t
    BY <2>1
  <2>2. CASE k # t
    <3>1. k + 1 \in 1 .. t /\ k + 1 \notin D
      BY <1>4, <2>2
    <3>2. PICK j \in 0 .. (k + 1) - 1 : j \in T
      BY <1>3, <3>1
    <3> QED
      BY <1>4, <1>5, <3>2
  <2> QED
    BY <2>1, <2>2
<1>7. \A n \in T : k <= n
  BY <1>4, <1>5
<1> QED
  BY <1>6, <1>7

LEMMA Induction ==
  ASSUME NEW P, 0 \in P, \A n \in Nat : n \in P => n + 1 \in P
  PROVE  Nat \subseteq P
<1> SUFFICES ASSUME Nat \ P # {} PROVE FALSE
  OBVIOUS
<1>1. PICK m \in Nat \ P : \A n \in Nat \ P : m <= n
  BY LeastNumber
<1>2. m # 0 /\ m - 1 \in Nat
  BY <1>1
<1>3. m - 1 \in P
  BY <1>1, <1>2
<1> QED
  BY <1>1, <1>2, <1>3

-----------------------------------------------------------------------------
(* HomePage: which receipt a turn takes.                                   *)

Takes(taken, shown, k) ==
  LET own == Home!Matches({taken[j] : j \in 1 .. (k - 1)}, shown[k])
  IN IF own = {} THEN 0 ELSE Home!Min(own)

LEMMA TakesAlike ==
  ASSUME NEW f, NEW g, NEW shown, NEW k \in Nat, \A j \in 1 .. k - 1 : f[j] = g[j]
  PROVE  Takes(f, shown, k) = Takes(g, shown, k)
<1>1. {f[j] : j \in 1 .. (k - 1)} = {g[j] : j \in 1 .. (k - 1)}
  OBVIOUS
<1> QED
  BY <1>1 DEF Takes

TakesUpTo(f, shown, n) == f = [k \in 1 .. n |-> Takes(f, shown, k)]

LEMMA TakenExists == ASSUME NEW shown PROVE \A n \in Nat : \E f : TakesUpTo(f, shown, n)
<1> DEFINE P == {n \in Nat : \E f : TakesUpTo(f, shown, n)}
<1>1. 0 \in P
  <2> DEFINE f == [k \in 1 .. 0 |-> 0]
  <2>1. TakesUpTo(f, shown, 0)
    BY DEF TakesUpTo
  <2> QED
    BY <2>1
<1>2. ASSUME NEW n \in Nat, n \in P PROVE n + 1 \in P
  <2>1. PICK f : TakesUpTo(f, shown, n)
    BY <1>2
  <2> DEFINE g == [k \in 1 .. n + 1 |-> IF k = n + 1 THEN Takes(f, shown, n + 1) ELSE f[k]]
  <2>2. \A k \in 1 .. n : g[k] = f[k] /\ f[k] = Takes(f, shown, k)
    BY <2>1 DEF TakesUpTo
  <2>3. ASSUME NEW k \in 1 .. n + 1 PROVE g[k] = Takes(f, shown, k)
    <3>1. CASE k = n + 1
      BY <3>1
    <3>2. CASE k # n + 1
      <4>1. k \in 1 .. n
        BY <3>2
      <4> QED
        BY <2>2, <4>1
    <3> QED
      BY <3>1, <3>2
  <2>4. g = [k \in 1 .. n + 1 |-> g[k]]
    OBVIOUS
  <2> HIDE DEF g
  <2>5. ASSUME NEW k \in 1 .. n + 1 PROVE g[k] = Takes(g, shown, k)
    <3>1. \A j \in 1 .. k - 1 : f[j] = g[j]
      BY <2>2
    <3>2. Takes(f, shown, k) = Takes(g, shown, k)
      BY <3>1, TakesAlike
    <3> QED
      BY <2>3, <3>2
  <2>6. TakesUpTo(g, shown, n + 1)
    BY <2>4, <2>5 DEF TakesUpTo
  <2> QED
    BY <2>6
<1> HIDE DEF P
<1>3. Nat \subseteq P
  BY <1>1, <1>2, Induction
<1> QED
  BY <1>3 DEF P

LEMMA TakenIs ==
  ASSUME NEW shown \in Seq(Nat)
  PROVE  \A k \in DOMAIN shown : Home!Taken(shown)[k] = Takes(Home!Taken(shown), shown, k)
<1> DEFINE taken == CHOOSE f : f = [k \in DOMAIN shown |-> Takes(f, shown, k)]
<1>1. \E f : f = [k \in DOMAIN shown |-> Takes(f, shown, k)]
  <2>1. DOMAIN shown = 1 .. Len(shown) /\ Len(shown) \in Nat
    OBVIOUS
  <2>2. PICK f : TakesUpTo(f, shown, Len(shown))
    BY <2>1, TakenExists
  <2> QED
    BY <2>1, <2>2 DEF TakesUpTo
<1>2. taken = [k \in DOMAIN shown |-> Takes(taken, shown, k)]
  BY <1>1
<1>3. Home!Taken(shown) = taken
  BY DEF Home!Taken, Takes
<1> HIDE DEF taken
<1> QED
  BY <1>2, <1>3

\* A turn takes a receipt that matches it, if there is one.
LEMMA TakesOne ==
  ASSUME TicksInv, NEW taken, NEW shown, NEW k \in Nat
  PROVE  LET used == {taken[j] : j \in 1 .. (k - 1)}
             x == Takes(taken, shown, k)
         IN IF Home!Matches(used, shown[k]) = {} THEN x = 0
            ELSE x \in Home!Matches(used, shown[k]) /\ x # 0
<1> DEFINE used == {taken[j] : j \in 1 .. (k - 1)}
           own == Home!Matches(used, shown[k])
<1>1. own \subseteq Nat \ {0}
  BY DEF Home!Matches, TicksInv, ReceiptsOK
<1>2. CASE own = {}
  BY <1>2 DEF Takes
<1>3. CASE own # {}
  <2>1. Takes(taken, shown, k) = Home!Min(own)
    BY <1>3 DEF Takes
  <2> HIDE DEF own
  <2>2. \E m \in own : \A n \in own : m <= n
    BY <1>1, <1>3, LeastNumber
  <2>3. Home!Min(own) \in own
    BY <2>2 DEF Home!Min
  <2> QED
    BY <1>1, <1>3, <2>1, <2>3 DEF own
<1> QED
  BY <1>2, <1>3

-----------------------------------------------------------------------------
(* HomePage: the ticks.                                                    *)

\* The turns shown of the session selected are the first of the daemon's.
LEMMA ShownTurns ==
  ASSUME DaemonInv, ListInv, selected \in DOMAIN rows
  PROVE  /\ selected \in Session /\ rows[selected].turns \in Seq(Nat)
         /\ turns[selected] \in Seq(Nat) /\ Increasing(turns[selected])
         /\ IsStartOf(rows[selected].turns, turns[selected])
<1>1. selected \in Session /\ rows[selected] \in RowsOf(selected)
  BY DEF ListInv, TrueList
<1> QED
  BY <1>1 DEF RowsOf, DaemonInv

\* A receipt older than a turn that is not the last is settled.
LEMMA OldIsSettled ==
  ASSUME WaitsInv, NEW r, NEW m \in DOMAIN turns[r.session],
         turns[r.session][m] >= r.sentAt, m # Len(turns[r.session])
  PROVE  Settled(r, posts)
  BY DEF Settled, For, WaitsInv, WaitOK

\* The first N of the M turns of a session are shown, each has taken what it
\* takes, and no receipt older than a turn but the last failed or is awaited.
Showing(s, N, M, shown, times, taken) ==
  /\ s = selected /\ N \in Nat /\ M \in Nat /\ N <= M
  /\ shown \in [1 .. N -> Nat] /\ times \in [1 .. M -> Nat] /\ times = turns[s]
  /\ Increasing(times) /\ \A m \in 1 .. N : shown[m] = times[m]
  /\ \A m \in 1 .. N : taken[m] = Takes(taken, shown, m)
  /\ \A i \in DOMAIN receipts : receipts[i].session = s => receipts[i].state # "failed"
  /\ \A i \in DOMAIN receipts : \A m \in 1 .. M - 1 :
       receipts[i].session = s /\ times[m] >= receipts[i].sentAt => Settled(receipts[i], posts)

\* Then the turns before any of those shown take every receipt older than them.
LEMMA OldAreTaken ==
  ASSUME TicksInv, NEW s, NEW N, NEW M, NEW shown, NEW times, NEW taken,
         Showing(s, N, M, shown, times, taken), NEW k \in 1 .. N
  PROVE  \A m \in 1 .. k - 1 : \A i \in DOMAIN receipts :
           receipts[i].session = s /\ receipts[i].sentAt <= shown[m] =>
             \E l \in 1 .. m : taken[l] = i
<1> SUFFICES
      ASSUME s = selected, N \in Nat, M \in Nat, N <= M,
             shown \in [1 .. N -> Nat], times \in [1 .. M -> Nat], times = turns[s],
             Increasing(times), \A m \in 1 .. N : shown[m] = times[m],
             \A m \in 1 .. N : taken[m] = Takes(taken, shown, m),
             \A i \in DOMAIN receipts :
               receipts[i].session = s => receipts[i].state # "failed",
             \A i \in DOMAIN receipts : \A m \in 1 .. M - 1 :
               receipts[i].session = s /\ times[m] >= receipts[i].sentAt =>
                 Settled(receipts[i], posts)
      PROVE  \A m \in 1 .. k - 1 : \A i \in DOMAIN receipts :
               receipts[i].session = s /\ receipts[i].sentAt <= shown[m] =>
                 \E l \in 1 .. m : taken[l] = i
  BY DEF Showing
<1> DEFINE Old(i, m) == receipts[i].session = s /\ receipts[i].sentAt <= shown[m]
           P == {m \in Nat : m >= 1 /\ m < k =>
                   \A i \in DOMAIN receipts : Old(i, m) => \E l \in 1 .. m : taken[l] = i}
<1>1. receipts \in Seq(Receipts) /\ \A i \in DOMAIN receipts : receipts[i] \in Receipts /\ i \in Nat
  BY DEF TicksInv, ReceiptsOK
<1>2. 0 \in P
  OBVIOUS
<1>3. ASSUME NEW n \in Nat, n \in P PROVE n + 1 \in P
  <2>1. PICK m \in Nat : m = n + 1
    OBVIOUS
  <2> DEFINE used == {taken[l] : l \in 1 .. (m - 1)}
  <2> SUFFICES ASSUME m < k, NEW i \in DOMAIN receipts, Old(i, m), ~\E l \in 1 .. m : taken[l] = i
               PROVE  FALSE
    BY <2>1
  <2>2. m \in 1 .. N /\ m \in 1 .. M - 1 /\ m \in DOMAIN times
    BY <2>1
  <2>3. i \in Home!Matches(used, shown[m])
    <3>1. i \notin used
      OBVIOUS
    <3> QED
      BY <3>1 DEF Home!Matches
  <2> DEFINE x == taken[m]
  <2>4. x \in Home!Matches(used, shown[m])
    BY <2>2, <2>3, TakesOne
  <2>5. x \in DOMAIN receipts /\ Old(x, m) /\ x \notin used /\ x # i
    <3>1. x # i
      BY <2>2
    <3> QED
      BY <2>4, <3>1 DEF Home!Matches
  <2>6. i \notin used
    BY <2>3 DEF Home!Matches
  <2>7. used = {taken[l] : l \in 1 .. n}
    BY <2>1
  <2> HIDE DEF used, x
  <2>8. ASSUME NEW y \in DOMAIN receipts, Old(y, m)
        PROVE  /\ Settled(receipts[y], posts) /\ receipts[y].state # "failed"
               /\ receipts[y].sentAt \in Nat /\ receipts[y].session = s
    <3>1. receipts[y].session = s /\ receipts[y].sentAt \in Nat
      BY <1>1, <2>8 DEF Receipts
    <3>2. times[m] >= receipts[y].sentAt
      BY <2>2, <2>8, <3>1
    <3> QED
      BY <2>2, <3>1, <3>2
  <2>9. ASSUME NEW y \in DOMAIN receipts, NEW z \in DOMAIN receipts, y < z, Old(y, m), Old(z, m)
        PROVE  y \in {taken[l] : l \in 1 .. n}
    <3>1. Apart(receipts[y], receipts[z], posts, turns)
      BY <2>9 DEF TicksInv, ReceiptsOK
    <3>2. Between(receipts[y], receipts[z], turns)
      BY <2>8, <2>9, <3>1 DEF Apart
    <3>3. receipts[y].session = s /\ receipts[y].sentAt \in Nat /\ receipts[z].sentAt \in Nat
      BY <2>8, <2>9
    <3>4. PICK u \in 1 .. M : times[u] >= receipts[y].sentAt /\ times[u] < receipts[z].sentAt
      BY <3>2, <3>3 DEF Between
    <3>5. receipts[z].sentAt <= times[m]
      BY <2>2, <2>9
    <3>6. times[u] \in Nat /\ times[m] \in Nat /\ times[u] < times[m]
      <4>1. times[u] \in Nat /\ times[m] \in Nat
        BY <2>2
      <4>2. times[u] < receipts[z].sentAt /\ receipts[z].sentAt \in Nat
        BY <3>3, <3>4
      <4>3. \A a \in Nat : \A b \in Nat : \A c \in Nat : a < c /\ c <= b => a < b
        OBVIOUS
      <4> QED
        BY ONLY <3>5, <4>1, <4>2, <4>3
    <3>7. u < m
      <4> SUFFICES ASSUME ~(u < m) PROVE FALSE
        OBVIOUS
      <4>1. u = m \/ m < u
        BY <2>2
      <4>2. m < u => times[m] < times[u]
        BY <2>2 DEF Increasing
      <4>3. CASE u = m
        BY <3>6, <4>3
      <4>4. CASE m < u
        BY <3>6, <4>2, <4>4
      <4> QED
        BY <4>1, <4>3, <4>4
    <3>8. n \in 1 .. N /\ n \in 1 .. M /\ n < k /\ u <= n
      BY <2>1, <2>2, <3>7
    <3>9. times[u] <= times[n]
      <4>1. u = n \/ u < n
        BY <3>8
      <4>2. u < n => times[u] < times[n]
        BY <3>8 DEF Increasing
      <4>3. times[n] \in Nat
        BY <3>8
      <4> QED
        BY <3>6, <4>1, <4>2, <4>3
    <3>10. Old(y, n)
      <4>1. shown[n] = times[n]
        BY <3>8
      <4>2. times[n] \in Nat
        BY <3>8
      <4>3. receipts[y].sentAt <= times[n]
        <5> DEFINE a == receipts[y].sentAt
                   b == times[u]
                   c == times[n]
        <5>1. a \in Nat /\ b \in Nat /\ c \in Nat
          BY <3>3, <3>6, <4>2
        <5>2. a <= b /\ b <= c
          BY <3>4, <3>9
        <5> HIDE DEF a, b, c
        <5>3. a <= c
          BY <5>1, <5>2
        <5> QED
          BY <5>3 DEF a, c
      <4> QED
        BY <3>3, <4>1, <4>3
    <3> QED
      BY <1>3, <3>8, <3>10
  <2>10. x < i \/ i < x
    BY <1>1, <2>5
  <2> QED
    BY <2>5, <2>6, <2>7, <2>9, <2>10
<1> HIDE DEF P
<1>4. Nat \subseteq P
  BY <1>2, <1>3, Induction
<1>5. ASSUME NEW m \in 1 .. k - 1
      PROVE  \A i \in DOMAIN receipts : Old(i, m) => \E l \in 1 .. m : taken[l] = i
  <2>1. m \in Nat /\ m >= 1 /\ m < k
    OBVIOUS
  <2> QED
    BY <1>4, <2>1 DEF P
<1> QED
  BY <1>5

\* What the page has an echo of, of the session it shows, is a turn of it.
LEMMA EchoesAreTurns ==
  ASSUME StreamInv, NEW t \in Home!Echoes
  PROVE  \E j \in DOMAIN turns[selected] : turns[selected][j] = t
<1>1. PICK e \in Home!Range(buffer) :
        e.type = "echo" /\ e.sessionId = selected /\ e.eventId = t
  BY DEF Home!Echoes
<1>2. e \in Told
  BY DEF StreamInv, Home!Range
<1> QED
  BY <1>1, <1>2 DEF Told

\* A turn ticked as delivered has its own echo, or a later turn's.
LEMMA TickIsItsOwn ==
  ASSUME HomeInv, selected \in DOMAIN rows,
         \A i \in DOMAIN receipts :
           receipts[i].session = selected => receipts[i].state # "failed",
         NEW k \in DOMAIN Home!Assigned, Home!Assigned[k] = "delivered"
  PROVE  \E t \in Home!Echoes : t >= rows[selected].turns[k]
<1> DEFINE shown == rows[selected].turns
           times == turns[selected]
           taken == Home!Taken(shown)
           used == {taken[j] : j \in 1 .. (k - 1)}
           i == taken[k]
           N == Len(shown)
           M == Len(times)
<1>1. /\ selected \in Session /\ shown \in Seq(Nat) /\ times \in Seq(Nat)
      /\ Increasing(times) /\ IsStartOf(shown, times)
  BY ShownTurns DEF HomeInv
<1>2. N \in Nat /\ M \in Nat /\ N <= M /\ shown \in [1 .. N -> Nat] /\ times \in [1 .. M -> Nat]
  BY <1>1 DEF IsStartOf
<1>3. \A m \in 1 .. N : shown[m] = times[m]
  BY <1>1, <1>2 DEF IsStartOf
<1>4. \A m \in 1 .. N : taken[m] = Takes(taken, shown, m)
  BY <1>1, <1>2, TakenIs
<1>5. k \in 1 .. N
  BY <1>2 DEF Home!Assigned
<1>6. i # 0 /\ Home!TickOf(receipts[i]) = "delivered"
  BY DEF Home!Assigned, Home!None
<1> HIDE DEF shown, taken, times, N, M
<1>7. i \in Home!Matches(used, shown[k])
  <2>1. k \in Nat
    BY <1>5
  <2> QED
    BY <1>4, <1>5, <1>6, <2>1, TakesOne DEF HomeInv
<1> HIDE DEF i, used
<1>8. i \in DOMAIN receipts /\ receipts[i].session = selected /\ i \notin used
  BY <1>7 DEF Home!Matches
<1>9. receipts \in Seq(Receipts)
  BY DEF HomeInv, TicksInv, ReceiptsOK
<1>10. receipts[i] \in Receipts
  BY <1>8, <1>9
<1>11. Home!EchoedSince(receipts[i])
  BY <1>6, <1>10 DEF Home!TickOf, Receipts
<1>12. PICK t \in Home!Echoes : t >= receipts[i].sentAt
  BY <1>11 DEF Home!EchoedSince
<1>13. PICK j \in 1 .. M : times[j] = t
  BY <1>2, EchoesAreTurns DEF HomeInv, times
<1>14. t \in Nat /\ shown[k] \in Nat
  BY <1>2, <1>5, <1>13
<1> SUFFICES ASSUME t < shown[k] PROVE FALSE
  BY <1>14 DEF shown
<1>15. j < k
  <2> SUFFICES ASSUME ~(j < k) PROVE FALSE
    OBVIOUS
  <2>1. j = k \/ k < j
    BY <1>5, <1>13
  <2>2. k < j => times[k] < times[j]
    BY <1>1, <1>2, <1>5, <1>13 DEF Increasing
  <2>3. shown[k] = times[k]
    BY <1>3, <1>5
  <2> QED
    BY <1>13, <1>14, <2>1, <2>2, <2>3
<1>16. j \in 1 .. k - 1 /\ j \in 1 .. N /\ shown[j] = t
  BY <1>2, <1>3, <1>5, <1>13, <1>15
<1>17. ASSUME NEW y \in DOMAIN receipts, NEW m \in 1 .. M - 1,
              receipts[y].session = selected, times[m] >= receipts[y].sentAt
       PROVE  Settled(receipts[y], posts)
  <2>1. m \in DOMAIN turns[selected] /\ m # Len(turns[selected])
    BY <1>2 DEF times, M
  <2>2. turns[selected][m] >= receipts[y].sentAt
    BY <1>17 DEF times
  <2> QED
    BY <1>17, <2>1, <2>2, OldIsSettled DEF HomeInv
<1>18. \A m \in 1 .. k - 1 : \A y \in DOMAIN receipts :
         receipts[y].session = selected /\ receipts[y].sentAt <= shown[m] =>
           \E l \in 1 .. m : taken[l] = y
  <2>1. TicksInv /\ times = turns[selected]
    BY DEF HomeInv, times
  <2>2. \A y \in DOMAIN receipts : \A m \in 1 .. M - 1 :
          receipts[y].session = selected /\ times[m] >= receipts[y].sentAt =>
            Settled(receipts[y], posts)
    BY <1>17
  <2>3. Showing(selected, N, M, shown, times, taken)
    BY <1>1, <1>2, <1>3, <1>4, <2>1, <2>2 DEF Showing
  <2> QED
    BY <1>5, <2>1, <2>3, OldAreTaken
<1>19. PICK l \in 1 .. j : taken[l] = i
  <2>1. receipts[i].sentAt <= shown[j]
    BY <1>10, <1>12, <1>14, <1>16 DEF Receipts
  <2> QED
    BY <1>8, <1>16, <1>18, <2>1
<1>20. l \in 1 .. (k - 1)
  BY <1>5, <1>13, <1>15
<1> QED
  BY <1>8, <1>19, <1>20 DEF used

\* The user sends one text again and again, by two buttons, to sessions whose
\* echoes and lists arrive late, twice or never: while no send kept for the
\* session failed, no turn is ticked as delivered by an earlier turn's echo.
THEOREM TicksAreTheirOwn == Spec => []DeliveryIsItsOwn
<1>1. Init => HomeInv
  BY StartsEachPart, HomeStarts
<1>2. HomeInv /\ [Next]_vars => HomeInv'
  BY MovesOnePart, HomeHolds
<1>3. HomeInv => DeliveryIsItsOwn
  BY TickIsItsOwn DEF DeliveryIsItsOwn, Home!DeliveryIsItsOwn, Home!NoInheritedDelivery
<1> QED
  BY <1>1, <1>2, <1>3, PTL DEF Spec

-----------------------------------------------------------------------------
(* Diagram: sequences that repeat nothing.                                 *)

Distinct(q) == \A i, j \in DOMAIN q : q[i] = q[j] => i = j

\* ... but some things.
Unlike(q, X) == \A i, j \in DOMAIN q : q[i] = q[j] => i = j \/ q[i] \in X

LEMMA DistinctAreUnlike == ASSUME NEW q, Distinct(q), NEW X PROVE Unlike(q, X)
  BY DEF Distinct, Unlike

LEMMA SameCount == ASSUME NEW S PROVE Canvas!Cardinality(S) = Cardinality(S)
  BY DEF Canvas!Cardinality, Cardinality, Canvas!IsFiniteSet, IsFiniteSet

\* The more a set of numbers holds below, the later its place.
LEMMA FewerBelow ==
  ASSUME NEW S \in SUBSET Nat, IsFiniteSet(S), NEW i \in S, NEW j \in S, i < j
  PROVE  Cardinality({x \in S : x < i}) < Cardinality({x \in S : x < j})
<1> DEFINE A == {x \in S : x < i}
           B == {x \in S : x < j}
<1>1. IsFiniteSet(B) /\ A \subseteq B /\ i \in B \ A
  <2>1. \A x \in S : x < i => x < j
    OBVIOUS
  <2>2. B \subseteq S /\ i \in B \ A
    OBVIOUS
  <2> QED
    BY <2>1, <2>2, FS_Subset
<1> HIDE DEF A, B
<1>2. Cardinality(A) <= Cardinality(B) /\ Cardinality(A) # Cardinality(B) /\ IsFiniteSet(A)
  BY <1>1, FS_Subset
<1>3. Cardinality(A) \in Nat /\ Cardinality(B) \in Nat
  BY <1>1, <1>2, FS_CardinalityType
<1> QED
  BY <1>2, <1>3 DEF A, B

LEMMA InOrderIs ==
  ASSUME NEW S \in SUBSET Nat, IsFiniteSet(S)
  PROVE  /\ Cardinality(S) \in Nat
         /\ Canvas!InOrder(S) \in [1 .. Cardinality(S) -> S] /\ Distinct(Canvas!InOrder(S))
<1> DEFINE n == Cardinality(S)
           rank == [i \in S |-> Cardinality({j \in S : j < i}) + 1]
<1>1. n \in Nat /\ IsFiniteSet(1 .. n) /\ Cardinality(1 .. n) = n
  <2>1. n \in Nat
    BY FS_CardinalityType
  <2> HIDE DEF n
  <2> QED
    BY <2>1, FS_Interval
<1>2. ASSUME NEW i \in S PROVE rank[i] \in 1 .. n
  <2> DEFINE A == {j \in S : j < i}
  <2>1. A \subseteq S /\ i \notin A
    OBVIOUS
  <2> HIDE DEF A
  <2>2. IsFiniteSet(A) /\ Cardinality(A) <= n /\ Cardinality(A) # n
    BY <2>1, FS_Subset
  <2>3. Cardinality(A) \in Nat
    BY <2>2, FS_CardinalityType
  <2>4. Cardinality(A) + 1 \in 1 .. n
    BY <1>1, <2>2, <2>3
  <2> QED
    BY <2>4 DEF A
<1>3. ASSUME NEW i \in S, NEW j \in S, i < j PROVE rank[i] # rank[j]
  <2> DEFINE A == Cardinality({x \in S : x < i})
             B == Cardinality({x \in S : x < j})
  <2>1. A < B
    BY <1>3, FewerBelow
  <2>2. rank[i] = A + 1 /\ rank[j] = B + 1
    OBVIOUS
  <2>3. rank[i] \in Int /\ rank[j] \in Int /\ A + 1 \in Int
    BY <1>2, <2>2
  <2>4. A \in Nat /\ B \in Nat
    <3>1. IsFiniteSet({x \in S : x < i}) /\ IsFiniteSet({x \in S : x < j})
      BY FS_Subset
    <3> QED
      BY <3>1, FS_CardinalityType
  <2> HIDE DEF A, B, rank
  <2> QED
    BY <2>1, <2>2, <2>4
<1>4. rank \in Injection(S, 1 .. n)
  <2>1. rank \in [S -> 1 .. n]
    BY <1>2
  <2>2. ASSUME NEW i \in S, NEW j \in S, rank[i] = rank[j] PROVE i = j
    <3>1. i \in Nat /\ j \in Nat /\ (i < j \/ j < i \/ i = j)
      OBVIOUS
    <3> HIDE DEF rank
    <3> QED
      BY <1>3, <2>2, <3>1
  <2> HIDE DEF rank
  <2>3. DOMAIN rank = S
    BY <2>1
  <2>4. IsInjective(rank)
    BY <2>2, <2>3 DEF IsInjective
  <2> QED
    BY <2>1, <2>4 DEF Injection
<1>5. rank \in Surjection(S, 1 .. n)
  <2> HIDE DEF rank
  <2> QED
    BY <1>1, <1>4, FS_Injection
<1>6. ASSUME NEW k \in 1 .. n PROVE Canvas!Ranked(S, k) # {}
  <2>1. PICK i \in S : rank[i] = k
    <3> HIDE DEF rank
    <3> QED
      BY <1>5 DEF Surjection
  <2> DEFINE A == Cardinality({j \in S : j < i})
  <2>2. A + 1 = k
    BY <2>1
  <2>3. A \in Nat
    <3>1. IsFiniteSet({j \in S : j < i})
      BY FS_Subset
    <3> QED
      BY <3>1, FS_CardinalityType
  <2>4. Canvas!Cardinality({j \in S : j < i}) = A
    BY SameCount
  <2> HIDE DEF A
  <2>5. A = k - 1
    BY <2>2, <2>3
  <2> QED
    BY <2>4, <2>5 DEF Canvas!Ranked
<1> DEFINE q == Canvas!InOrder(S)
<1>7. q = [k \in 1 .. n |-> CHOOSE i \in Canvas!Ranked(S, k) : TRUE]
  BY SameCount DEF Canvas!InOrder
<1> HIDE DEF q, rank, n
<1>8. \A k \in 1 .. n : q[k] \in Canvas!Ranked(S, k)
  BY <1>6, <1>7
<1>9. \A k \in 1 .. n : q[k] \in S /\ Canvas!Cardinality({j \in S : j < q[k]}) = k - 1
  BY <1>8 DEF Canvas!Ranked
<1>10. q \in [1 .. n -> S]
  BY <1>7, <1>9
<1>11. Distinct(q)
  <2> SUFFICES ASSUME NEW i \in 1 .. n, NEW j \in 1 .. n, q[i] = q[j] PROVE i = j
    BY <1>10 DEF Distinct
  <2>1. i - 1 = j - 1
    BY <1>9
  <2> QED
    BY <1>1, <2>1
<1> QED
  BY <1>1, <1>10, <1>11 DEF n, q

\* What is found at some places is what those places hold, each once.
FoundAt(places, all) ==
  \E n \in Nat : \E order \in [1 .. n -> places] :
    Distinct(order) /\ Canvas!At(places, all) = [k \in 1 .. n |-> all[order[k]]]

LEMMA AtIs ==
  ASSUME NEW T, NEW all \in Seq(T), NEW places \in SUBSET (DOMAIN all)
  PROVE  FoundAt(places, all)
<1> DEFINE order == Canvas!InOrder(places)
           n == Cardinality(places)
<1>1. places \in SUBSET Nat /\ IsFiniteSet(places)
  <2>1. IsFiniteSet(1 .. Len(all)) /\ places \subseteq 1 .. Len(all)
    BY FS_Interval
  <2> QED
    BY <2>1, FS_Subset
<1>2. n \in Nat /\ order \in [1 .. n -> places] /\ Distinct(order)
  BY <1>1, InOrderIs
<1>3. Canvas!At(places, all) = [k \in DOMAIN order |-> all[order[k]]]
  BY DEF Canvas!At
<1> HIDE DEF order, n
<1>4. DOMAIN order = 1 .. n
  BY <1>2
<1> QED
  BY <1>2, <1>3, <1>4 DEF FoundAt

LEMMA AtSeq ==
  ASSUME NEW T, NEW all \in Seq(T), NEW places \in SUBSET (DOMAIN all)
  PROVE  Canvas!At(places, all) \in Seq(T)
<1> FoundAt(places, all)
  BY AtIs
<1>1. PICK n \in Nat : \E order \in [1 .. n -> places] :
         Distinct(order) /\ Canvas!At(places, all) = [k \in 1 .. n |-> all[order[k]]]
  BY DEF FoundAt
<1>2. PICK order \in [1 .. n -> places] :
         Distinct(order) /\ Canvas!At(places, all) = [k \in 1 .. n |-> all[order[k]]]
  BY <1>1
<1>3. \A k \in 1 .. n : order[k] \in places /\ all[order[k]] \in T
  OBVIOUS
<1>4. [k \in 1 .. n |-> all[order[k]]] \in Seq(T)
  BY <1>3
<1> QED
  BY <1>2, <1>4

-----------------------------------------------------------------------------
(* Diagram: the names of a session's nodes.                                *)

\* Names of nodes of one session, of some kinds, none twice but those of X.
Names(q, s, kinds, X) ==
  /\ q \in Seq({q[i] : i \in DOMAIN q}) /\ Unlike(q, X)
  /\ \A i \in DOMAIN q : 2 \in DOMAIN q[i] /\ q[i][1] = s /\ q[i][2] \in kinds

LEMMA NamesGrow ==
  ASSUME NEW q, NEW s, NEW A, NEW B, NEW X, Names(q, s, A, X), A \subseteq B
  PROVE  Names(q, s, B, X)
  BY DEF Names

LEMMA NamesListed ==
  ASSUME NEW q, NEW s, NEW kinds, NEW X, NEW n \in Nat,
         q = [i \in 1 .. n |-> q[i]], Unlike(q, X),
         \A i \in 1 .. n : 2 \in DOMAIN q[i] /\ q[i][1] = s /\ q[i][2] \in kinds
  PROVE  Names(q, s, kinds, X)
<1>1. DOMAIN q = 1 .. n
  OBVIOUS
<1>2. q \in [1 .. n -> {q[i] : i \in DOMAIN q}]
  BY <1>1
<1>3. q \in Seq({q[i] : i \in DOMAIN q})
  BY <1>2
<1> QED
  BY <1>1, <1>3 DEF Names

LEMMA NamesJoin ==
  ASSUME NEW a, NEW b, NEW s, NEW A, NEW B, A \cap B = {}, NEW X,
         Names(a, s, A, X), Names(b, s, B, X)
  PROVE  Names(a \o b, s, A \cup B, X)
<1> DEFINE T == {a[i] : i \in DOMAIN a} \cup {b[i] : i \in DOMAIN b}
           q == a \o b
<1>1. a \in Seq(T) /\ b \in Seq(T)
  BY DEF Names
<1> HIDE DEF T
<1>2. /\ q \in Seq(T) /\ Len(q) = Len(a) + Len(b) /\ Len(a) \in Nat /\ Len(b) \in Nat
      /\ DOMAIN q = 1 .. Len(q) /\ DOMAIN a = 1 .. Len(a) /\ DOMAIN b = 1 .. Len(b)
  BY <1>1
<1>3. \A i \in 1 .. Len(q) : q[i] = IF i <= Len(a) THEN a[i] ELSE b[i - Len(a)]
  BY <1>1, <1>2
<1> HIDE DEF q
<1>4. \A i \in DOMAIN q : i <= Len(a) => i \in DOMAIN a /\ q[i] = a[i] /\ q[i][2] \in A
  BY <1>2, <1>3 DEF Names
<1>5. \A i \in DOMAIN q : ~(i <= Len(a)) =>
         i - Len(a) \in DOMAIN b /\ q[i] = b[i - Len(a)] /\ q[i][2] \in B
  BY <1>2, <1>3 DEF Names
<1>6. Unlike(q, X)
  <2> SUFFICES ASSUME NEW i \in DOMAIN q, NEW j \in DOMAIN q, q[i] = q[j], q[i] \notin X
               PROVE  i = j
    BY DEF Unlike
  <2>1. CASE i <= Len(a)
    <3>1. j <= Len(a)
      BY <1>4, <1>5, <2>1
    <3> QED
      BY <1>4, <2>1, <3>1 DEF Names, Unlike
  <2>2. CASE ~(i <= Len(a))
    <3>1. ~(j <= Len(a))
      BY <1>4, <1>5, <2>2
    <3>2. i - Len(a) = j - Len(a)
      BY <1>5, <2>2, <3>1 DEF Names, Unlike
    <3> QED
      BY <1>2, <3>2
  <2> QED
    BY <2>1, <2>2
<1>7. q = [i \in 1 .. Len(q) |-> q[i]] /\ Len(q) \in Nat
  BY <1>2
<1>8. ASSUME NEW i \in 1 .. Len(q)
      PROVE  2 \in DOMAIN q[i] /\ q[i][1] = s /\ q[i][2] \in A \cup B
  <2>1. CASE i <= Len(a)
    BY <1>2, <1>4, <2>1 DEF Names
  <2>2. CASE ~(i <= Len(a))
    <3>1. i - Len(a) \in DOMAIN b /\ q[i] = b[i - Len(a)] /\ q[i][2] \in B
      BY <1>2, <1>5, <2>2
    <3>2. 2 \in DOMAIN b[i - Len(a)] /\ b[i - Len(a)][1] = s
      BY <3>1 DEF Names
    <3> QED
      BY <3>1, <3>2
  <2> QED
    BY <2>1, <2>2
<1> QED
  BY <1>6, <1>7, <1>8, NamesListed DEF q

\* Frames kept.
Framing == {Canvas!Framed(e, id) : e \in Heard, id \in Nat}
Kept(q) == q \in Seq(Framing)

LEMMA KeptAt ==
  ASSUME NEW q, Kept(q), NEW places \in SUBSET (DOMAIN q) PROVE Kept(Canvas!At(places, q))
  BY AtSeq DEF Kept

LEMMA KeptOf ==
  ASSUME NEW q, Kept(q), NEW s, NEW type
  PROVE  Kept(Canvas!Of(s, q)) /\ Kept(Canvas!OfType(s, type, q))
  BY KeptAt DEF Canvas!Of, Canvas!OfType

LEMMA FramesHaveSteps ==
  ASSUME Canvas!HeardKnown, NEW q, Kept(q), NEW i \in DOMAIN q
  PROVE  q[i].step \in Nat
<1>1. q[i] \in Framing
  BY DEF Kept
<1> QED
  BY <1>1 DEF Framing, Canvas!Framed, Canvas!HeardKnown

LEMMA OneIsBefore ==
  ASSUME NEW i \in Nat \ {0}, NEW j \in Nat \ {0}, i # j
  PROVE  i \in 1 .. (j - 1) \/ j \in 1 .. (i - 1)
<1>1. i <= j - 1 \/ j <= i - 1
  OBVIOUS
<1> QED
  BY <1>1

LEMMA MembersNamed ==
  ASSUME NEW q, Kept(q), NEW s, NEW X PROVE Names(Canvas!MemberNodes(s, q), s, {"member"}, X)
<1> DEFINE own == Canvas!Of(s, q)
           first == {i \in DOMAIN own : own[i].member # ""
                       /\ \A j \in 1 .. (i - 1) : own[j].member # own[i].member}
           order == Canvas!InOrder(first)
           n == Cardinality(first)
<1>1. own \in Seq(Framing)
  BY KeptOf DEF Kept
<1>2. /\ DOMAIN own = 1 .. Len(own) /\ Len(own) \in Nat
      /\ \A i \in DOMAIN own : i \in Nat \ {0}
  BY <1>1
<1>3. Canvas!membersFor(s, q) = [k \in DOMAIN order |-> own[order[k]].member]
  BY DEF Canvas!membersFor
<1> HIDE DEF own
<1>4. first \in SUBSET Nat /\ IsFiniteSet(first)
  <2>1. first \in SUBSET (1 .. Len(own))
    BY <1>2
  <2>2. IsFiniteSet(1 .. Len(own))
    BY <1>2, FS_Interval
  <2> HIDE DEF first
  <2>3. IsFiniteSet(first)
    BY <2>1, <2>2, FS_Subset
  <2> QED
    BY <1>2, <2>1, <2>3
<1>5. \A i, j \in first : own[i].member = own[j].member => i = j
  <2> SUFFICES ASSUME NEW i \in first, NEW j \in first, own[i].member = own[j].member, i # j
               PROVE  FALSE
    OBVIOUS
  <2>1. i \in DOMAIN own /\ j \in DOMAIN own /\ i # j
    OBVIOUS
  <2>2. i \in Nat \ {0} /\ j \in Nat \ {0}
    BY <1>2, <2>1
  <2>3. i \in 1 .. (j - 1) \/ j \in 1 .. (i - 1)
    BY <2>1, <2>2, OneIsBefore
  <2> QED
    BY <2>3
<1> HIDE DEF first
<1>6. n \in Nat /\ order \in [1 .. n -> first] /\ Distinct(order)
  BY <1>4, InOrderIs
<1> HIDE DEF order, n
<1> DEFINE chain == [k \in 1 .. n |-> <<s, "member", own[order[k]].member>>]
<1>7. Canvas!MemberNodes(s, q) = chain
  BY <1>3, <1>6 DEF Canvas!MemberNodes
<1>8. Distinct(chain)
  BY <1>5, <1>6 DEF Distinct
<1> QED
  BY <1>6, <1>7, <1>8, DistinctAreUnlike, NamesListed

LEMMA StepsNamed ==
  ASSUME Canvas!HeardKnown, NEW q, Kept(q), NEW s, NEW X
  PROVE  Names(Canvas!ReasoningNodes(s, q), s, {"reasoning"}, X)
<1> DEFINE said == Canvas!OfType(s, "reasoning", q)
           of == {e.step : e \in Canvas!Range(said)}
           steps == Canvas!InOrder(of)
           n == Cardinality(of)
<1>1. Kept(said)
  BY KeptOf
<1>2. Canvas!ReasoningNodes(s, q) = [i \in DOMAIN steps |-> <<s, "reasoning", steps[i]>>]
  BY DEF Canvas!ReasoningNodes
<1> HIDE DEF said
<1>3. of = {said[i].step : i \in DOMAIN said}
  BY DEF Canvas!Range
<1>4. of \in SUBSET Nat
  BY <1>1, <1>3, FramesHaveSteps
<1>5. IsFiniteSet(of)
  <2> DEFINE f == [i \in DOMAIN said |-> said[i].step]
  <2>1. f \in Surjection(DOMAIN said, of)
    BY <1>3 DEF Surjection
  <2>2. IsFiniteSet(DOMAIN said)
    <3>1. DOMAIN said = 1 .. Len(said) /\ Len(said) \in Nat
      BY <1>1 DEF Kept
    <3> QED
      BY <3>1, FS_Interval
  <2> HIDE DEF f, of
  <2> QED
    BY <2>1, <2>2, FS_Surjection
<1> HIDE DEF of
<1>6. n \in Nat /\ steps \in [1 .. n -> of] /\ Distinct(steps)
  BY <1>4, <1>5, InOrderIs
<1> HIDE DEF steps, n
<1> DEFINE chain == [k \in 1 .. n |-> <<s, "reasoning", steps[k]>>]
<1>7. Canvas!ReasoningNodes(s, q) = chain
  BY <1>2, <1>6
<1>8. Distinct(chain)
  BY <1>6 DEF Distinct
<1> QED
  BY <1>6, <1>7, <1>8, DistinctAreUnlike, NamesListed

\* A later call of one name has more of that name before it.
LEMMA SuffixesApart ==
  ASSUME NEW pairs, NEW i \in Nat \ {0}, NEW j \in Nat \ {0}, i \in 1 .. (j - 1),
         pairs[i].member = pairs[j].member, pairs[i].step = pairs[j].step
  PROVE  Canvas!Suffix(pairs, i) # Canvas!Suffix(pairs, j)
<1> DEFINE A == {x \in 1 .. (i - 1) :
                   pairs[x].member = pairs[i].member /\ pairs[x].step = pairs[i].step}
           B == {x \in 1 .. (j - 1) :
                   pairs[x].member = pairs[j].member /\ pairs[x].step = pairs[j].step}
<1>1. 1 .. (i - 1) \subseteq 1 .. (j - 1) /\ i \notin 1 .. (i - 1)
  OBVIOUS
<1>2. A \subseteq B /\ i \in B \ A
  BY <1>1
<1>3. IsFiniteSet(B)
  <2>1. IsFiniteSet(1 .. (j - 1)) /\ B \subseteq 1 .. (j - 1)
    BY FS_Interval
  <2> QED
    BY <2>1, FS_Subset
<1>4. Canvas!Suffix(pairs, i) = Cardinality(A) /\ Canvas!Suffix(pairs, j) = Cardinality(B)
  BY SameCount DEF Canvas!Suffix
<1> HIDE DEF A, B
<1>5. Cardinality(B) = Cardinality(A) => A = B
  BY <1>2, <1>3, FS_Subset
<1> QED
  BY <1>2, <1>4, <1>5

LEMMA ToolsNamed ==
  ASSUME NEW q, Kept(q), NEW s, NEW X PROVE Names(Canvas!ToolNodes(s, q), s, {"tool"}, X)
<1> DEFINE called == Canvas!OfType(s, "tool.called", q)
           results == Canvas!OfType(s, "tool.result", q)
           orphans == {i \in DOMAIN results :
                         \A c \in Canvas!Range(called) : c.step # results[i].step}
           pairs == Canvas!ToolPairs(s, q)
<1>1. called \in Seq(Framing) /\ results \in Seq(Framing)
  BY KeptOf DEF Kept
<1>2. pairs = called \o Canvas!At(orphans, results)
  BY DEF Canvas!ToolPairs
<1>3. orphans \in SUBSET (DOMAIN results)
  OBVIOUS
<1>4. Canvas!ToolNodes(s, q) =
         [i \in DOMAIN pairs |-> <<s, "tool", pairs[i].member, pairs[i].step,
                                   Canvas!Suffix(pairs, i)>>]
  BY DEF Canvas!ToolNodes
<1> HIDE DEF called, results, orphans, pairs
<1>5. pairs \in Seq(Framing)
  BY <1>1, <1>2, <1>3, AtSeq
<1> DEFINE n == Len(pairs)
<1>6. DOMAIN pairs = 1 .. n /\ n \in Nat /\ \A i \in 1 .. n : i \in Nat \ {0}
  BY <1>5
<1> HIDE DEF n
<1> DEFINE name(i) ==
             <<s, "tool", pairs[i].member, pairs[i].step, Canvas!Suffix(pairs, i)>>
           ids == [i \in 1 .. n |-> name(i)]
<1>7. \A i, j \in 1 .. n : i \in 1 .. (j - 1) => name(i) # name(j)
  <2> SUFFICES ASSUME NEW i \in 1 .. n, NEW j \in 1 .. n, i \in 1 .. (j - 1), name(i) = name(j)
               PROVE  FALSE
    OBVIOUS
  <2>1. /\ pairs[i].member = pairs[j].member /\ pairs[i].step = pairs[j].step
        /\ Canvas!Suffix(pairs, i) = Canvas!Suffix(pairs, j)
    OBVIOUS
  <2> QED
    BY <1>6, <2>1, SuffixesApart
<1>8. ASSUME NEW i \in 1 .. n
      PROVE  2 \in DOMAIN name(i) /\ name(i)[1] = s /\ name(i)[2] \in {"tool"}
  OBVIOUS
<1> HIDE DEF name
<1>9. Distinct(ids)
  <2> SUFFICES ASSUME NEW i \in 1 .. n, NEW j \in 1 .. n, name(i) = name(j), i # j
               PROVE  FALSE
    BY DEF Distinct
  <2> QED
    BY <1>6, <1>7, OneIsBefore
<1>10. Canvas!ToolNodes(s, q) = ids
  BY <1>4, <1>6 DEF name
<1> QED
  BY <1>6, <1>8, <1>9, <1>10, DistinctAreUnlike, NamesListed

\* Decisions of one name are found at different places, so that both share it.
LEMMA DecisionsNamed ==
  ASSUME NEW q, Kept(q), NEW s
  PROVE  Names(Canvas!DecisionNodes(s, q), s, {"decision"}, Canvas!Alike(s, q))
<1> DEFINE places == {i \in DOMAIN q : q[i].sessionId = s /\ q[i].type = "decision.recorded"}
           ds == Canvas!OfType(s, "decision.recorded", q)
<1>1. ds = Canvas!At(places, q)
  BY DEF Canvas!OfType
<1>2. PICK n \in Nat : \E order \in [1 .. n -> places] :
         Distinct(order) /\ Canvas!At(places, q) = [k \in 1 .. n |-> q[order[k]]]
  <2>1. FoundAt(places, q)
    BY AtIs DEF Kept
  <2> QED
    BY <2>1 DEF FoundAt
<1>3. PICK order \in [1 .. n -> places] :
         Distinct(order) /\ Canvas!At(places, q) = [k \in 1 .. n |-> q[order[k]]]
  BY <1>2
<1>4. Canvas!DecisionNodes(s, q) = [i \in DOMAIN ds |-> <<s, "decision", Canvas!did(ds[i])>>]
  BY DEF Canvas!DecisionNodes
<1> HIDE DEF ds
<1> DEFINE ids == [i \in 1 .. n |-> <<s, "decision", Canvas!did(q[order[i]])>>]
<1>5. Canvas!DecisionNodes(s, q) = ids
  BY <1>1, <1>3, <1>4
<1>6. Unlike(ids, Canvas!Alike(s, q))
  <2> SUFFICES ASSUME NEW i \in 1 .. n, NEW j \in 1 .. n, ids[i] = ids[j], i # j
               PROVE  ids[i] \in Canvas!Alike(s, q)
    BY DEF Unlike
  <2>1. order[i] \in places /\ order[j] \in places /\ order[i] # order[j]
    BY <1>3 DEF Distinct
  <2>2. Canvas!did(q[order[i]]) = Canvas!did(q[order[j]])
    OBVIOUS
  <2> QED
    BY <2>1, <2>2 DEF Canvas!Alike
<1> QED
  BY <1>5, <1>6, NamesListed

LEMMA LastNamed ==
  ASSUME NEW s, NEW state, NEW X
  PROVE  Names(Canvas!LastNode(s, state), s, {"awaiting", "terminal"}, X)
<1> DEFINE q == Canvas!LastNode(s, state)
<1>1. q \in {<<<<s, "awaiting">>>>, <<<<s, "terminal">>>>, <<>>}
  <2>1. CASE state = "awaiting_input"
    BY <2>1 DEF Canvas!LastNode, Canvas!Terminal
  <2>2. CASE state # "awaiting_input" /\ state \in Canvas!Terminal
    BY <2>2 DEF Canvas!LastNode
  <2>3. CASE state # "awaiting_input" /\ state \notin Canvas!Terminal
    BY <2>3 DEF Canvas!LastNode
  <2> QED
    BY <2>1, <2>2, <2>3
<1> HIDE DEF q
<1>2. /\ Len(q) \in Nat /\ q = [i \in 1 .. Len(q) |-> q[i]] /\ Distinct(q)
      /\ \A i \in 1 .. Len(q) : q[i] \in {<<s, "awaiting">>, <<s, "terminal">>}
  <2>1. CASE q = <<>>
    BY <2>1 DEF Distinct
  <2>2. CASE q = <<<<s, "awaiting">>>>
    BY <2>2 DEF Distinct
  <2>3. CASE q = <<<<s, "terminal">>>>
    BY <2>3 DEF Distinct
  <2> QED
    BY <1>1, <2>1, <2>2, <2>3
<1>3. ASSUME NEW i \in 1 .. Len(q)
      PROVE  2 \in DOMAIN q[i] /\ q[i][1] = s /\ q[i][2] \in {"awaiting", "terminal"}
  <2>1. CASE q[i] = <<s, "awaiting">>
    BY <2>1
  <2>2. CASE q[i] = <<s, "terminal">>
    BY <2>2
  <2> QED
    BY <1>2, <2>1, <2>2
<1> QED
  BY <1>2, <1>3, DistinctAreUnlike, NamesListed DEF q

Kinds == {"member", "reasoning", "tool", "decision", "awaiting", "terminal"}

LEMMA ExtrasNamed ==
  ASSUME Canvas!HeardKnown, NEW q, Kept(q), NEW s, NEW state
  PROVE  Names(Canvas!MemberNodes(s, q) \o Canvas!Extras(s, state, q), s, Kinds,
               Canvas!Alike(s, q))
<1> DEFINE members == Canvas!MemberNodes(s, q)
           reasoning == Canvas!ReasoningNodes(s, q)
           tools == Canvas!ToolNodes(s, q)
           decisions == Canvas!DecisionNodes(s, q)
           last == Canvas!LastNode(s, state)
           X == Canvas!Alike(s, q)
<1>1. /\ Names(members, s, {"member"}, X) /\ Names(reasoning, s, {"reasoning"}, X)
      /\ Names(tools, s, {"tool"}, X) /\ Names(decisions, s, {"decision"}, X)
      /\ Names(last, s, {"awaiting", "terminal"}, X)
  BY MembersNamed, StepsNamed, ToolsNamed, DecisionsNamed, LastNamed
<1>2. Canvas!Extras(s, state, q) = reasoning \o tools \o decisions \o last
  BY DEF Canvas!Extras
<1> HIDE DEF members, reasoning, tools, decisions, last, X
<1>3. Names(reasoning \o tools, s, {"reasoning"} \cup {"tool"}, X)
  BY <1>1, NamesJoin
<1>4. Names(reasoning \o tools \o decisions, s, {"reasoning"} \cup {"tool"} \cup {"decision"}, X)
  BY <1>1, <1>3, NamesJoin
<1>5. Names(reasoning \o tools \o decisions \o last, s,
            ({"reasoning"} \cup {"tool"} \cup {"decision"}) \cup {"awaiting", "terminal"}, X)
  BY <1>1, <1>4, NamesJoin
<1>6. Names(members \o (reasoning \o tools \o decisions \o last), s, {"member"} \cup
            (({"reasoning"} \cup {"tool"} \cup {"decision"}) \cup {"awaiting", "terminal"}), X)
  BY <1>1, <1>5, NamesJoin
<1>7. {"member"} \cup (({"reasoning"} \cup {"tool"} \cup {"decision"}) \cup
        {"awaiting", "terminal"}) = Kinds
  BY DEF Kinds
<1> QED
  BY <1>2, <1>6, <1>7 DEF members, X

-----------------------------------------------------------------------------
(* Diagram: the tree.                                                      *)

\* The part a session takes: its own node first, the others after one another.
Grown(b, s, X) ==
  /\ b \in Seq({b[i] : i \in DOMAIN b}) /\ Len(b) >= 1
  /\ b[1].from = Canvas!Atlas
  /\ \A i, j \in DOMAIN b : b[i].id = b[j].id => i = j \/ b[i].id \in X
  /\ \A i \in DOMAIN b : 2 \in DOMAIN b[i].id /\ b[i].id[1] = s
  /\ \A i \in 2 .. Len(b) : \E j \in 1 .. (i - 1) : b[j].id = b[i].from

Hung(nodes, ids, n, root) ==
  /\ nodes = [i \in 1 .. n |-> nodes[i]]
  /\ \A i \in 1 .. n :
       /\ nodes[i].id = ids[i]
       /\ nodes[i].from = root \/ \E k \in 1 .. (i - 1) : nodes[i].from = ids[k]

LEMMA HangIs ==
  ASSUME NEW ids, NEW n \in Nat, DOMAIN ids = 1 .. n, NEW root
  PROVE  /\ Hung(Canvas!FannedOut(root, ids), ids, n, root)
         /\ Hung(Canvas!Chained(root, ids), ids, n, root)
<1>1. Hung(Canvas!FannedOut(root, ids), ids, n, root)
  <2> DEFINE nodes == Canvas!FannedOut(root, ids)
  <2>1. nodes = [i \in 1 .. n |-> [id |-> ids[i], from |-> root]]
    BY DEF Canvas!FannedOut
  <2> HIDE DEF nodes
  <2>2. \A i \in 1 .. n : nodes[i].id = ids[i] /\ nodes[i].from = root
    BY <2>1
  <2>3. nodes = [i \in 1 .. n |-> nodes[i]]
    BY <2>1
  <2>4. Hung(nodes, ids, n, root)
    BY <2>2, <2>3 DEF Hung
  <2> QED
    BY <2>4 DEF nodes
<1>2. Hung(Canvas!Chained(root, ids), ids, n, root)
  <2> DEFINE nodes == Canvas!Chained(root, ids)
             before(i) == IF Canvas!First(ids, i) = 1 THEN root ELSE ids[Canvas!First(ids, i) - 1]
  <2>1. nodes = [i \in 1 .. n |-> [id |-> ids[i], from |-> before(i)]]
    BY DEF Canvas!Chained
  <2>2. ASSUME NEW i \in 1 .. n
        PROVE  before(i) = root \/ \E k \in 1 .. (i - 1) : before(i) = ids[k]
    <3> DEFINE at == Canvas!First(ids, i)
    <3>1. at \in 1 .. i
      <4> DEFINE T == {j \in DOMAIN ids : ids[j] = ids[i]}
      <4>1. T \in SUBSET (1 .. n) /\ i \in T
        OBVIOUS
      <4> HIDE DEF T
      <4>2. \E m \in T : \A j \in T : m <= j
        BY <4>1, LeastNumber
      <4>3. at \in T /\ \A j \in T : at <= j
        BY <4>2 DEF Canvas!First, Canvas!Min, T
      <4> HIDE DEF at
      <4>4. at \in 1 .. n /\ at <= i /\ i \in 1 .. n
        BY <4>1, <4>3
      <4> QED
        BY <4>4
    <3> HIDE DEF at
    <3>2. CASE at = 1
      BY <3>2 DEF at
    <3>3. CASE at # 1
      <4>1. at - 1 \in 1 .. (i - 1) /\ before(i) = ids[at - 1]
        BY <3>1, <3>3 DEF at
      <4> QED
        BY <4>1
    <3> QED
      BY <3>2, <3>3
  <2> HIDE DEF nodes, before
  <2>3. \A i \in 1 .. n : nodes[i].id = ids[i] /\ nodes[i].from = before(i)
    BY <2>1
  <2>4. nodes = [i \in 1 .. n |-> nodes[i]]
    BY <2>1
  <2>5. Hung(nodes, ids, n, root)
    BY <2>2, <2>3, <2>4 DEF Hung
  <2> QED
    BY <2>5 DEF nodes
<1> QED
  BY <1>1, <1>2

LEMMA HungGrows ==
  ASSUME NEW ids, NEW s, NEW X, Names(ids, s, Kinds, X), NEW nodes,
         Hung(nodes, ids, Len(ids), <<s, "session">>)
  PROVE  Grown(<<Canvas!SessionNode(s)>> \o nodes, s, X)
<1> DEFINE root == <<s, "session">>
           node == Canvas!SessionNode(s)
           T == {node} \cup {nodes[i] : i \in 1 .. Len(ids)}
           b == <<node>> \o nodes
           n == Len(ids)
<1>1. DOMAIN ids = 1 .. n /\ n \in Nat
  BY DEF Names
<1>2. node.id = root /\ node.from = Canvas!Atlas
  BY DEF Canvas!SessionNode
<1>3. ASSUME NEW i \in 1 .. n
      PROVE  /\ 2 \in DOMAIN ids[i] /\ ids[i][1] = s /\ ids[i] # root
             /\ \A j \in 1 .. n : ids[i] = ids[j] => i = j \/ ids[i] \in X
  <2>1. 2 \in DOMAIN ids[i] /\ ids[i][1] = s /\ ids[i][2] \in Kinds
    BY <1>1 DEF Names
  <2>2. root[2] \notin Kinds
    BY DEF Kinds
  <2> QED
    BY <1>1, <2>1, <2>2 DEF Names, Unlike
<1>4. /\ nodes = [i \in 1 .. n |-> nodes[i]]
      /\ \A i \in 1 .. n :
           /\ nodes[i].id = ids[i]
           /\ nodes[i].from = root \/ \E k \in 1 .. (i - 1) : nodes[i].from = ids[k]
  BY DEF Hung
<1> HIDE DEF n, node
<1>5. nodes \in Seq(T) /\ <<node>> \in Seq(T) /\ Len(nodes) = n /\ Len(<<node>>) = 1
  <2>1. nodes \in [1 .. n -> T]
    BY <1>4 DEF n
  <2> HIDE DEF T
  <2>2. nodes \in Seq(T) /\ Len(nodes) = n
    BY <1>1, <2>1
  <2>3. <<node>> \in Seq(T)
    BY DEF T
  <2> QED
    BY <2>2, <2>3
<1> HIDE DEF T
<1>6. /\ b \in Seq(T) /\ Len(b) = n + 1 /\ DOMAIN b = 1 .. n + 1 /\ b[1] = node
      /\ \A i \in 1 .. n : b[i + 1] = nodes[i]
  BY <1>1, <1>5
<1> HIDE DEF b
<1>7. \A i \in 1 .. n + 1 : i = 1 \/ (i - 1 \in 1 .. n /\ b[i] = nodes[i - 1])
  <2> SUFFICES ASSUME NEW i \in 1 .. n + 1, i # 1 PROVE i - 1 \in 1 .. n /\ b[i] = nodes[i - 1]
    OBVIOUS
  <2>1. i - 1 \in 1 .. n /\ (i - 1) + 1 = i
    BY <1>1
  <2> QED
    BY <1>6, <2>1
<1>8. \A i \in 1 .. n + 1 :
         b[i].id = IF i = 1 THEN root ELSE ids[i - 1]
  BY <1>2, <1>4, <1>6, <1>7
<1>9. ASSUME NEW i \in 1 .. n + 1, NEW j \in 1 .. n + 1, b[i].id = b[j].id
      PROVE  i = j \/ b[i].id \in X
  <2>1. CASE i = 1
    BY <1>3, <1>7, <1>8, <1>9, <2>1
  <2>2. CASE i # 1 /\ j = 1
    BY <1>3, <1>7, <1>8, <1>9, <2>2
  <2>3. CASE i # 1 /\ j # 1
    <3>1. /\ i - 1 \in 1 .. n /\ j - 1 \in 1 .. n /\ b[i].id = ids[i - 1]
          /\ ids[i - 1] = ids[j - 1]
      BY <1>7, <1>8, <1>9, <2>3
    <3>2. i - 1 = j - 1 \/ ids[i - 1] \in X
      BY <1>3, <3>1
    <3> QED
      BY <1>1, <3>1, <3>2
  <2> QED
    BY <2>1, <2>2, <2>3
<1>10. ASSUME NEW i \in 1 .. n + 1 PROVE 2 \in DOMAIN b[i].id /\ b[i].id[1] = s
  <2>1. CASE i = 1
    BY <1>8, <2>1
  <2>2. CASE i # 1
    BY <1>3, <1>7, <1>8, <2>2
  <2> QED
    BY <2>1, <2>2
<1>11. ASSUME NEW i \in 2 .. n + 1 PROVE \E j \in 1 .. (i - 1) : b[j].id = b[i].from
  <2>1. i \in 1 .. n + 1 /\ i # 1 /\ 1 \in 1 .. (i - 1)
    BY <1>1
  <2>2. i - 1 \in 1 .. n /\ b[i] = nodes[i - 1]
    BY <1>7, <2>1
  <2>3. CASE b[i].from = root
    BY <1>2, <1>6, <2>1, <2>3
  <2>4. ASSUME NEW k \in 1 .. ((i - 1) - 1), b[i].from = ids[k]
        PROVE  \E j \in 1 .. (i - 1) : b[j].id = b[i].from
    <3>1. k + 1 \in 1 .. n + 1 /\ k + 1 # 1 /\ k + 1 \in 1 .. (i - 1) /\ (k + 1) - 1 = k
      BY <1>1
    <3>2. b[k + 1].id = b[i].from
      BY <1>8, <2>4, <3>1
    <3> QED
      BY <3>1, <3>2
  <2> QED
    BY <1>4, <2>2, <2>3, <2>4
<1>12. b \in Seq({b[i] : i \in DOMAIN b})
  <2>1. b \in [1 .. n + 1 -> {b[i] : i \in DOMAIN b}]
    BY <1>6
  <2> QED
    BY <1>1, <2>1
<1>13. Len(b) >= 1
  BY <1>1, <1>6
<1>14. Grown(b, s, X)
  <2>1. Len(b) = n + 1 /\ DOMAIN b = 1 .. n + 1 /\ b[1].from = Canvas!Atlas
    BY <1>2, <1>6
  <2> QED
    BY <1>9, <1>10, <1>11, <1>12, <1>13, <2>1 DEF Grown
<1> QED
  BY <1>14 DEF b, node

LEMMA BranchGrows ==
  ASSUME Canvas!HeardKnown, NEW q, Kept(q), NEW s, NEW state, NEW m
  PROVE  Grown(Canvas!Branch(s, state, q, m), s, Canvas!Alike(s, q))
<1> DEFINE chain == Canvas!MemberNodes(s, q)
           all == chain \o Canvas!Extras(s, state, q)
           root == <<s, "session">>
           X == Canvas!Alike(s, q)
<1>1. Names(chain, s, Kinds, X) /\ Names(all, s, Kinds, X)
  <2>1. Names(chain, s, {"member"}, X) /\ {"member"} \subseteq Kinds
    BY MembersNamed DEF Kinds
  <2>2. Names(all, s, Kinds, X)
    BY ExtrasNamed
  <2> HIDE DEF chain, all, X
  <2> QED
    BY <2>1, <2>2, NamesGrow
<1>2. Canvas!Branch(s, state, q, m) \in
        {<<Canvas!SessionNode(s)>> \o Canvas!FannedOut(root, chain),
         <<Canvas!SessionNode(s)>> \o Canvas!Chained(root, chain),
         <<Canvas!SessionNode(s)>> \o Canvas!Chained(root, all)}
  <2>1. CASE m = "fanout"
    BY <2>1 DEF Canvas!Branch
  <2>2. CASE m = "chain"
    BY <2>2 DEF Canvas!Branch
  <2>3. CASE m # "fanout" /\ m # "chain"
    BY <2>3 DEF Canvas!Branch
  <2> QED
    BY <2>1, <2>2, <2>3
<1> HIDE DEF chain, all, X
<1>3. /\ Len(chain) \in Nat /\ DOMAIN chain = 1 .. Len(chain)
      /\ Len(all) \in Nat /\ DOMAIN all = 1 .. Len(all)
  BY <1>1 DEF Names
<1> QED
  <2>1. Grown(Canvas!Branch(s, state, q, m), s, X)
    BY <1>1, <1>2, <1>3, HangIs, HungGrows
  <2> QED
    BY <2>1 DEF X

\* What a graph must be.
Tree(g, s, X) ==
  /\ \A i, j \in DOMAIN g : g[i].id = g[j].id => i = j \/ g[i].id \in X
  /\ \A i \in 2 .. Len(g) :
       /\ \E j \in 1 .. (i - 1) : g[j].id = g[i].from
       /\ g[i].id[1] = s

\* Atlas, under which a part hangs.
Whole == [id |-> Canvas!Atlas, from |-> Canvas!Atlas]

LEMMA GrownIsTree ==
  ASSUME NEW b, NEW s, NEW X, Grown(b, s, X) PROVE Tree(<<Whole>> \o b, s, X)
<1> DEFINE T == {Whole} \cup {b[i] : i \in DOMAIN b}
           g == <<Whole>> \o b
           n == Len(b)
<1>1. n \in Nat \ {0} /\ DOMAIN b = 1 .. n /\ b \in Seq({b[i] : i \in DOMAIN b})
  BY DEF Grown
<1> HIDE DEF n
<1>2. b \in Seq(T) /\ <<Whole>> \in Seq(T) /\ Len(<<Whole>>) = 1
  BY <1>1
<1> HIDE DEF T
<1>3. /\ Len(g) = n + 1 /\ DOMAIN g = 1 .. n + 1 /\ g[1] = Whole
      /\ \A i \in 1 .. n : g[i + 1] = b[i]
  BY <1>1, <1>2 DEF n
<1> HIDE DEF g
<1>4. \A i \in 1 .. n + 1 : i = 1 \/ (i - 1 \in 1 .. n /\ g[i] = b[i - 1])
  <2> SUFFICES ASSUME NEW i \in 1 .. n + 1, i # 1 PROVE i - 1 \in 1 .. n /\ g[i] = b[i - 1]
    OBVIOUS
  <2>1. i - 1 \in 1 .. n /\ (i - 1) + 1 = i
    BY <1>1
  <2> QED
    BY <1>3, <2>1
<1>5. Whole.id = Canvas!Atlas /\ 2 \notin DOMAIN Canvas!Atlas
  BY DEF Whole, Canvas!Atlas
<1>6. \A i \in 1 .. n : b[i].id # Canvas!Atlas /\ b[i].id[1] = s
  BY <1>1, <1>5 DEF Grown
<1>7. ASSUME NEW i \in 1 .. n + 1, NEW j \in 1 .. n + 1, g[i].id = g[j].id
      PROVE  i = j \/ g[i].id \in X
  <2>1. CASE i = 1
    BY <1>3, <1>4, <1>5, <1>6, <1>7, <2>1
  <2>2. CASE i # 1 /\ j = 1
    BY <1>3, <1>4, <1>5, <1>6, <1>7, <2>2
  <2>3. CASE i # 1 /\ j # 1
    <3>1. /\ b[i - 1].id = b[j - 1].id /\ i - 1 \in DOMAIN b /\ j - 1 \in DOMAIN b
          /\ g[i].id = b[i - 1].id
      BY <1>1, <1>4, <1>7, <2>3
    <3>2. i - 1 = j - 1 \/ b[i - 1].id \in X
      BY <3>1 DEF Grown
    <3> QED
      BY <1>1, <3>1, <3>2
  <2> QED
    BY <2>1, <2>2, <2>3
<1>8. ASSUME NEW i \in 2 .. n + 1
      PROVE  (\E j \in 1 .. (i - 1) : g[j].id = g[i].from) /\ g[i].id[1] = s
  <2>1. i \in 1 .. n + 1 /\ i # 1 /\ 1 \in 1 .. (i - 1)
    BY <1>1
  <2>2. i - 1 \in 1 .. n /\ g[i] = b[i - 1]
    BY <1>4, <2>1
  <2>3. CASE i - 1 = 1
    <3>1. g[i].from = Canvas!Atlas
      BY <2>2, <2>3 DEF Grown
    <3>2. g[1].id = Canvas!Atlas
      BY <1>3, <1>5
    <3> QED
      BY <1>6, <2>1, <2>2, <3>1, <3>2
  <2>4. CASE i - 1 # 1
    <3>1. i - 1 \in 2 .. n
      BY <1>1, <2>2, <2>4
    <3>2. PICK j \in 1 .. ((i - 1) - 1) : b[j].id = b[i - 1].from
      BY <3>1 DEF Grown, n
    <3>3. j \in 1 .. n /\ j + 1 \in 1 .. (i - 1)
      BY <1>1, <3>1
    <3>4. g[j + 1].id = g[i].from
      BY <1>3, <2>2, <3>2, <3>3
    <3> QED
      BY <1>6, <2>2, <3>3, <3>4
  <2> QED
    BY <2>3, <2>4
<1> QED
  BY <1>3, <1>7, <1>8 DEF Tree, g

LEMMA AtlasAlone == ASSUME NEW s, NEW X PROVE Tree(<<Whole>>, s, X)
<1> DEFINE g == <<Whole>>
<1>1. DOMAIN g = 1 .. 1 /\ Len(g) = 1
  OBVIOUS
<1> HIDE DEF g
<1>2. Tree(g, s, X)
  BY <1>1 DEF Tree
<1> QED
  BY <1>2 DEF g

\* Sequences of at most one part, laid end to end.
LEMMA FlatOfNone == Canvas!FlattenSeq(<<>>) = <<>>
  BY DEF Canvas!FlattenSeq

LEMMA FlatOfOne == ASSUME NEW b PROVE Canvas!FlattenSeq(<<b>>) = b
<1> DEFINE q == <<b>>
           step(f, i) == IF i = 1 THEN q[i] ELSE f[i - 1] \o q[i]
           flat == CHOOSE f : f = [i \in 1 .. Len(q) |-> step(f, i)]
<1>1. Len(q) = 1 /\ q[1] = b
  OBVIOUS
<1>2. Canvas!FlattenSeq(q) = flat[Len(q)]
  BY <1>1 DEF Canvas!FlattenSeq
<1> HIDE DEF q
<1>3. \A f : step(f, 1) = b
  BY <1>1
<1>4. \A f : [i \in 1 .. Len(q) |-> step(f, i)] = [i \in 1 .. 1 |-> b]
  <2> SUFFICES ASSUME NEW f, NEW i \in 1 .. 1 PROVE step(f, i) = b
    BY <1>1
  <2>1. i = 1
    OBVIOUS
  <2> QED
    BY <1>3, <2>1
<1> HIDE DEF step
<1>5. \E f : f = [i \in 1 .. Len(q) |-> step(f, i)]
  BY <1>4
<1>6. flat = [i \in 1 .. Len(q) |-> step(flat, i)]
  BY <1>5
<1>7. flat = [i \in 1 .. 1 |-> b]
  BY <1>4, <1>6
<1> HIDE DEF flat
<1>8. flat[1] = b
  BY <1>7
<1> QED
  BY <1>1, <1>2, <1>8 DEF q

\* The order of the sessions of the diagram: none, or the one selected.
LEMMA OrderOfNone == Canvas!SetToSeq({}) = <<>>
<1>1. Canvas!Cardinality({}) = 0
  BY SameCount, FS_EmptySet
<1>2. Canvas!SetToSeq({}) =
         CHOOSE f \in [1 .. 0 -> {}] : Canvas!IsInjective(f)
  BY <1>1 DEF Canvas!SetToSeq
<1>3. <<>> \in [1 .. 0 -> {}] /\ Canvas!IsInjective(<<>>)
  BY DEF Canvas!IsInjective
<1>4. \A f \in [1 .. 0 -> {}] : f = <<>>
  OBVIOUS
<1> QED
  BY <1>2, <1>3, <1>4

LEMMA OrderOfOne == ASSUME NEW s PROVE Canvas!SetToSeq({s}) = <<s>>
<1>1. Canvas!Cardinality({s}) = 1
  BY SameCount, FS_Singleton
<1>2. Canvas!SetToSeq({s}) =
         CHOOSE f \in [1 .. 1 -> {s}] : Canvas!IsInjective(f)
  BY <1>1 DEF Canvas!SetToSeq
<1>3. <<s>> \in [1 .. 1 -> {s}] /\ Canvas!IsInjective(<<s>>)
  BY DEF Canvas!IsInjective
<1>4. \A f \in [1 .. 1 -> {s}] : f = <<s>>
  OBVIOUS
<1> QED
  BY <1>2, <1>3, <1>4

LEMMA GraphIsTree ==
  ASSUME Canvas!HeardKnown, NEW q, Kept(q), NEW table, NEW s, NEW m
  PROVE  Tree(Canvas!buildSocietyGraph(table, q, s, m), s, Canvas!Alike(s, q))
<1> DEFINE live == Canvas!Isolated(Canvas!withLiveUpdates(table, q), s)
           order == Canvas!SetToSeq(DOMAIN live)
           branches == [i \in DOMAIN order |-> Canvas!Branch(order[i], live[order[i]], q, m)]
           g == Canvas!buildSocietyGraph(table, q, s, m)
<1>1. g = <<Whole>> \o Canvas!FlattenSeq(branches)
  BY DEF Canvas!buildSocietyGraph, Whole
<1>2. DOMAIN live \subseteq {s}
  BY DEF Canvas!Isolated, Canvas!Restrict
<1> HIDE DEF live, g
<1>3. CASE DOMAIN live = {}
  <2>1. order = <<>>
    BY <1>3, OrderOfNone
  <2>2. branches = <<>>
    BY <2>1
  <2> HIDE DEF branches
  <2>3. g = <<Whole>> \o <<>>
    BY <1>1, <2>2, FlatOfNone
  <2>4. <<Whole>> \in Seq({Whole})
    OBVIOUS
  <2>5. g = <<Whole>>
    BY <2>3, <2>4
  <2> QED
    BY <2>5, AtlasAlone DEF g
<1>4. CASE DOMAIN live = {s}
  <2> DEFINE b == Canvas!Branch(s, live[s], q, m)
  <2>1. order = <<s>>
    BY <1>4, OrderOfOne
  <2> HIDE DEF order
  <2>2. branches = <<b>>
    BY <2>1
  <2> HIDE DEF branches
  <2>3. Grown(b, s, Canvas!Alike(s, q))
    BY BranchGrows
  <2> HIDE DEF b
  <2>4. g = <<Whole>> \o b
    BY <1>1, <2>2, FlatOfOne
  <2> QED
    BY <2>3, <2>4, GrownIsTree DEF g
<1> QED
  BY <1>2, <1>3, <1>4

-----------------------------------------------------------------------------
(* Diagram: the canvas.                                                    *)

\* Frames are kept as they came, and those drawn were kept.
CanvasInv == heard \in Nat /\ Kept(events) /\ Kept(debouncedEvents)

LEMMA CanvasStarts == ASSUME Canvas!Init PROVE CanvasInv
  BY DEF Canvas!Init, CanvasInv, Kept

LEMMA CanvasMax ==
  ASSUME NEW i \in Int, NEW j \in Int
  PROVE  Canvas!Max({i, j}) \in {i, j} /\ Canvas!Max({i, j}) >= i
<1>1. \E x \in {i, j} : \A y \in {i, j} : x >= y
  OBVIOUS
<1>2. Canvas!Max({i, j}) \in {i, j} /\ \A y \in {i, j} : Canvas!Max({i, j}) >= y
  BY <1>1 DEF Canvas!Max
<1> QED
  BY <1>2

LEMMA CanvasHears ==
  ASSUME Canvas!BufferHolds, CanvasInv, NEW e \in Heard, Canvas!Hear(e) PROVE CanvasInv'
<1> DEFINE frame == Canvas!Framed(e, heard)
           q == Append(events, frame)
           over == Len(q) - Window + 1
           from == Canvas!Max({1, over})
<1>1. /\ heard' = heard + 1 /\ events' = SubSeq(q, from, Len(q))
      /\ debouncedEvents' = debouncedEvents
  BY DEF Canvas!Hear
<1>2. frame \in Framing /\ heard \in Nat
  BY DEF Framing, CanvasInv
<1> HIDE DEF frame
<1>3. events \in Seq(Framing)
  BY DEF CanvasInv, Kept
<1>4. q \in Seq(Framing) /\ Len(q) \in Nat
  BY <1>2, <1>3
<1> HIDE DEF q
<1>5. over \in Int /\ 1 \in Int
  BY <1>4 DEF Canvas!BufferHolds
<1> HIDE DEF over
<1>6. from \in Nat \ {0}
  <2>1. from \in {1, over} /\ from >= 1
    BY <1>5, CanvasMax
  <2> HIDE DEF from
  <2> QED
    BY <1>5, <2>1
<1> HIDE DEF from
<1>7. Kept(events')
  BY <1>1, <1>4, <1>6 DEF Kept
<1> QED
  BY <1>1, <1>2, <1>7 DEF CanvasInv

LEMMA CanvasHolds ==
  ASSUME Canvas!BufferHolds, CanvasInv, [Canvas!Next]_(Canvas!vars) PROVE CanvasInv'
<1>1. ASSUME NEW table, Canvas!Load(table) PROVE CanvasInv'
  BY <1>1 DEF Canvas!Load, CanvasInv
<1>2. ASSUME NEW e \in Heard, Canvas!Hear(e) PROVE CanvasInv'
  BY <1>2, CanvasHears
<1>3. CASE Canvas!Debounced
  <2>1. debouncedEvents' = Canvas!Of(onCanvas, events) /\ UNCHANGED <<events, heard>>
    BY <1>3 DEF Canvas!Debounced, Canvas!filteredEvents
  <2>2. Kept(Canvas!Of(onCanvas, events))
    BY KeptOf DEF CanvasInv
  <2> QED
    BY <2>1, <2>2 DEF CanvasInv
<1>4. ASSUME NEW s, Canvas!Select(s) PROVE CanvasInv'
  BY <1>4 DEF Canvas!Select, CanvasInv
<1>5. CASE UNCHANGED Canvas!vars
  BY <1>5 DEF Canvas!vars, CanvasInv
<1> QED
  BY <1>1, <1>2, <1>3, <1>4, <1>5 DEF Canvas!Next

LEMMA DrawsATree == ASSUME Canvas!HeardKnown, CanvasInv PROVE Canvas!TreeOfOneSession
<1>1. Tree(Canvas!Shown, onCanvas, Canvas!Alike(onCanvas, debouncedEvents))
  BY GraphIsTree DEF Canvas!Shown, CanvasInv
<1> QED
  BY <1>1 DEF Canvas!TreeOfOneSession, Tree

\* Whatever frames were missed, repeated or evicted, whichever sessions they tell
\* of, and however far the debounce is behind the session selected: the canvas
\* draws one tree under Atlas, of that session alone, and names two nodes alike
\* only where two decisions kept bear one name (graph.ts:173 gives none a suffix).
THEOREM CanvasIsATree == Spec => []TreeOfOneSession
<1>1. Init => CanvasInv
  BY StartsEachPart, CanvasStarts
<1>2. CanvasInv /\ [Next]_vars => CanvasInv'
  BY MovesOnePart, CanvasHolds, InputsAreKnown
<1>3. CanvasInv => TreeOfOneSession
  BY DrawsATree, InputsAreKnown DEF TreeOfOneSession
<1> QED
  BY <1>1, <1>2, <1>3, PTL DEF Spec
=============================================================================
