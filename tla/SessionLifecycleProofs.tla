----------------------- MODULE SessionLifecycleProofs -----------------------
(***************************************************************************)
(* Theorems about the queue with its registry (SessionQueue), for all      *)
(* lanes and every bound, and about the lifecycle of the sessions that is  *)
(* built on them (SessionLifecycle), for all clients and requests.         *)
(***************************************************************************)
EXTENDS SessionLifecycle, SequenceTheorems, FiniteSetTheorems, TLAPS

\* What shifting a lane leaves is a lane, made of sessions of that lane.
LEMMA AfterIsLane ==
  ASSUME NEW S, NEW lane \in Seq(S), NEW i \in DOMAIN lane
  PROVE  /\ After(lane, i) \in Seq(S)
         /\ \A k \in DOMAIN After(lane, i) :
              \E j \in DOMAIN lane : After(lane, i)[k] = lane[j]
<1>1. i + 1 \in 1 .. Len(lane) + 1 /\ Len(lane) \in Nat
  OBVIOUS
<1>2. /\ After(lane, i) \in Seq(S)
      /\ Len(After(lane, i)) = IF i + 1 <= Len(lane) THEN Len(lane) - i ELSE 0
      /\ \A k \in 1 .. Len(After(lane, i)) : After(lane, i)[k] = lane[i + k]
  BY <1>1, SubSeqProperties DEF After
<1>3. ASSUME NEW k \in DOMAIN After(lane, i)
      PROVE  \E j \in DOMAIN lane : After(lane, i)[k] = lane[j]
  <2>1. k \in 1 .. Len(After(lane, i))
    BY <1>2, <1>3
  <2>2. i + k \in DOMAIN lane
    BY <1>1, <1>2, <2>1
  <2>3. QED
    BY <1>2, <2>1, <2>2
<1>4. QED
  BY <1>2, <1>3

-----------------------------------------------------------------------------
(* Type correctness.                                                       *)

\* The steps of the queue, whatever is fair: what is proved of them holds of the
\* queue, and of every system whose steps are steps of the queue.
Steps == Init /\ [][Next]_vars

LaneTypes(std, int, events) ==
  /\ std \in Seq(Standard)
  /\ int \in Seq(Interactive)
  /\ events \in Seq(Event)

\* However the pump loop ends, it leaves a state of the right type.
LEMMA PumpLoopTypes ==
  ASSUME TypeOK, NEW reg, NEW std, NEW int, NEW events,
         LaneTypes(std, int, events), PumpLoop(reg, std, int, events)
  PROVE  /\ standard' \in Seq(Standard)
         /\ interactive' \in Seq(Interactive)
         /\ consecutive' \in Nat
         /\ active' \in Session \cup {NoSession}
         /\ running' = (active' # NoSession)
         /\ wire' \in Seq(Event)
         /\ bypassed' \in [Standard -> Nat]
         /\ rejected' \in BOOLEAN
<1> USE NoSessionFresh DEF LaneTypes
<1>r. rejected' \in BOOLEAN
  BY DEF PumpLoop
<1>0. <<>> \in Seq(Standard) /\ <<>> \in Seq(Interactive)
  OBVIOUS
<1>1. CASE BeginInteractive(reg, std, int, events)
  <2>1. PICK i \in DOMAIN int :
          /\ standard' = IF InteractiveTurn(consecutive) THEN std ELSE <<>>
          /\ interactive' = After(int, i)
          /\ consecutive' = consecutive + 1
          /\ running' = TRUE
          /\ active' = int[i]
          /\ wire' = Append(events, On("started", int[i]))
          /\ bypassed' = [s \in Standard |->
                            IF \E j \in Live(reg, std) : std[j] = s
                            THEN bypassed[s] + 1 ELSE bypassed[s]]
    BY <1>1 DEF BeginInteractive
  <2>2. int[i] \in Interactive
    OBVIOUS
  <2>3. On("started", int[i]) \in Event
    BY <2>2 DEF On, Event, Session
  <2>4. wire' \in Seq(Event)
    BY <2>1, <2>3
  <2>5. interactive' \in Seq(Interactive)
    BY <2>1, AfterIsLane
  <2>6. standard' \in Seq(Standard)
    BY <2>1, <1>0
  <2>7. bypassed' \in [Standard -> Nat]
    BY <2>1 DEF TypeOK
  <2>8. active' \in Session /\ active' # NoSession
    BY <2>1, <2>2 DEF Session
  <2>9. running' = (active' # NoSession)
    BY <2>1, <2>8
  <2>10. consecutive' \in Nat
    BY <2>1 DEF TypeOK
  <2>11. QED
    BY <1>r, <2>4, <2>5, <2>6, <2>7, <2>8, <2>9, <2>10
<1>2. CASE BeginStandard(reg, std, int, events)
  <2>1. PICK i \in DOMAIN std :
          /\ standard' = After(std, i)
          /\ interactive' = IF InteractiveTurn(consecutive) THEN <<>> ELSE int
          /\ consecutive' = 0
          /\ running' = TRUE
          /\ active' = std[i]
          /\ wire' = Append(events, On("started", std[i]))
          /\ bypassed' = [s \in Standard |-> 0]
    BY <1>2 DEF BeginStandard
  <2>2. std[i] \in Standard
    OBVIOUS
  <2>3. On("started", std[i]) \in Event
    BY <2>2 DEF On, Event, Session
  <2>4. wire' \in Seq(Event)
    BY <2>1, <2>3
  <2>5. standard' \in Seq(Standard)
    BY <2>1, AfterIsLane
  <2>6. interactive' \in Seq(Interactive)
    BY <2>1, <1>0
  <2>7. active' \in Session /\ active' # NoSession
    BY <2>1, <2>2 DEF Session
  <2>8. running' = (active' # NoSession)
    BY <2>1, <2>7
  <2>9. bypassed' \in [Standard -> Nat] /\ consecutive' \in Nat
    BY <2>1
  <2>10. QED
    BY <1>r, <2>4, <2>5, <2>6, <2>7, <2>8, <2>9
<1>3. CASE Drained(reg, std, int, events)
  BY <1>r, <1>0, <1>3 DEF Drained, TypeOK
<1>4. QED
  BY <1>1, <1>2, <1>3 DEF PumpLoop

\* The pump closes a session with at most one event, and an event of the wire.
LEMMA CloseEventsType ==
  ASSUME NEW s \in Session PROVE CloseEvents(s) \in Seq(Event)
<1>1. CASE registry[s] \in Closing
  <2>1. On(registry[s], s) \in Event
    BY <1>1 DEF On, Event
  <2>2. QED
    BY <1>1, <2>1 DEF CloseEvents
<1>2. CASE registry[s] \notin Closing
  BY <1>2 DEF CloseEvents
<1>3. QED
  BY <1>1, <1>2

LEMMA TypeStep == TypeOK /\ [Next]_vars => TypeOK'
<1> SUFFICES ASSUME TypeOK, [Next]_vars PROVE TypeOK'
  OBVIOUS
<1>1. ASSUME NEW s \in Session, Declare(s) PROVE TypeOK'
  <2> DEFINE std == IF s \in Standard THEN Push(standard, s) ELSE standard
             int == IF s \in Interactive THEN Push(interactive, s) ELSE interactive
             events == Append(wire, On("queued", s))
  <2>1. On("queued", s) \in Event
    BY DEF On, Event
  <2>2. LaneTypes(std, int, events)
    BY <2>1 DEF LaneTypes, Push, TypeOK
  <2>3. registry' \in [Session -> Status]
    BY <1>1 DEF Declare, TypeOK, Status
  <2>4. CASE running
    BY <1>1, <2>2, <2>3, <2>4 DEF Declare, LaneTypes, TypeOK
  <2>5. CASE ~running
    <3>1. PumpLoop(registry', std, int, events) /\ unclosed' = unclosed
      BY <1>1, <2>5 DEF Declare
    <3>2. QED
      BY <2>2, <2>3, <3>1, PumpLoopTypes DEF TypeOK
  <2>6. QED
    BY <2>4, <2>5
<1>2. ASSUME NEW s \in Session, Cancel(s) PROVE TypeOK'
  BY <1>2 DEF Cancel, TypeOK, Status
<1>3. CASE Start
  BY <1>3 DEF Start, TypeOK, Status
<1>4. ASSUME NEW o \in {"succeeded", "failed", "parked"}, Finish(o) PROVE TypeOK'
  BY <1>4 DEF Finish, TypeOK, Status
<1>5. CASE Return
  <2>1. active \in Session
    BY <1>5 DEF Return, TypeOK
  <2>2. CloseEvents(active) \in Seq(Event)
    BY <2>1, CloseEventsType
  <2>3. LaneTypes(standard, interactive, wire \o CloseEvents(active))
    BY <2>2 DEF LaneTypes, TypeOK
  <2>4. /\ PumpLoop(registry, standard, interactive, wire \o CloseEvents(active))
        /\ registry' = registry
    BY <1>5 DEF Return
  <2>5. unclosed' \subseteq Session
    BY <1>5, <2>1 DEF Return, TypeOK
  <2>6. QED
    BY <2>3, <2>4, <2>5, PumpLoopTypes DEF TypeOK
<1>6. CASE Reject
  BY <1>6 DEF Reject, TypeOK
<1>7. CASE UNCHANGED vars
  BY <1>7 DEF vars, TypeOK
<1>8. QED
  BY <1>1, <1>2, <1>3, <1>4, <1>5, <1>6, <1>7 DEF Next, Runner

LEMMA TypeAtStart == Init => TypeOK
<1> SUFFICES ASSUME Init PROVE TypeOK
  OBVIOUS
<1>1. standard \in Seq(Standard) /\ interactive \in Seq(Interactive) /\ wire \in Seq(Event)
  BY DEF Init
<1>2. registry \in [Session -> Status] /\ bypassed \in [Standard -> Nat]
  BY DEF Init, Status
<1>3. running = (active # NoSession)
  BY DEF Init
<1>4. QED
  BY <1>1, <1>2, <1>3 DEF Init, TypeOK

LEMMA TypeOKHolds == Steps => []TypeOK
BY TypeAtStart, TypeStep, PTL DEF Steps

\* The type invariant of the queue, and that the pump holds its flag exactly
\* while it awaits a runner.
THEOREM TypeCorrect == Spec => []TypeOK
BY TypeOKHolds, PTL DEF Spec, Steps

-----------------------------------------------------------------------------
(* The fairness bound.                                                     *)

\* Nobody is overtaken before being declared, and a waiting standard session
\* was overtaken at most as often as the counter says, and never more often
\* than the bound (the counter itself may pass the bound while no standard
\* session waits, so BypassBound alone is not inductive).
WaitsWithin(reg, std, by, c) ==
  /\ \A s \in Standard : reg[s] = "absent" => by[s] = 0
  /\ \A i \in DOMAIN std :
       Runnable(reg, std[i]) => by[std[i]] <= c /\ by[std[i]] <= MaxConsecutive

BypassInv == WaitsWithin(registry, standard, bypassed, consecutive)

\* The pump loop keeps the bound, whatever the lanes and the registry.
LEMMA PumpLoopKeepsBound ==
  ASSUME TypeOK, NEW reg, NEW std, NEW int, NEW events,
         LaneTypes(std, int, events), PumpLoop(reg, std, int, events),
         WaitsWithin(reg, std, bypassed, consecutive)
  PROVE  WaitsWithin(reg, standard', bypassed', consecutive')
<1> USE BoundPositive DEF LaneTypes
<1>1. CASE BeginInteractive(reg, std, int, events)
  <2>1. PICK i \in DOMAIN int :
          /\ InteractiveTurn(consecutive) \/ Live(reg, std) = {}
          /\ standard' = IF InteractiveTurn(consecutive) THEN std ELSE <<>>
          /\ consecutive' = consecutive + 1
          /\ bypassed' = [s \in Standard |->
                            IF \E j \in Live(reg, std) : std[j] = s
                            THEN bypassed[s] + 1 ELSE bypassed[s]]
    BY <1>1 DEF BeginInteractive
  <2>2. ASSUME NEW s \in Standard, reg[s] = "absent"
        PROVE  bypassed'[s] = 0
    <3>1. ~ \E j \in Live(reg, std) : std[j] = s
      BY <2>2 DEF Live, Runnable
    <3>2. QED
      BY <2>1, <2>2, <3>1 DEF WaitsWithin
  <2>3. ASSUME NEW k \in DOMAIN standard', Runnable(reg, standard'[k])
        PROVE  /\ bypassed'[standard'[k]] <= consecutive'
               /\ bypassed'[standard'[k]] <= MaxConsecutive
    <3>1. standard' = std /\ k \in DOMAIN std
      BY <2>1, <2>3
    <3>2. k \in Live(reg, std)
      BY <2>3, <3>1 DEF Live
    <3>3. consecutive < MaxConsecutive
      BY <2>1, <3>2 DEF InteractiveTurn
    <3>4. bypassed'[std[k]] = bypassed[std[k]] + 1
      BY <2>1, <3>1, <3>2
    <3>5. bypassed[std[k]] <= consecutive
      BY <2>3, <3>1 DEF WaitsWithin
    <3>6. bypassed[std[k]] \in Nat /\ consecutive \in Nat
      BY <3>1 DEF TypeOK
    <3>7. QED
      BY <2>1, <3>1, <3>3, <3>4, <3>5, <3>6
  <2>4. QED
    BY <2>2, <2>3 DEF WaitsWithin
<1>2. CASE BeginStandard(reg, std, int, events)
  <2>1. PICK i \in DOMAIN std :
          /\ standard' = After(std, i)
          /\ consecutive' = 0
          /\ bypassed' = [s \in Standard |-> 0]
    BY <1>2 DEF BeginStandard
  <2>2. ASSUME NEW k \in DOMAIN standard' PROVE standard'[k] \in Standard
    BY <2>1, <2>2, AfterIsLane
  <2>3. QED
    BY <2>1, <2>2 DEF WaitsWithin
<1>3. CASE Drained(reg, std, int, events)
  BY <1>3 DEF Drained, WaitsWithin
<1>4. QED
  BY <1>1, <1>2, <1>3 DEF PumpLoop

LEMMA BypassBoundHolds == Steps => []BypassBound
<1>1. Init => BypassInv
  BY DEF Init, BypassInv, WaitsWithin
<1>2. TypeOK /\ BypassInv /\ [Next]_vars => BypassInv'
  <2> SUFFICES ASSUME TypeOK, BypassInv, [Next]_vars PROVE BypassInv'
    OBVIOUS
  <2>1. ASSUME NEW s \in Session, Declare(s) PROVE BypassInv'
    <3> DEFINE std == IF s \in Standard THEN Push(standard, s) ELSE standard
               int == IF s \in Interactive THEN Push(interactive, s) ELSE interactive
               events == Append(wire, On("queued", s))
    <3>1. On("queued", s) \in Event
      BY DEF On, Event
    <3>2. LaneTypes(std, int, events)
      BY <3>1 DEF LaneTypes, Push, TypeOK
    <3>3. WaitsWithin(registry', std, bypassed, consecutive)
      <4>1. registry[s] = "absent" /\ registry' = [registry EXCEPT ![s] = "queued"]
        BY <2>1 DEF Declare
      <4>2. ASSUME NEW t \in Standard, registry'[t] = "absent" PROVE bypassed[t] = 0
        BY <4>1, <4>2 DEF BypassInv, WaitsWithin, TypeOK, Session
      <4>3. ASSUME NEW i \in DOMAIN std, Runnable(registry', std[i])
            PROVE  bypassed[std[i]] <= consecutive /\ bypassed[std[i]] <= MaxConsecutive
        <5>1. std[i] \in Standard
          BY <3>2 DEF LaneTypes
        <5>2. CASE std[i] = s
          <6>1. bypassed[std[i]] = 0
            BY <4>1, <5>1, <5>2 DEF BypassInv, WaitsWithin
          <6>2. QED
            BY <6>1, BoundPositive DEF TypeOK
        <5>3. CASE std[i] # s
          <6>1. i \in DOMAIN standard /\ std[i] = standard[i]
            BY <5>3 DEF Push, TypeOK
          <6>2. registry'[std[i]] = registry[std[i]]
            BY <4>1, <5>1, <5>3 DEF TypeOK, Session
          <6>3. QED
            BY <4>3, <6>1, <6>2 DEF BypassInv, WaitsWithin, Runnable
        <5>4. QED
          BY <5>2, <5>3
      <4>4. QED
        BY <4>2, <4>3 DEF WaitsWithin
    <3>4. CASE running
      BY <2>1, <3>3, <3>4 DEF Declare, BypassInv
    <3>5. CASE ~running
      <4>1. PumpLoop(registry', std, int, events)
        BY <2>1, <3>5 DEF Declare
      <4>2. QED
        BY <3>2, <3>3, <4>1, PumpLoopKeepsBound DEF BypassInv
    <3>6. QED
      BY <3>4, <3>5
  <2>2. ASSUME NEW s \in Session, registry[s] \notin {"absent", "cancelled"},
               NEW new \in Status \ {"absent"},
               registry' = [registry EXCEPT ![s] = new],
               UNCHANGED <<standard, bypassed, consecutive>>
        PROVE  BypassInv'
    <3>1. ASSUME NEW t \in Standard, registry'[t] = "absent" PROVE bypassed'[t] = 0
      BY <2>2, <3>1 DEF BypassInv, WaitsWithin, TypeOK, Session
    <3>2. ASSUME NEW i \in DOMAIN standard, Runnable(registry', standard[i])
          PROVE  Runnable(registry, standard[i])
      BY <2>2, <3>2 DEF Runnable, TypeOK, Session
    <3>3. QED
      BY <2>2, <3>1, <3>2 DEF BypassInv, WaitsWithin
  <2>3. ASSUME NEW s \in Session, Cancel(s) PROVE BypassInv'
    BY <2>2, <2>3 DEF Cancel, Status
  <2>4. CASE Start
    BY <2>2, <2>4 DEF Start, Status, TypeOK
  <2>5. ASSUME NEW o \in {"succeeded", "failed", "parked"}, Finish(o)
        PROVE  BypassInv'
    BY <2>2, <2>5 DEF Finish, Status, TypeOK
  <2>6. CASE Return
    <3>1. active \in Session
      BY <2>6 DEF Return, TypeOK
    <3>2. CloseEvents(active) \in Seq(Event)
      BY <3>1, CloseEventsType
    <3>3. LaneTypes(standard, interactive, wire \o CloseEvents(active))
      BY <3>2 DEF LaneTypes, TypeOK
    <3>4. /\ PumpLoop(registry, standard, interactive, wire \o CloseEvents(active))
          /\ registry' = registry
      BY <2>6 DEF Return
    <3>5. WaitsWithin(registry, standard', bypassed', consecutive')
      BY <3>3, <3>4, PumpLoopKeepsBound DEF BypassInv
    <3>6. QED
      BY <3>4, <3>5 DEF BypassInv
  <2>7. CASE Reject
    BY <2>7 DEF Reject, BypassInv
  <2>8. CASE UNCHANGED vars
    BY <2>8 DEF vars, BypassInv
  <2>9. QED
    BY <2>1, <2>3, <2>4, <2>5, <2>6, <2>7, <2>8 DEF Next, Runner
<1>3. BypassInv => BypassBound
  BY DEF BypassInv, WaitsWithin, BypassBound
<1>4. QED
  BY <1>1, <1>2, <1>3, TypeOKHolds, PTL DEF Steps

\* While a standard session waits, at most MaxConsecutive interactive sessions
\* begin before a standard one does: the comment on MAX_CONSECUTIVE_INTERACTIVE.
THEOREM StandardLaneIsNotStarved == Spec => []BypassBound
BY BypassBoundHolds, PTL DEF Spec, Steps

-----------------------------------------------------------------------------
(* The wire.                                                               *)

\* Happened and QueuedBefore, of any sequence of events.
Occurs(w, type, s) == \E i \in DOMAIN w : w[i] = On(type, s)
Elder(w, s, t) ==
  \E i, j \in DOMAIN w : i < j /\ w[i] = On("queued", s) /\ w[j] = On("queued", t)

\* The wire is only ever appended to.
LEMMA WireGrows ==
  ASSUME NEW w \in Seq(Event), NEW e \in Event
  PROVE  /\ Append(w, e) \in Seq(Event)
         /\ Len(w) \in Nat /\ DOMAIN w = 1 .. Len(w)
         /\ DOMAIN Append(w, e) = 1 .. Len(w) + 1
         /\ \A i \in DOMAIN w : Append(w, e)[i] = w[i] /\ w[i] \in Event
         /\ Append(w, e)[Len(w) + 1] = e
  OBVIOUS

LEMMA OnIs ==
  ASSUME NEW e \in Event, NEW type, NEW s
  PROVE  /\ e = On(type, s) <=> e.type = type /\ e.session = s
         /\ On(type, s).type = type /\ On(type, s).session = s
  BY DEF Event, On

LEMMA OccursGrows ==
  ASSUME NEW w \in Seq(Event), NEW e \in Event, NEW type, NEW s
  PROVE  Occurs(Append(w, e), type, s) <=> Occurs(w, type, s) \/ e = On(type, s)
  BY WireGrows DEF Occurs

LEMMA ElderOccurs ==
  ASSUME NEW w, NEW s, NEW t, Elder(w, s, t)
  PROVE  Occurs(w, "queued", s) /\ Occurs(w, "queued", t)
  BY DEF Elder, Occurs

LEMMA ElderGrows ==
  ASSUME NEW w \in Seq(Event), NEW e \in Event, NEW s, NEW t
  PROVE  Elder(Append(w, e), s, t)
           <=> Elder(w, s, t) \/ (e = On("queued", t) /\ Occurs(w, "queued", s))
<1> DEFINE v == Append(w, e)
<1>0. /\ Len(w) \in Nat /\ DOMAIN w = 1 .. Len(w) /\ DOMAIN v = 1 .. Len(w) + 1
      /\ \A i \in DOMAIN w : v[i] = w[i]
      /\ v[Len(w) + 1] = e
  BY WireGrows
<1> HIDE DEF v
<1>1. ASSUME Elder(v, s, t)
      PROVE  Elder(w, s, t) \/ (e = On("queued", t) /\ Occurs(w, "queued", s))
  <2>1. PICK i \in DOMAIN v, j \in DOMAIN v :
          i < j /\ v[i] = On("queued", s) /\ v[j] = On("queued", t)
    BY <1>1 DEF Elder
  <2>2. i \in DOMAIN w /\ w[i] = On("queued", s)
    BY <1>0, <2>1
  <2>3. CASE j = Len(w) + 1
    BY <1>0, <2>1, <2>2, <2>3 DEF Occurs
  <2>4. CASE j # Len(w) + 1
    BY <1>0, <2>1, <2>2, <2>4 DEF Elder
  <2>5. QED
    BY <2>3, <2>4
<1>2. ASSUME Elder(w, s, t) PROVE Elder(v, s, t)
  BY <1>0, <1>2 DEF Elder
<1>3. ASSUME e = On("queued", t), Occurs(w, "queued", s) PROVE Elder(v, s, t)
  <2>1. PICK i \in DOMAIN w : w[i] = On("queued", s)
    BY <1>3 DEF Occurs
  <2>2. i \in DOMAIN v /\ Len(w) + 1 \in DOMAIN v /\ i < Len(w) + 1
    BY <1>0, <2>1
  <2>3. QED
    BY <1>0, <1>3, <2>1, <2>2 DEF Elder
<1>4. QED
  BY <1>1, <1>2, <1>3 DEF v

\* What the pump adds when a run returns: nothing, or the event that closes it.
LEMMA ClosingAdds ==
  ASSUME NEW w \in Seq(Event), NEW s \in Session
  PROVE  /\ registry[s] \in Closing => /\ On(registry[s], s) \in Event
                                       /\ w \o CloseEvents(s) = Append(w, On(registry[s], s))
         /\ registry[s] \notin Closing => w \o CloseEvents(s) = w
<1>1. CASE registry[s] \in Closing
  <2>1. On(registry[s], s) \in Event
    BY <1>1 DEF On, Event
  <2>2. w \o <<On(registry[s], s)>> = Append(w, On(registry[s], s))
    BY <2>1, AppendIsConcat
  <2>3. QED
    BY <1>1, <2>1, <2>2 DEF CloseEvents
<1>2. CASE registry[s] \notin Closing
  BY <1>2, ConcatEmptySeq DEF CloseEvents
<1>3. QED
  BY <1>1, <1>2

\* All the pump loop does to the wire: it says which session starts, if any.
LEMMA PumpLoopWire ==
  ASSUME TypeOK, NEW reg, NEW std, NEW int, NEW events,
         LaneTypes(std, int, events), PumpLoop(reg, std, int, events)
  PROVE  \/ active' = NoSession /\ wire' = events
         \/ /\ active' \in Session
            /\ Runnable(reg, active')
            /\ On("started", active') \in Event
            /\ wire' = Append(events, On("started", active'))
<1> USE DEF LaneTypes, Session, On, Event
<1>1. CASE BeginInteractive(reg, std, int, events)
  BY <1>1 DEF BeginInteractive, IsFirstLive, Live
<1>2. CASE BeginStandard(reg, std, int, events)
  BY <1>2 DEF BeginStandard, IsFirstLive, Live
<1>3. CASE Drained(reg, std, int, events)
  BY <1>3 DEF Drained
<1>4. QED
  BY <1>1, <1>2, <1>3 DEF PumpLoop

-----------------------------------------------------------------------------
(* Terminal from registry.                                                 *)

\* What one event of the wire says of the end of its session holds in reg.
EndHolds(reg, e) ==
  /\ e.type \in {"succeeded", "failed", "cancelled"} => reg[e.session] = e.type
  /\ e.type = "parked" => reg[e.session] \in {"parked", "cancelled"}

EndsHold(reg, w) == \A i \in DOMAIN w : EndHolds(reg, w[i])

LEMMA EndsHoldGrows ==
  ASSUME NEW reg, NEW w \in Seq(Event), NEW e \in Event, EndsHold(reg, w), EndHolds(reg, e)
  PROVE  EndsHold(reg, Append(w, e))
BY WireGrows DEF EndsHold

LEMMA PumpLoopKeepsEnds ==
  ASSUME TypeOK, NEW reg, NEW std, NEW int, NEW events,
         LaneTypes(std, int, events), PumpLoop(reg, std, int, events),
         EndsHold(reg, events)
  PROVE  EndsHold(reg, wire')
<1>1. CASE wire' = events
  BY <1>1
<1>2. CASE /\ On("started", active') \in Event
           /\ wire' = Append(events, On("started", active'))
  <2>1. EndHolds(reg, On("started", active'))
    BY DEF EndHolds, On
  <2>2. QED
    BY <1>2, <2>1, EndsHoldGrows DEF LaneTypes
<1>3. QED
  BY <1>1, <1>2, PumpLoopWire

LEMMA TerminalFromRegistryHolds == Steps => []TerminalFromRegistry
<1>0. TerminalFromRegistry <=> EndsHold(registry, wire)
  BY DEF TerminalFromRegistry, EndsHold, EndHolds
<1>1. Init => EndsHold(registry, wire)
  BY DEF Init, EndsHold
<1>2. TypeOK /\ EndsHold(registry, wire) /\ [Next]_vars => EndsHold(registry, wire)'
  <2> SUFFICES ASSUME TypeOK, EndsHold(registry, wire), [Next]_vars
               PROVE  EndsHold(registry', wire')
    OBVIOUS
  <2>0. ASSUME NEW s \in Session,
               \A t \in Session \ {s} : registry'[t] = registry[t],
               \/ registry[s] \in {"absent", "queued", "running"}
               \/ registry[s] = "parked" /\ registry'[s] = "cancelled"
        PROVE  EndsHold(registry', wire)
    <3>1. ASSUME NEW i \in DOMAIN wire PROVE EndHolds(registry', wire[i])
      <4>1. wire[i] \in Event /\ EndHolds(registry, wire[i])
        BY <3>1 DEF TypeOK, EndsHold
      <4>2. wire[i].session \in Session
        BY <4>1 DEF Event
      <4>3. CASE wire[i].session = s
        BY <2>0, <4>1, <4>3 DEF EndHolds, TypeOK
      <4>4. CASE wire[i].session # s
        BY <2>0, <4>1, <4>2, <4>4 DEF EndHolds, TypeOK
      <4>5. QED
        BY <4>3, <4>4
    <3>2. QED
      BY <3>1 DEF EndsHold
  <2>1. ASSUME NEW s \in Session, Declare(s) PROVE EndsHold(registry', wire')
    <3> DEFINE std == IF s \in Standard THEN Push(standard, s) ELSE standard
               int == IF s \in Interactive THEN Push(interactive, s) ELSE interactive
               events == Append(wire, On("queued", s))
    <3>1. On("queued", s) \in Event
      BY DEF On, Event
    <3>2. LaneTypes(std, int, events)
      BY <3>1 DEF LaneTypes, Push, TypeOK
    <3>3. EndsHold(registry', wire)
      <4>1. registry[s] = "absent" /\ registry' = [registry EXCEPT ![s] = "queued"]
        BY <2>1 DEF Declare
      <4>2. QED
        BY <2>0, <4>1 DEF TypeOK
    <3>4. EndHolds(registry', On("queued", s))
      BY DEF EndHolds, On
    <3>5. EndsHold(registry', events)
      BY <3>1, <3>3, <3>4, EndsHoldGrows DEF TypeOK
    <3>6. CASE running
      BY <2>1, <3>5, <3>6 DEF Declare
    <3>7. CASE ~running
      <4>1. PumpLoop(registry', std, int, events)
        BY <2>1, <3>7 DEF Declare
      <4>2. QED
        BY <3>2, <3>5, <4>1, PumpLoopKeepsEnds
    <3>8. QED
      BY <3>6, <3>7
  <2>2. ASSUME NEW s \in Session, Cancel(s) PROVE EndsHold(registry', wire')
    BY <2>0, <2>2 DEF Cancel, TypeOK
  <2>3. CASE Start
    <3>1. /\ active \in Session
          /\ registry[active] = "queued"
          /\ registry' = [registry EXCEPT ![active] = "running"]
          /\ wire' = wire
      BY <2>3 DEF Start, TypeOK
    <3>2. QED
      BY <2>0, <3>1 DEF TypeOK
  <2>4. ASSUME NEW o \in {"succeeded", "failed", "parked"}, Finish(o)
        PROVE  EndsHold(registry', wire')
    <3>1. /\ active \in Session
          /\ registry[active] = "running"
          /\ registry' = [registry EXCEPT ![active] = o]
          /\ wire' = wire
      BY <2>4 DEF Finish, TypeOK
    <3>2. QED
      BY <2>0, <3>1 DEF TypeOK
  <2>5. CASE Return
    <3> DEFINE events == wire \o CloseEvents(active)
    <3>1. active \in Session
      BY <2>5 DEF Return, TypeOK
    <3>2. LaneTypes(standard, interactive, events)
      BY <3>1, CloseEventsType DEF LaneTypes, TypeOK
    <3>3. EndsHold(registry, events)
      <4>1. CASE registry[active] \in Closing
        <5>1. EndHolds(registry, On(registry[active], active))
          BY <4>1 DEF EndHolds, On
        <5>2. QED
          BY <3>1, <4>1, <5>1, ClosingAdds, EndsHoldGrows DEF TypeOK
      <4>2. CASE registry[active] \notin Closing
        BY <3>1, <4>2, ClosingAdds DEF TypeOK
      <4>3. QED
        BY <4>1, <4>2
    <3>4. PumpLoop(registry, standard, interactive, events) /\ registry' = registry
      BY <2>5 DEF Return
    <3>5. QED
      BY <3>2, <3>3, <3>4, PumpLoopKeepsEnds
  <2>6. CASE Reject
    BY <2>6 DEF Reject
  <2>7. CASE UNCHANGED vars
    BY <2>7 DEF vars
  <2>8. QED
    BY <2>1, <2>2, <2>3, <2>4, <2>5, <2>6, <2>7 DEF Next, Runner
<1>3. QED
  BY <1>0, <1>1, <1>2, TypeOKHolds, PTL DEF Steps

\* What the wire says of a session's end is what the registry holds, then and
\* ever after: the registry lets nothing out of a terminal status, and of a
\* parked session makes a cancelled one at most.
THEOREM WireEndsAsTheRegistry == Spec => []TerminalFromRegistry
BY TerminalFromRegistryHolds, PTL DEF Spec, Steps

-----------------------------------------------------------------------------
(* One session at a time.                                                  *)

Closes(w, i, k) == w[k].session = w[i].session /\ w[k].type \in Closing

\* SerialOnWire, of any sequence of events: u are the sessions never closed.
Serial(w, u) ==
  \A i, j \in DOMAIN w :
    i < j /\ w[i].type = "started" /\ w[j].type = "started"
      => w[i].session \in u \/ \E k \in i + 1 .. j - 1 : Closes(w, i, k)

\* Every start was closed since, but those of the sessions in u.
ClosedBut(w, u) ==
  \A i \in DOMAIN w :
    w[i].type = "started"
      => w[i].session \in u \/ \E k \in DOMAIN w : i < k /\ Closes(w, i, k)

LEMMA OtherEventKeepsSerial ==
  ASSUME NEW w \in Seq(Event), NEW e \in Event, NEW u, NEW a, e.type # "started",
         Serial(w, u), ClosedBut(w, u \cup {a})
  PROVE  /\ Serial(Append(w, e), u) /\ ClosedBut(Append(w, e), u \cup {a})
         /\ e.session = a /\ e.type \in Closing => ClosedBut(Append(w, e), u)
<1> DEFINE v == Append(w, e)
<1>0. /\ Len(w) \in Nat /\ DOMAIN w = 1 .. Len(w) /\ DOMAIN v = 1 .. Len(w) + 1
      /\ \A i \in DOMAIN w : v[i] = w[i]
      /\ v[Len(w) + 1] = e
  BY WireGrows
<1> HIDE DEF v
<1>1. ASSUME NEW i \in DOMAIN v, v[i].type = "started"
      PROVE  i \in DOMAIN w /\ v[i] = w[i]
  BY <1>0, <1>1
<1>2. Serial(v, u)
  <2> SUFFICES ASSUME NEW i \in DOMAIN v, NEW j \in DOMAIN v,
                      i < j, v[i].type = "started", v[j].type = "started",
                      v[i].session \notin u
               PROVE  \E k \in i + 1 .. j - 1 : Closes(v, i, k)
    BY DEF Serial
  <2>1. PICK k \in i + 1 .. j - 1 : Closes(w, i, k)
    BY <1>1 DEF Serial
  <2>2. v[k] = w[k] /\ v[i] = w[i]
    BY <1>0, <1>1, <2>1
  <2>3. QED
    BY <2>1, <2>2 DEF Closes
<1>3. ASSUME NEW i \in DOMAIN v, v[i].type = "started"
      PROVE  v[i].session \in u \cup {a} \/ \E k \in DOMAIN v : i < k /\ Closes(v, i, k)
  <2>1. w[i].session \in u \cup {a} \/ \E k \in DOMAIN w : i < k /\ Closes(w, i, k)
    BY <1>1, <1>3 DEF ClosedBut
  <2>2. ASSUME NEW k \in DOMAIN w, i < k, Closes(w, i, k)
        PROVE  k \in DOMAIN v /\ Closes(v, i, k)
    BY <1>0, <1>1, <1>3, <2>2 DEF Closes
  <2>3. QED
    BY <1>1, <1>3, <2>1, <2>2
<1>4. ASSUME e.session = a, e.type \in Closing,
             NEW i \in DOMAIN v, v[i].type = "started", v[i].session \notin u
      PROVE  \E k \in DOMAIN v : i < k /\ Closes(v, i, k)
  <2>1. CASE v[i].session = a
    <3>1. Len(w) + 1 \in DOMAIN v /\ i < Len(w) + 1
      BY <1>0, <1>1, <1>4
    <3>2. Closes(v, i, Len(w) + 1)
      BY <1>0, <1>4, <2>1 DEF Closes
    <3>3. QED
      BY <3>1, <3>2
  <2>2. CASE v[i].session # a
    BY <1>3, <1>4, <2>2
  <2>3. QED
    BY <2>1, <2>2
<1>5. QED
  BY <1>2, <1>3, <1>4 DEF ClosedBut, v

LEMMA StartKeepsSerial ==
  ASSUME NEW w \in Seq(Event), NEW s, On("started", s) \in Event,
         NEW u, Serial(w, u), ClosedBut(w, u)
  PROVE  /\ Serial(Append(w, On("started", s)), u)
         /\ ClosedBut(Append(w, On("started", s)), u \cup {s})
<1> DEFINE e == On("started", s)
           v == Append(w, e)
<1>0. /\ Len(w) \in Nat /\ DOMAIN w = 1 .. Len(w) /\ DOMAIN v = 1 .. Len(w) + 1
      /\ \A i \in DOMAIN w : v[i] = w[i]
      /\ v[Len(w) + 1] = e
  BY WireGrows
<1>1. e.session = s
  BY DEF On
<1> HIDE DEF v, e
<1>2. ASSUME NEW i \in DOMAIN w, w[i].type = "started", w[i].session \notin u
      PROVE  \E k \in DOMAIN w : i < k /\ Closes(w, i, k)
  BY <1>2 DEF ClosedBut
<1>3. Serial(v, u)
  <2> SUFFICES ASSUME NEW i \in DOMAIN v, NEW j \in DOMAIN v,
                      i < j, v[i].type = "started", v[j].type = "started",
                      v[i].session \notin u
               PROVE  \E k \in i + 1 .. j - 1 : Closes(v, i, k)
    BY DEF Serial
  <2>1. i \in DOMAIN w /\ v[i] = w[i]
    BY <1>0
  <2>2. CASE j \in DOMAIN w
    <3>1. PICK k \in i + 1 .. j - 1 : Closes(w, i, k)
      BY <1>0, <2>1, <2>2 DEF Serial
    <3>2. v[k] = w[k]
      BY <1>0, <2>1, <2>2
    <3>3. QED
      BY <2>1, <3>1, <3>2 DEF Closes
  <2>3. CASE j = Len(w) + 1
    <3>1. PICK k \in DOMAIN w : i < k /\ Closes(w, i, k)
      BY <1>2, <2>1
    <3>2. k \in i + 1 .. j - 1 /\ v[k] = w[k]
      BY <1>0, <2>1, <2>3, <3>1
    <3>3. QED
      BY <2>1, <3>1, <3>2 DEF Closes
  <2>4. QED
    BY <1>0, <2>2, <2>3
<1>4. ASSUME NEW i \in DOMAIN v, v[i].type = "started", v[i].session \notin u
      PROVE  v[i].session = s \/ \E k \in DOMAIN v : i < k /\ Closes(v, i, k)
  <2>1. CASE i \in DOMAIN w
    <3>1. PICK k \in DOMAIN w : i < k /\ Closes(w, i, k)
      BY <1>0, <1>2, <1>4, <2>1
    <3>2. k \in DOMAIN v /\ v[k] = w[k] /\ v[i] = w[i]
      BY <1>0, <2>1
    <3>3. QED
      BY <3>1, <3>2 DEF Closes
  <2>2. CASE i = Len(w) + 1
    BY <1>0, <1>1, <2>2
  <2>3. QED
    BY <1>0, <2>1, <2>2
<1>5. QED
  BY <1>3, <1>4 DEF ClosedBut, v, e

LEMMA PumpLoopKeepsSerial ==
  ASSUME TypeOK, NEW reg, NEW std, NEW int, NEW events,
         LaneTypes(std, int, events), PumpLoop(reg, std, int, events),
         NEW u, Serial(events, u), ClosedBut(events, u)
  PROVE  Serial(wire', u) /\ ClosedBut(wire', u \cup {active'})
<1>1. CASE active' = NoSession /\ wire' = events
  BY <1>1 DEF ClosedBut
<1>2. CASE /\ active' \in Session
           /\ On("started", active') \in Event
           /\ wire' = Append(events, On("started", active'))
  BY <1>2, StartKeepsSerial DEF LaneTypes
<1>3. QED
  BY <1>1, <1>2, PumpLoopWire

-----------------------------------------------------------------------------
(* First in, first out.                                                    *)

\* What the registry and the wire agree on: a session is queued on the wire
\* when it is declared, and not before; and nobody is older than its elder.
Declared(reg, w) ==
  /\ \A s \in Session : Occurs(w, "queued", s) <=> reg[s] # "absent"
  /\ \A s \in Session : Occurs(w, "started", s) => reg[s] # "absent"
  /\ \A s, t \in Session : ~(Elder(w, s, t) /\ Elder(w, t, s))

\* A lane holds, in the order they were declared, sessions that did not start;
\* a session of the lane that left it has started or was cancelled; and so was
\* every elder of a session that started.
InOrder(S, lane, reg, w) ==
  /\ \A k \in DOMAIN lane : Occurs(w, "queued", lane[k]) /\ ~Occurs(w, "started", lane[k])
  /\ \A k, l \in DOMAIN lane : k < l => Elder(w, lane[k], lane[l])
  /\ \A s \in S : Occurs(w, "queued", s)
       => \/ \E k \in DOMAIN lane : lane[k] = s
          \/ Occurs(w, "started", s)
          \/ reg[s] = "cancelled"
  /\ \A s, t \in S : Elder(w, s, t) /\ Occurs(w, "started", t)
       => Occurs(w, "started", s) \/ reg[s] = "cancelled"

\* A cancelled session stays cancelled, and a declared one declared.
LEMMA RegistryKeepsOrder ==
  ASSUME NEW S \in {Standard, Interactive}, NEW lane, NEW w, NEW reg, NEW new,
         \A s \in S : reg[s] = "cancelled" => new[s] = "cancelled",
         InOrder(S, lane, reg, w)
  PROVE  InOrder(S, lane, new, w)
BY DEF InOrder

\* An event that neither declares a session nor starts one of the lane.
LEMMA OtherEventKeepsOrder ==
  ASSUME NEW S \in {Standard, Interactive}, NEW lane \in Seq(S), NEW reg,
         NEW w \in Seq(Event), NEW e \in Event,
         e.type = "queued" => e.session \notin S,
         e.type = "started" => e.session \notin S,
         InOrder(S, lane, reg, w)
  PROVE  InOrder(S, lane, reg, Append(w, e))
<1>1. ASSUME NEW s \in S
      PROVE  /\ Occurs(Append(w, e), "queued", s) <=> Occurs(w, "queued", s)
             /\ Occurs(Append(w, e), "started", s) <=> Occurs(w, "started", s)
  BY <1>1, OccursGrows, OnIs
<1>2. ASSUME NEW s \in S, NEW t \in S
      PROVE  Elder(Append(w, e), s, t) <=> Elder(w, s, t)
  BY <1>2, ElderGrows, OnIs
<1>3. \A k \in DOMAIN lane : lane[k] \in S
  OBVIOUS
<1>4. QED
  BY <1>1, <1>2, <1>3 DEF InOrder

\* The first live session of a lane starts: those before it are cancelled.
LEMMA BeginningKeepsOrder ==
  ASSUME NEW S \in {Standard, Interactive}, NEW lane \in Seq(S), NEW reg,
         NEW w \in Seq(Event), NEW i \in DOMAIN lane, IsFirstLive(reg, lane, i),
         Declared(reg, w), InOrder(S, lane, reg, w)
  PROVE  InOrder(S, After(lane, i), reg, Append(w, On("started", lane[i])))
<1> DEFINE e == On("started", lane[i])
           v == Append(w, e)
           rest == After(lane, i)
<1>0. S \subseteq Session /\ lane[i] \in S /\ e \in Event
  BY DEF Session, Event, On
<1>1. \A s : Occurs(v, "queued", s) <=> Occurs(w, "queued", s)
  BY <1>0, OccursGrows, OnIs
<1>2. \A s : Occurs(v, "started", s) <=> Occurs(w, "started", s) \/ s = lane[i]
  BY <1>0, OccursGrows, OnIs
<1>3. \A s, t : Elder(v, s, t) <=> Elder(w, s, t)
  BY <1>0, ElderGrows, OnIs
<1>4. /\ rest \in Seq(S)
      /\ Len(lane) \in Nat /\ i \in 1 .. Len(lane) /\ DOMAIN lane = 1 .. Len(lane)
      /\ DOMAIN rest = 1 .. Len(lane) - i
      /\ \A k \in DOMAIN rest : i + k \in DOMAIN lane /\ rest[k] = lane[i + k]
  <2>1. i + 1 \in 1 .. Len(lane) + 1 /\ Len(lane) \in Nat
    OBVIOUS
  <2>2. /\ rest \in Seq(S)
        /\ Len(rest) = IF i + 1 <= Len(lane) THEN Len(lane) - i ELSE 0
        /\ \A k \in 1 .. Len(rest) : rest[k] = lane[i + k]
    BY <2>1, SubSeqProperties DEF After
  <2>3. i \in 1 .. Len(lane) /\ DOMAIN lane = 1 .. Len(lane)
    OBVIOUS
  <2> HIDE DEF rest
  <2>4. Len(rest) = Len(lane) - i /\ DOMAIN rest = 1 .. Len(rest)
    BY <2>1, <2>2, <2>3
  <2>5. QED
    BY <2>1, <2>2, <2>3, <2>4
<1> HIDE DEF v, e, rest
<1>5. \A k \in DOMAIN lane : lane[k] \in S
  OBVIOUS
<1>6. ASSUME NEW k \in DOMAIN lane, k < i PROVE reg[lane[k]] = "cancelled"
  <2>1. ~Runnable(reg, lane[k])
    <3>1. k \notin Live(reg, lane)
      BY <1>4, <1>6 DEF IsFirstLive
    <3>2. QED
      BY <3>1 DEF Live
  <2>2. reg[lane[k]] # "absent"
    BY <1>0, <1>5 DEF InOrder, Declared
  <2>3. QED
    BY <2>1, <2>2 DEF Runnable
<1>7. ASSUME NEW s \in S, Occurs(w, "queued", s)
      PROVE  \/ \E k \in DOMAIN rest : rest[k] = s
             \/ Occurs(v, "started", s)
             \/ reg[s] = "cancelled"
  <2>1. CASE \E k \in DOMAIN lane : lane[k] = s
    <3>1. PICK k \in DOMAIN lane : lane[k] = s
      BY <2>1
    <3>2. CASE k <= i
      BY <1>2, <1>4, <1>6, <3>1, <3>2
    <3>3. CASE k > i
      <4>1. k - i \in DOMAIN rest /\ i + (k - i) = k
        BY <1>4, <3>3
      <4>2. QED
        BY <1>4, <3>1, <4>1
    <3>4. QED
      BY <1>4, <3>2, <3>3
  <2>2. CASE ~\E k \in DOMAIN lane : lane[k] = s
    BY <1>2, <1>7, <2>2 DEF InOrder
  <2>3. QED
    BY <2>1, <2>2
<1>8. ASSUME NEW s \in S, Elder(w, s, lane[i])
      PROVE  Occurs(v, "started", s) \/ reg[s] = "cancelled"
  <2>1. Occurs(w, "queued", s)
    BY <1>8, ElderOccurs
  <2>2. ~\E k \in DOMAIN rest : rest[k] = s
    <3>1. ASSUME NEW k \in DOMAIN rest, rest[k] = s PROVE FALSE
      <4>1. Elder(w, lane[i], s)
        BY <1>4, <3>1 DEF InOrder
      <4>2. QED
        BY <1>0, <1>8, <4>1 DEF Declared
    <3>2. QED
      BY <3>1
  <2>3. QED
    BY <1>7, <2>1, <2>2
<1>9. ASSUME NEW k \in DOMAIN rest PROVE ~Occurs(v, "started", rest[k])
  <2>1. rest[k] # lane[i]
    <3>1. Elder(w, lane[i], rest[k])
      BY <1>4, <1>9 DEF InOrder
    <3>2. QED
      BY <1>0, <3>1 DEF Declared
  <2>2. ~Occurs(w, "started", rest[k])
    BY <1>4, <1>9 DEF InOrder
  <2>3. QED
    BY <1>2, <2>1, <2>2
<1>10. \A k \in DOMAIN rest : Occurs(v, "queued", rest[k])
  BY <1>1, <1>4 DEF InOrder
<1>11. ASSUME NEW k \in DOMAIN rest, NEW l \in DOMAIN rest, k < l
       PROVE  Elder(v, rest[k], rest[l])
  <2>1. i + k < i + l
    BY <1>4, <1>11
  <2>2. QED
    BY <1>3, <1>4, <2>1 DEF InOrder
<1>12. ASSUME NEW s \in S, NEW t \in S, Elder(v, s, t), Occurs(v, "started", t)
       PROVE  Occurs(v, "started", s) \/ reg[s] = "cancelled"
  <2>1. CASE t = lane[i]
    BY <1>3, <1>8, <1>12, <2>1
  <2>2. CASE t # lane[i]
    BY <1>2, <1>3, <1>12, <2>2 DEF InOrder
  <2>3. QED
    BY <2>1, <2>2
<1>13. QED
  BY <1>1, <1>7, <1>9, <1>10, <1>11, <1>12 DEF InOrder, v, e, rest

\* A lane with nobody to run is emptied: those in it are cancelled.
LEMMA EmptyingKeepsOrder ==
  ASSUME NEW S \in {Standard, Interactive}, NEW lane \in Seq(S), NEW reg,
         NEW w \in Seq(Event), Live(reg, lane) = {},
         Declared(reg, w), InOrder(S, lane, reg, w)
  PROVE  InOrder(S, <<>>, reg, w)
<1>1. ASSUME NEW k \in DOMAIN lane PROVE reg[lane[k]] = "cancelled"
  <2>1. lane[k] \in Session
    BY DEF Session
  <2>2. QED
    BY <2>1 DEF Live, Runnable, InOrder, Declared
<1>2. QED
  BY <1>1 DEF InOrder

\* A session is declared: last in its lane, and elder of nobody.
LEMMA PushKeepsOrder ==
  ASSUME NEW S \in {Standard, Interactive}, NEW lane \in Seq(S), NEW reg, NEW new,
         NEW w \in Seq(Event), NEW s \in Session, reg[s] = "absent",
         \A t \in Session \ {s} : new[t] = reg[t],
         Declared(reg, w), InOrder(S, lane, reg, w)
  PROVE  InOrder(S, IF s \in S THEN Push(lane, s) ELSE lane, new,
                 Append(w, On("queued", s)))
<1> DEFINE e == On("queued", s)
           v == Append(w, e)
<1>0. S \subseteq Session /\ e \in Event
  BY DEF Session, Event, On
<1>1. \A t : Occurs(v, "queued", t) <=> Occurs(w, "queued", t) \/ t = s
  BY <1>0, OccursGrows, OnIs
<1>2. \A t : Occurs(v, "started", t) <=> Occurs(w, "started", t)
  BY <1>0, OccursGrows, OnIs
<1>3. \A t, u : Elder(v, t, u) <=> Elder(w, t, u) \/ (u = s /\ Occurs(w, "queued", t))
  BY <1>0, ElderGrows, OnIs
<1>4. ~Occurs(w, "started", s) /\ ~Occurs(w, "queued", s)
  BY DEF Declared
<1>5. \A t \in S : reg[t] = "cancelled" => new[t] = "cancelled"
  BY <1>0
<1>6. \A t \in S, u \in S : Elder(v, t, u) /\ Occurs(v, "started", u)
         => Occurs(v, "started", t) \/ new[t] = "cancelled"
  BY <1>2, <1>3, <1>4, <1>5 DEF InOrder
<1>7. CASE s \in S
  <2> DEFINE longer == Append(lane, s)
  <2>1. /\ Len(lane) \in Nat /\ DOMAIN lane = 1 .. Len(lane)
        /\ DOMAIN longer = 1 .. Len(lane) + 1
        /\ \A k \in DOMAIN lane : longer[k] = lane[k]
        /\ longer[Len(lane) + 1] = s
    BY <1>7
  <2> HIDE DEF longer, v, e
  <2>2. ASSUME NEW k \in DOMAIN longer
        PROVE  Occurs(v, "queued", longer[k]) /\ ~Occurs(v, "started", longer[k])
    <3>1. CASE k \in DOMAIN lane
      BY <1>1, <1>2, <2>1, <3>1 DEF InOrder
    <3>2. CASE k = Len(lane) + 1
      BY <1>1, <1>2, <1>4, <2>1, <3>2
    <3>3. QED
      BY <2>1, <3>1, <3>2
  <2>3. ASSUME NEW k \in DOMAIN longer, NEW l \in DOMAIN longer, k < l
        PROVE  Elder(v, longer[k], longer[l])
    <3>1. k \in DOMAIN lane /\ longer[k] = lane[k]
      BY <2>1, <2>3
    <3>2. CASE l \in DOMAIN lane
      BY <1>3, <2>1, <2>3, <3>1, <3>2 DEF InOrder
    <3>3. CASE l = Len(lane) + 1
      BY <1>3, <2>1, <3>1, <3>3 DEF InOrder
    <3>4. QED
      BY <2>1, <3>2, <3>3
  <2>4. ASSUME NEW t \in S, Occurs(v, "queued", t)
        PROVE  \/ \E k \in DOMAIN longer : longer[k] = t
               \/ Occurs(v, "started", t)
               \/ new[t] = "cancelled"
    <3>1. CASE t = s
      <4>1. Len(lane) + 1 \in DOMAIN longer
        BY <2>1
      <4>2. QED
        BY <2>1, <3>1, <4>1
    <3>2. CASE t # s
      <4>1. \/ \E k \in DOMAIN lane : lane[k] = t
            \/ Occurs(w, "started", t)
            \/ reg[t] = "cancelled"
        BY <1>1, <2>4, <3>2 DEF InOrder
      <4>2. ASSUME NEW k \in DOMAIN lane, lane[k] = t
            PROVE  k \in DOMAIN longer /\ longer[k] = t
        BY <2>1, <4>2
      <4>3. QED
        BY <1>2, <1>5, <4>1, <4>2
    <3>3. QED
      BY <3>1, <3>2
  <2>5. InOrder(S, longer, new, v)
    BY <1>6, <2>2, <2>3, <2>4 DEF InOrder
  <2>6. QED
    BY <1>7, <2>5 DEF Push, longer, v, e
<1>8. CASE s \notin S
  <2>1. InOrder(S, lane, reg, v)
    BY <1>0, <1>8, OtherEventKeepsOrder, OnIs
  <2>2. InOrder(S, lane, new, v)
    BY <1>5, <2>1, RegistryKeepsOrder
  <2>3. QED
    BY <1>8, <2>2
<1>9. QED
  BY <1>7, <1>8

\* An event that declares nobody, and starts a declared session if any.
LEMMA OtherEventKeepsDeclared ==
  ASSUME NEW reg, NEW w \in Seq(Event), NEW e \in Event, e.type # "queued",
         e.type = "started" => reg[e.session] # "absent",
         Declared(reg, w)
  PROVE  Declared(reg, Append(w, e))
<1>1. \A s : Occurs(Append(w, e), "queued", s) <=> Occurs(w, "queued", s)
  BY OccursGrows, OnIs
<1>2. ASSUME NEW s \in Session, Occurs(Append(w, e), "started", s)
      PROVE  reg[s] # "absent"
  BY <1>2, OccursGrows, OnIs DEF Declared
<1>3. \A s, t : Elder(Append(w, e), s, t) <=> Elder(w, s, t)
  BY ElderGrows, OnIs
<1>4. QED
  BY <1>1, <1>2, <1>3 DEF Declared

LEMMA PushKeepsDeclared ==
  ASSUME NEW reg, NEW new, NEW w \in Seq(Event), NEW s \in Session,
         reg[s] = "absent", new[s] # "absent",
         \A t \in Session \ {s} : new[t] = reg[t],
         Declared(reg, w)
  PROVE  Declared(new, Append(w, On("queued", s)))
<1> DEFINE e == On("queued", s)
           v == Append(w, e)
<1>0. e \in Event
  BY DEF Event, On
<1>1. \A t : Occurs(v, "queued", t) <=> Occurs(w, "queued", t) \/ t = s
  BY <1>0, OccursGrows, OnIs
<1>2. \A t : Occurs(v, "started", t) <=> Occurs(w, "started", t)
  BY <1>0, OccursGrows, OnIs
<1>3. \A t, u : Elder(v, t, u) <=> Elder(w, t, u) \/ (u = s /\ Occurs(w, "queued", t))
  BY <1>0, ElderGrows, OnIs
<1>4. ~Occurs(w, "started", s) /\ ~Occurs(w, "queued", s)
  BY DEF Declared
<1>5. \A t : ~Elder(w, s, t) /\ ~Elder(w, t, s)
  BY <1>4, ElderOccurs
<1> HIDE DEF v, e
<1>6. ASSUME NEW t \in Session, NEW u \in Session, Elder(v, t, u), Elder(v, u, t)
      PROVE  FALSE
  <2>1. CASE t = s \/ u = s
    BY <1>3, <1>4, <1>5, <1>6, <2>1
  <2>2. CASE t # s /\ u # s
    BY <1>3, <1>6, <2>2 DEF Declared
  <2>3. QED
    BY <2>1, <2>2
<1>7. QED
  BY <1>1, <1>2, <1>6 DEF Declared, v, e

\* Both lanes at once.
LanesInOrder(std, int, reg, w) ==
  /\ Declared(reg, w)
  /\ InOrder(Standard, std, reg, w)
  /\ InOrder(Interactive, int, reg, w)

\* The turns of the pump loop keep both lanes in order.
LEMMA PumpLoopKeepsOrder ==
  ASSUME TypeOK, NEW reg, NEW std, NEW int, NEW events,
         LaneTypes(std, int, events), PumpLoop(reg, std, int, events),
         LanesInOrder(std, int, reg, events)
  PROVE  LanesInOrder(standard', interactive', reg, wire')
<1> USE LanesDisjoint DEF LaneTypes
<1>1. CASE BeginInteractive(reg, std, int, events)
  <2>1. PICK i \in DOMAIN int :
          /\ IsFirstLive(reg, int, i)
          /\ InteractiveTurn(consecutive) \/ Live(reg, std) = {}
          /\ standard' = IF InteractiveTurn(consecutive) THEN std ELSE <<>>
          /\ interactive' = After(int, i)
          /\ wire' = Append(events, On("started", int[i]))
    BY <1>1 DEF BeginInteractive
  <2>2. int[i] \in Interactive /\ int[i] \notin Standard /\ reg[int[i]] # "absent"
    BY <2>1 DEF IsFirstLive, Live, Runnable
  <2>3. /\ On("started", int[i]) \in Event
        /\ On("started", int[i]).type = "started"
        /\ On("started", int[i]).session = int[i]
    BY <2>2 DEF On, Event, Session
  <2>4. Declared(reg, wire')
    BY <2>1, <2>2, <2>3, OtherEventKeepsDeclared DEF LanesInOrder
  <2>5. InOrder(Interactive, interactive', reg, wire')
    BY <2>1, BeginningKeepsOrder DEF LanesInOrder
  <2>6. InOrder(Standard, standard', reg, events)
    BY <2>1, EmptyingKeepsOrder DEF LanesInOrder
  <2>7. standard' \in Seq(Standard)
    BY <2>1
  <2>8. InOrder(Standard, standard', reg, wire')
    BY <2>1, <2>2, <2>3, <2>6, <2>7, OtherEventKeepsOrder
  <2>9. QED
    BY <2>4, <2>5, <2>8 DEF LanesInOrder
<1>2. CASE BeginStandard(reg, std, int, events)
  <2>1. PICK i \in DOMAIN std :
          /\ IsFirstLive(reg, std, i)
          /\ ~InteractiveTurn(consecutive) \/ Live(reg, int) = {}
          /\ standard' = After(std, i)
          /\ interactive' = IF InteractiveTurn(consecutive) THEN <<>> ELSE int
          /\ wire' = Append(events, On("started", std[i]))
    BY <1>2 DEF BeginStandard
  <2>2. std[i] \in Standard /\ std[i] \notin Interactive /\ reg[std[i]] # "absent"
    BY <2>1 DEF IsFirstLive, Live, Runnable
  <2>3. /\ On("started", std[i]) \in Event
        /\ On("started", std[i]).type = "started"
        /\ On("started", std[i]).session = std[i]
    BY <2>2 DEF On, Event, Session
  <2>4. Declared(reg, wire')
    BY <2>1, <2>2, <2>3, OtherEventKeepsDeclared DEF LanesInOrder
  <2>5. InOrder(Standard, standard', reg, wire')
    BY <2>1, BeginningKeepsOrder DEF LanesInOrder
  <2>6. InOrder(Interactive, interactive', reg, events)
    BY <2>1, EmptyingKeepsOrder DEF LanesInOrder
  <2>7. interactive' \in Seq(Interactive)
    BY <2>1
  <2>8. InOrder(Interactive, interactive', reg, wire')
    BY <2>1, <2>2, <2>3, <2>6, <2>7, OtherEventKeepsOrder
  <2>9. QED
    BY <2>4, <2>5, <2>8 DEF LanesInOrder
<1>3. CASE Drained(reg, std, int, events)
  <2>1. /\ Live(reg, std) = {} /\ Live(reg, int) = {}
        /\ standard' = <<>> /\ interactive' = <<>> /\ wire' = events
    BY <1>3 DEF Drained
  <2>2. QED
    BY <2>1, EmptyingKeepsOrder DEF LanesInOrder
<1>4. QED
  BY <1>1, <1>2, <1>3 DEF PumpLoop

\* A status that changes after the declaration, other than from cancelled.
LEMMA StatusKeepsOrder ==
  ASSUME NEW reg, NEW new, NEW std, NEW int, NEW w, NEW s \in Session,
         \A t \in Session \ {s} : new[t] = reg[t],
         reg[s] \notin {"absent", "cancelled"}, new[s] # "absent",
         LanesInOrder(std, int, reg, w)
  PROVE  LanesInOrder(std, int, new, w)
<1>1. Declared(new, w)
  BY DEF LanesInOrder, Declared
<1>2. \A t \in Session : reg[t] = "cancelled" => new[t] = "cancelled"
  OBVIOUS
<1>3. QED
  BY <1>1, <1>2, RegistryKeepsOrder DEF LanesInOrder, Session

OrderInv == LanesInOrder(standard, interactive, registry, wire)

\* What Declare has done before it comes to the pump.
LEMMA DeclareKeepsOrder ==
  ASSUME TypeOK, OrderInv, NEW s \in Session, NEW std, NEW int,
         registry[s] = "absent", registry' = [registry EXCEPT ![s] = "queued"],
         std = IF s \in Standard THEN Push(standard, s) ELSE standard,
         int = IF s \in Interactive THEN Push(interactive, s) ELSE interactive
  PROVE  /\ LaneTypes(std, int, Append(wire, On("queued", s)))
         /\ LanesInOrder(std, int, registry', Append(wire, On("queued", s)))
<1>1. On("queued", s) \in Event
  BY DEF On, Event
<1>2. LaneTypes(std, int, Append(wire, On("queued", s)))
  BY <1>1 DEF LaneTypes, Push, TypeOK
<1>3. registry'[s] # "absent" /\ \A t \in Session \ {s} : registry'[t] = registry[t]
  BY DEF TypeOK
<1>4. /\ Declared(registry, wire)
      /\ InOrder(Standard, standard, registry, wire)
      /\ InOrder(Interactive, interactive, registry, wire)
      /\ wire \in Seq(Event) /\ standard \in Seq(Standard) /\ interactive \in Seq(Interactive)
  BY DEF OrderInv, LanesInOrder, TypeOK
<1>5. Declared(registry', Append(wire, On("queued", s)))
  BY <1>3, <1>4, PushKeepsDeclared
<1>6. InOrder(Standard, std, registry', Append(wire, On("queued", s)))
  BY <1>3, <1>4, PushKeepsOrder
<1>7. InOrder(Interactive, int, registry', Append(wire, On("queued", s)))
  BY <1>3, <1>4, PushKeepsOrder
<1>8. QED
  BY <1>2, <1>5, <1>6, <1>7 DEF LanesInOrder

\* What Return has done before it comes to the pump.
LEMMA ReturnKeepsOrder ==
  ASSUME TypeOK, OrderInv, active \in Session
  PROVE  LanesInOrder(standard, interactive, registry, wire \o CloseEvents(active))
<1> DEFINE events == wire \o CloseEvents(active)
<1>1. CASE registry[active] \in Closing
  <2> DEFINE e == On(registry[active], active)
  <2>1. e \in Event /\ events = Append(wire, e)
    BY <1>1, ClosingAdds DEF TypeOK
  <2>2. e.type # "queued" /\ e.type # "started"
    BY <1>1 DEF On, Closing
  <2> HIDE DEF e
  <2>3. QED
    BY <2>1, <2>2, OtherEventKeepsOrder, OtherEventKeepsDeclared
       DEF OrderInv, LanesInOrder, TypeOK
<1>2. CASE registry[active] \notin Closing
  BY <1>2, ClosingAdds DEF TypeOK, OrderInv
<1>3. QED
  BY <1>1, <1>2

LEMMA OrderInvHolds == Steps => []OrderInv
<1>1. Init => OrderInv
  BY DEF Init, OrderInv, LanesInOrder, Declared, InOrder, Occurs, Elder
<1>2. TypeOK /\ OrderInv /\ [Next]_vars => OrderInv'
  <2> SUFFICES ASSUME TypeOK, OrderInv, [Next]_vars
               PROVE  LanesInOrder(standard', interactive', registry', wire')
    BY DEF OrderInv
  <2>1. ASSUME NEW s \in Session, Declare(s)
        PROVE  LanesInOrder(standard', interactive', registry', wire')
    <3> DEFINE std == IF s \in Standard THEN Push(standard, s) ELSE standard
               int == IF s \in Interactive THEN Push(interactive, s) ELSE interactive
               events == Append(wire, On("queued", s))
    <3>1. LaneTypes(std, int, events) /\ LanesInOrder(std, int, registry', events)
      BY <2>1, DeclareKeepsOrder DEF Declare
    <3>2. CASE running
      BY <2>1, <3>1, <3>2 DEF Declare
    <3>3. CASE ~running
      <4>1. PumpLoop(registry', std, int, events)
        BY <2>1, <3>3 DEF Declare
      <4>2. QED
        BY <3>1, <4>1, PumpLoopKeepsOrder
    <3>4. QED
      BY <3>2, <3>3
  <2>2. ASSUME NEW s \in Session, registry[s] \notin {"absent", "cancelled"},
               NEW new \in Status \ {"absent"},
               registry' = [registry EXCEPT ![s] = new],
               UNCHANGED <<standard, interactive, wire>>
        PROVE  LanesInOrder(standard', interactive', registry', wire')
    <3>1. registry'[s] # "absent" /\ \A t \in Session \ {s} : registry'[t] = registry[t]
      BY <2>2 DEF TypeOK
    <3>2. QED
      BY <2>2, <3>1, StatusKeepsOrder DEF OrderInv
  <2>3. ASSUME NEW s \in Session, Cancel(s)
        PROVE  LanesInOrder(standard', interactive', registry', wire')
    BY <2>2, <2>3 DEF Cancel, Status
  <2>4. CASE Start
    BY <2>2, <2>4 DEF Start, Status, TypeOK
  <2>5. ASSUME NEW o \in {"succeeded", "failed", "parked"}, Finish(o)
        PROVE  LanesInOrder(standard', interactive', registry', wire')
    BY <2>2, <2>5 DEF Finish, Status, TypeOK
  <2>6. CASE Return
    <3> DEFINE events == wire \o CloseEvents(active)
    <3>1. active \in Session
      BY <2>6 DEF Return, TypeOK
    <3>2. LaneTypes(standard, interactive, events)
      BY <3>1, CloseEventsType DEF LaneTypes, TypeOK
    <3>3. LanesInOrder(standard, interactive, registry, events)
      BY <3>1, ReturnKeepsOrder
    <3>4. PumpLoop(registry, standard, interactive, events) /\ registry' = registry
      BY <2>6 DEF Return
    <3>5. QED
      BY <3>2, <3>3, <3>4, PumpLoopKeepsOrder
  <2>7. CASE Reject
    BY <2>7 DEF Reject, OrderInv
  <2>8. CASE UNCHANGED vars
    BY <2>8 DEF vars, OrderInv
  <2>9. QED
    BY <2>1, <2>3, <2>4, <2>5, <2>6, <2>7, <2>8 DEF Next, Runner
<1>3. QED
  BY <1>1, <1>2, TypeOKHolds, PTL DEF Steps

LEMMA OrderIsFIFO == OrderInv => LaneFIFO
<1> SUFFICES ASSUME OrderInv, NEW lane \in {Standard, Interactive},
                    NEW s \in lane, NEW t \in lane,
                    QueuedBefore(s, t), Happened("started", t)
             PROVE  Happened("started", s) \/ registry[s] = "cancelled"
  BY DEF LaneFIFO
<1>1. Elder(wire, s, t) /\ Occurs(wire, "started", t)
  BY DEF QueuedBefore, Happened, Elder, Occurs
<1>2. Occurs(wire, "started", s) \/ registry[s] = "cancelled"
  BY <1>1 DEF OrderInv, LanesInOrder, InOrder
<1>3. QED
  BY <1>2 DEF Happened, Occurs

\* A session waits in its lane until it is started, and only a cancel changes
\* its status meanwhile.
WaitingInv ==
  /\ active # NoSession => Occurs(wire, "started", active)
  /\ \A k \in DOMAIN standard : registry[standard[k]] \in {"queued", "cancelled"}
  /\ \A k \in DOMAIN interactive : registry[interactive[k]] \in {"queued", "cancelled"}

\* So the session the pump picks is queued, and what it leaves goes on waiting.
LEMMA PumpLoopPicks ==
  ASSUME TypeOK, NEW reg, NEW std, NEW int, NEW events,
         LaneTypes(std, int, events), PumpLoop(reg, std, int, events),
         \A k \in DOMAIN std : reg[std[k]] \in {"queued", "cancelled"},
         \A k \in DOMAIN int : reg[int[k]] \in {"queued", "cancelled"}
  PROVE  /\ active' # NoSession
              => reg[active'] = "queued" /\ Occurs(wire', "started", active')
         /\ \A k \in DOMAIN standard' : reg[standard'[k]] \in {"queued", "cancelled"}
         /\ \A k \in DOMAIN interactive' : reg[interactive'[k]] \in {"queued", "cancelled"}
<1> USE DEF LaneTypes
<1>1. CASE BeginInteractive(reg, std, int, events)
  <2>1. PICK i \in DOMAIN int :
          /\ Runnable(reg, int[i])
          /\ standard' = IF InteractiveTurn(consecutive) THEN std ELSE <<>>
          /\ interactive' = After(int, i)
          /\ active' = int[i]
          /\ wire' = Append(events, On("started", int[i]))
    BY <1>1 DEF BeginInteractive, IsFirstLive, Live
  <2>2. On("started", int[i]) \in Event
    BY DEF On, Event, Session
  <2>3. Occurs(wire', "started", active') /\ reg[active'] = "queued"
    BY <2>1, <2>2, OccursGrows DEF Runnable
  <2>4. QED
    BY <2>1, <2>3, AfterIsLane
<1>2. CASE BeginStandard(reg, std, int, events)
  <2>1. PICK i \in DOMAIN std :
          /\ Runnable(reg, std[i])
          /\ standard' = After(std, i)
          /\ interactive' = IF InteractiveTurn(consecutive) THEN <<>> ELSE int
          /\ active' = std[i]
          /\ wire' = Append(events, On("started", std[i]))
    BY <1>2 DEF BeginStandard, IsFirstLive, Live
  <2>2. On("started", std[i]) \in Event
    BY DEF On, Event, Session
  <2>3. Occurs(wire', "started", active') /\ reg[active'] = "queued"
    BY <2>1, <2>2, OccursGrows DEF Runnable
  <2>4. QED
    BY <2>1, <2>3, AfterIsLane
<1>3. CASE Drained(reg, std, int, events)
  BY <1>3 DEF Drained
<1>4. QED
  BY <1>1, <1>2, <1>3 DEF PumpLoop

\* A session joins its lane as queued.
LEMMA DeclaredWaits ==
  ASSUME TypeOK, WaitingInv, NEW s \in Session, Declare(s)
  PROVE  LET std == IF s \in Standard THEN Push(standard, s) ELSE standard
             int == IF s \in Interactive THEN Push(interactive, s) ELSE interactive
             events == Append(wire, On("queued", s))
         IN /\ LaneTypes(std, int, events)
            /\ \A k \in DOMAIN std : registry'[std[k]] \in {"queued", "cancelled"}
            /\ \A k \in DOMAIN int : registry'[int[k]] \in {"queued", "cancelled"}
<1> DEFINE std == IF s \in Standard THEN Push(standard, s) ELSE standard
           int == IF s \in Interactive THEN Push(interactive, s) ELSE interactive
           events == Append(wire, On("queued", s))
<1>1. On("queued", s) \in Event
  BY DEF On, Event
<1>2. LaneTypes(std, int, events)
  BY <1>1 DEF LaneTypes, Push, TypeOK
<1>3. registry' = [registry EXCEPT ![s] = "queued"] /\ registry[s] = "absent"
  BY DEF Declare
<1>4. ASSUME NEW S, NEW lane \in Seq(S), S \subseteq Session,
             \A k \in DOMAIN lane : registry[lane[k]] \in {"queued", "cancelled"},
             NEW k \in DOMAIN Append(lane, s)
      PROVE  registry'[Append(lane, s)[k]] \in {"queued", "cancelled"}
  <2>1. CASE k \in DOMAIN lane
    <3>1. Append(lane, s)[k] = lane[k] /\ lane[k] \in Session
      BY <1>4, <2>1
    <3>2. QED
      BY <1>3, <1>4, <2>1, <3>1 DEF TypeOK
  <2>2. CASE k \notin DOMAIN lane
    <3>1. Append(lane, s)[k] = s
      BY <1>4, <2>2
    <3>2. QED
      BY <1>3, <3>1 DEF TypeOK
  <2>3. QED
    BY <2>1, <2>2
<1>5. ASSUME NEW S, NEW lane \in Seq(S), S \subseteq Session,
             \A k \in DOMAIN lane : registry[lane[k]] \in {"queued", "cancelled"},
             NEW k \in DOMAIN lane
      PROVE  registry'[lane[k]] \in {"queued", "cancelled"}
  <2>1. lane[k] \in Session
    BY <1>5
  <2>2. QED
    BY <1>3, <1>5, <2>1 DEF TypeOK
<1>6. \A k \in DOMAIN std : registry'[std[k]] \in {"queued", "cancelled"}
  BY <1>4, <1>5 DEF WaitingInv, TypeOK, Push, Session
<1>7. \A k \in DOMAIN int : registry'[int[k]] \in {"queued", "cancelled"}
  BY <1>4, <1>5 DEF WaitingInv, TypeOK, Push, Session
<1>8. QED
  BY <1>2, <1>6, <1>7

\* Whatever wakes the pump, the session it gives the runner is queued.
LEMMA PickedIsQueued ==
  ASSUME TypeOK, WaitingInv, (\E s \in Session : ~running /\ Declare(s)) \/ Return,
         active' # NoSession
  PROVE  registry'[active'] = "queued"
<1>1. ASSUME NEW s \in Session, ~running, Declare(s) PROVE registry'[active'] = "queued"
  <2> DEFINE std == IF s \in Standard THEN Push(standard, s) ELSE standard
             int == IF s \in Interactive THEN Push(interactive, s) ELSE interactive
             events == Append(wire, On("queued", s))
  <2>1. /\ LaneTypes(std, int, events)
        /\ \A k \in DOMAIN std : registry'[std[k]] \in {"queued", "cancelled"}
        /\ \A k \in DOMAIN int : registry'[int[k]] \in {"queued", "cancelled"}
    BY <1>1, DeclaredWaits
  <2>2. PumpLoop(registry', std, int, events)
    BY <1>1 DEF Declare
  <2>3. QED
    BY <2>1, <2>2, PumpLoopPicks
<1>2. CASE Return
  <2>1. active \in Session
    BY <1>2 DEF Return, TypeOK
  <2>2. LaneTypes(standard, interactive, wire \o CloseEvents(active))
    BY <2>1, CloseEventsType DEF LaneTypes, TypeOK
  <2>3. /\ PumpLoop(registry, standard, interactive, wire \o CloseEvents(active))
        /\ registry' = registry
    BY <1>2 DEF Return
  <2>4. QED
    BY <2>2, <2>3, PumpLoopPicks DEF WaitingInv
<1>3. QED
  BY <1>1, <1>2

LEMMA WaitingInvHolds == Steps => []WaitingInv
<1>1. Init => WaitingInv
  BY DEF Init, WaitingInv
<1>2. TypeOK /\ OrderInv /\ WaitingInv /\ [Next]_vars => WaitingInv'
  <2> SUFFICES ASSUME TypeOK, OrderInv, WaitingInv, [Next]_vars PROVE WaitingInv'
    OBVIOUS
  <2>1. ASSUME NEW s \in Session, Declare(s) PROVE WaitingInv'
    <3> DEFINE std == IF s \in Standard THEN Push(standard, s) ELSE standard
               int == IF s \in Interactive THEN Push(interactive, s) ELSE interactive
               events == Append(wire, On("queued", s))
    <3>1. /\ LaneTypes(std, int, events)
          /\ \A k \in DOMAIN std : registry'[std[k]] \in {"queued", "cancelled"}
          /\ \A k \in DOMAIN int : registry'[int[k]] \in {"queued", "cancelled"}
      BY <2>1, DeclaredWaits
    <3>2. CASE running
      <4>1. active' = active /\ standard' = std /\ interactive' = int /\ wire' = events
        BY <2>1, <3>2 DEF Declare
      <4>2. On("queued", s) \in Event
        BY DEF On, Event
      <4>3. active # NoSession => Occurs(wire', "started", active)
        BY <4>1, <4>2, OccursGrows DEF WaitingInv, TypeOK
      <4>4. QED
        BY <3>1, <4>1, <4>3 DEF WaitingInv
    <3>3. CASE ~running
      <4>1. PumpLoop(registry', std, int, events)
        BY <2>1, <3>3 DEF Declare
      <4>2. QED
        BY <3>1, <4>1, PumpLoopPicks DEF WaitingInv
    <3>4. QED
      BY <3>2, <3>3
  <2>2. ASSUME NEW s \in Session, NEW new,
               registry' = [registry EXCEPT ![s] = new],
               UNCHANGED <<standard, interactive, wire, active>>,
               \/ new = "cancelled"
               \/ s = active
        PROVE  WaitingInv'
    <3>0. registry'[s] = new /\ \A t \in Session : t # s => registry'[t] = registry[t]
      BY <2>2 DEF TypeOK
    <3>1. ASSUME NEW S \in {Standard, Interactive}, NEW lane \in Seq(S),
                 InOrder(S, lane, registry, wire), NEW k \in DOMAIN lane,
                 registry[lane[k]] \in {"queued", "cancelled"}
          PROVE  registry'[lane[k]] \in {"queued", "cancelled"}
      <4>1. lane[k] \in Session /\ ~Occurs(wire, "started", lane[k])
        BY <3>1 DEF InOrder, Session
      <4>2. lane[k] # active
        <5>1. active = NoSession \/ Occurs(wire, "started", active)
          BY DEF WaitingInv
        <5>2. QED
          BY <4>1, <5>1, NoSessionFresh
      <4>3. \/ registry'[lane[k]] = registry[lane[k]]
            \/ new = "cancelled" /\ registry'[lane[k]] = new
        <5>1. CASE lane[k] = s
          BY <2>2, <3>0, <4>2, <5>1
        <5>2. CASE lane[k] # s
          BY <3>0, <4>1, <5>2
        <5>3. QED
          BY <5>1, <5>2
      <4>4. QED
        BY <3>1, <4>3
    <3>2. QED
      BY <2>2, <3>1 DEF WaitingInv, OrderInv, LanesInOrder, TypeOK
  <2>3. ASSUME NEW s \in Session, Cancel(s) PROVE WaitingInv'
    BY <2>2, <2>3 DEF Cancel
  <2>4. CASE Start
    BY <2>2, <2>4 DEF Start, TypeOK
  <2>5. ASSUME NEW o \in {"succeeded", "failed", "parked"}, Finish(o) PROVE WaitingInv'
    BY <2>2, <2>5 DEF Finish, TypeOK
  <2>6. CASE Return
    <3>1. active \in Session
      BY <2>6 DEF Return, TypeOK
    <3>2. LaneTypes(standard, interactive, wire \o CloseEvents(active))
      BY <3>1, CloseEventsType DEF LaneTypes, TypeOK
    <3>3. /\ PumpLoop(registry, standard, interactive, wire \o CloseEvents(active))
          /\ registry' = registry
      BY <2>6 DEF Return
    <3>4. QED
      BY <3>2, <3>3, PumpLoopPicks DEF WaitingInv
  <2>7. CASE Reject
    BY <2>7 DEF Reject, WaitingInv
  <2>8. CASE UNCHANGED vars
    BY <2>8 DEF vars, WaitingInv
  <2>9. QED
    BY <2>1, <2>3, <2>4, <2>5, <2>6, <2>7, <2>8 DEF Next, Runner
<1>3. QED
  BY <1>1, <1>2, TypeOKHolds, OrderInvHolds, PTL DEF Steps

\* A session that started had no elder of its lane still waiting, whatever was
\* declared, cancelled or parked meanwhile: "FIFO" of the SessionQueue header.
THEOREM LanesAreFIFO == Spec => []LaneFIFO
BY OrderInvHolds, OrderIsFIFO, PTL DEF Spec, Steps

-----------------------------------------------------------------------------
(* No lost wakeup.                                                         *)

\* The pump sleeps over a lane that is not empty only since a runner rejected.
AwakeInv == ~running /\ ~rejected => standard = <<>> /\ interactive = <<>>

LEMMA AwakeInvHolds == Steps => []AwakeInv
<1>1. Init => AwakeInv
  BY DEF Init, AwakeInv
<1>2. ASSUME NEW reg, NEW std, NEW int, NEW events,
             PumpLoop(reg, std, int, events)
      PROVE  AwakeInv'
  BY <1>2 DEF PumpLoop, BeginInteractive, BeginStandard, Drained, AwakeInv
<1>3. AwakeInv /\ [Next]_vars => AwakeInv'
  <2> SUFFICES ASSUME AwakeInv, [Next]_vars PROVE AwakeInv'
    OBVIOUS
  <2>1. ASSUME NEW s \in Session, Declare(s) PROVE AwakeInv'
    <3>1. CASE running
      BY <2>1, <3>1 DEF Declare, AwakeInv
    <3>2. CASE ~running
      BY <1>2, <2>1, <3>2 DEF Declare
    <3>3. QED
      BY <3>1, <3>2
  <2>2. ASSUME NEW s \in Session, Cancel(s) PROVE AwakeInv'
    BY <2>2 DEF Cancel, AwakeInv
  <2>3. CASE Start
    BY <2>3 DEF Start, AwakeInv
  <2>4. ASSUME NEW o \in {"succeeded", "failed", "parked"}, Finish(o)
        PROVE  AwakeInv'
    BY <2>4 DEF Finish, AwakeInv
  <2>5. CASE Return
    BY <1>2, <2>5 DEF Return
  <2>6. CASE Reject
    BY <2>6 DEF Reject, AwakeInv
  <2>7. CASE UNCHANGED vars
    BY <2>7 DEF vars, AwakeInv
  <2>8. QED
    BY <2>1, <2>2, <2>3, <2>4, <2>5, <2>6, <2>7 DEF Next, Runner
<1>4. QED
  BY <1>1, <1>3, PTL DEF Steps

LEMMA NobodyIsLost == OrderInv /\ AwakeInv => NoLostWakeup
<1> SUFFICES ASSUME OrderInv, NEW s \in Session,
                    registry[s] = "queued", ~Happened("started", s)
             PROVE  Waits(s)
  BY DEF NoLostWakeup, AwakeInv
<1>1. Occurs(wire, "queued", s) /\ ~Occurs(wire, "started", s)
  BY DEF OrderInv, LanesInOrder, Declared, Happened, Occurs
<1>2. CASE s \in Standard
  BY <1>1, <1>2 DEF OrderInv, LanesInOrder, InOrder, Waits
<1>3. CASE s \in Interactive
  BY <1>1, <1>3 DEF OrderInv, LanesInOrder, InOrder, Waits
<1>4. QED
  BY <1>2, <1>3 DEF Session

LEMMA NoLostWakeupHolds == Steps => []NoLostWakeup
BY AwakeInvHolds, OrderInvHolds, NobodyIsLost, PTL

\* A session declared at any moment finds the pump awake, or wakes it; a runner
\* that rejects puts the pump to sleep over its lanes, and takes no session out
\* of them.
THEOREM NeverLosesAWakeup == Spec => []NoLostWakeup
BY NoLostWakeupHolds, PTL DEF Spec, Steps

-----------------------------------------------------------------------------
(* The wire is faithful.                                                   *)

\* A session whose start was never closed had its turn, and does not run.
UnclosedInv ==
  /\ \A s \in unclosed : /\ Occurs(wire, "started", s)
                         /\ registry[s] \in Closing \cup {"queued"}
                         /\ s # active
  /\ ~StoreMayFail => unclosed = {}

\* The pump picks a session that has not started yet.
LEMMA PumpLoopPicksFresh ==
  ASSUME TypeOK, NEW reg, NEW std, NEW int, NEW events,
         LaneTypes(std, int, events), PumpLoop(reg, std, int, events),
         LanesInOrder(std, int, reg, events),
         NEW s \in Session, Occurs(events, "started", s)
  PROVE  active' # s /\ Occurs(wire', "started", s)
<1>1. active' # s
  <2>1. CASE BeginInteractive(reg, std, int, events)
    BY <2>1 DEF BeginInteractive, LanesInOrder, InOrder
  <2>2. CASE BeginStandard(reg, std, int, events)
    BY <2>2 DEF BeginStandard, LanesInOrder, InOrder
  <2>3. CASE Drained(reg, std, int, events)
    BY <2>3, NoSessionFresh DEF Drained
  <2>4. QED
    BY <2>1, <2>2, <2>3 DEF PumpLoop
<1>2. Occurs(wire', "started", s)
  <2>1. CASE wire' = events
    BY <2>1
  <2>2. CASE /\ On("started", active') \in Event
             /\ wire' = Append(events, On("started", active'))
    <3>1. events \in Seq(Event)
      BY DEF LaneTypes
    <3>2. Occurs(Append(events, On("started", active')), "started", s)
      BY <2>2, <3>1, OccursGrows
    <3>3. QED
      BY <2>2, <3>2
  <2>3. QED
    BY <2>1, <2>2, PumpLoopWire
<1>3. QED
  BY <1>1, <1>2

LEMMA UnclosedInvHolds == Steps => []UnclosedInv
<1>1. Init => UnclosedInv
  BY DEF Init, UnclosedInv
<1>2. TypeOK /\ OrderInv /\ WaitingInv /\ UnclosedInv /\ [Next]_vars => UnclosedInv'
  <2> SUFFICES ASSUME TypeOK, OrderInv, WaitingInv, UnclosedInv, [Next]_vars
               PROVE  UnclosedInv'
    OBVIOUS
  <2>1. ASSUME NEW t \in Session, Declare(t) PROVE UnclosedInv'
    <3> DEFINE std == IF t \in Standard THEN Push(standard, t) ELSE standard
               int == IF t \in Interactive THEN Push(interactive, t) ELSE interactive
               events == Append(wire, On("queued", t))
    <3>1. /\ LaneTypes(std, int, events)
          /\ LanesInOrder(std, int, registry', events)
          /\ unclosed' = unclosed
          /\ registry[t] = "absent" /\ registry' = [registry EXCEPT ![t] = "queued"]
      BY <2>1, DeclareKeepsOrder DEF Declare
    <3>2. On("queued", t) \in Event
      BY DEF On, Event
    <3>3. ASSUME NEW s \in unclosed
          PROVE  /\ s \in Session /\ Occurs(events, "started", s)
                 /\ registry'[s] \in Closing \cup {"queued"}
      BY <3>1, <3>2, <3>3, OccursGrows DEF UnclosedInv, TypeOK
    <3>4. CASE running
      <4>1. active' = active /\ wire' = events
        BY <2>1, <3>4 DEF Declare
      <4>2. QED
        BY <3>1, <3>3, <4>1 DEF UnclosedInv
    <3>5. CASE ~running
      <4>1. PumpLoop(registry', std, int, events)
        BY <2>1, <3>5 DEF Declare
      <4> HIDE DEF std, int, events
      <4>2. ASSUME NEW s \in unclosed
            PROVE  active' # s /\ Occurs(wire', "started", s)
        BY <3>1, <3>3, <4>1, PumpLoopPicksFresh
      <4>3. QED
        BY <3>1, <3>3, <4>2 DEF UnclosedInv
    <3>6. QED
      BY <3>4, <3>5
  <2>2. ASSUME NEW t \in Session, Cancel(t) PROVE UnclosedInv'
    BY <2>2 DEF Cancel, UnclosedInv, TypeOK, Closing
  <2>3. CASE Start
    BY <2>3 DEF Start, UnclosedInv, TypeOK
  <2>4. ASSUME NEW o \in {"succeeded", "failed", "parked"}, Finish(o)
        PROVE  UnclosedInv'
    BY <2>4 DEF Finish, UnclosedInv, TypeOK
  <2>5. CASE Return
    <3> DEFINE events == wire \o CloseEvents(active)
    <3>1. /\ active \in Session /\ registry' = registry
          /\ PumpLoop(registry, standard, interactive, events)
          /\ unclosed' \subseteq unclosed \cup {active}
          /\ registry[active] \in Closing \cup {"queued"}
          /\ ~StoreMayFail => unclosed' = unclosed
      BY <2>5 DEF Return, TypeOK
    <3>2. LaneTypes(standard, interactive, events)
      BY <3>1, CloseEventsType DEF LaneTypes, TypeOK
    <3>3. LanesInOrder(standard, interactive, registry, events)
      BY <3>1, ReturnKeepsOrder
    <3>4. ASSUME NEW s \in unclosed' PROVE Occurs(events, "started", s) /\ s \in Session
      <4>1. s \in Session /\ Occurs(wire, "started", s)
        BY <3>1, NoSessionFresh DEF UnclosedInv, WaitingInv, TypeOK
      <4>2. CASE registry[active] \in Closing
        <5>1. /\ wire \in Seq(Event) /\ On(registry[active], active) \in Event
              /\ events = Append(wire, On(registry[active], active))
          BY <3>1, <4>2, ClosingAdds DEF TypeOK
        <5> HIDE DEF events
        <5>2. Occurs(Append(wire, On(registry[active], active)), "started", s)
          BY <4>1, <5>1, OccursGrows
        <5>3. QED
          BY <4>1, <5>1, <5>2
      <4>3. CASE registry[active] \notin Closing
        BY <3>1, <4>1, <4>3, ClosingAdds DEF TypeOK
      <4>4. QED
        BY <4>1, <4>2, <4>3
    <3> HIDE DEF events
    <3>5. ASSUME NEW s \in unclosed'
          PROVE  active' # s /\ Occurs(wire', "started", s)
      BY <3>1, <3>2, <3>3, <3>4, <3>5, PumpLoopPicksFresh
    <3>6. QED
      BY <3>1, <3>5 DEF UnclosedInv
  <2>6. CASE Reject
    <3>1. active \in Session /\ Occurs(wire, "started", active)
      BY <2>6 DEF Reject, TypeOK, WaitingInv
    <3>2. QED
      BY <2>6, <3>1, NoSessionFresh DEF Reject, UnclosedInv, TypeOK
  <2>7. CASE UNCHANGED vars
    BY <2>7 DEF vars, UnclosedInv
  <2>8. QED
    BY <2>1, <2>2, <2>3, <2>4, <2>5, <2>6, <2>7 DEF Next, Runner
<1>3. QED
  BY <1>1, <1>2, TypeOKHolds, OrderInvHolds, WaitingInvHolds, PTL DEF Steps

SerialInv == Serial(wire, unclosed) /\ ClosedBut(wire, unclosed \cup {active})

\* Whoever is exempt stays exempt.
LEMMA MoreUnclosed ==
  ASSUME NEW w, NEW u, NEW v, u \subseteq v
  PROVE  (Serial(w, u) => Serial(w, v)) /\ (ClosedBut(w, u) => ClosedBut(w, v))
<1>1. Serial(w, u) => Serial(w, v)
  BY DEF Serial
<1>2. ClosedBut(w, u) => ClosedBut(w, v)
  BY DEF ClosedBut
<1>3. QED
  BY <1>1, <1>2

LEMMA WireIsFaithfulHolds == Steps => []WireIsFaithful
<1>1. Init => SerialInv
  BY DEF Init, SerialInv, Serial, ClosedBut
<1>2. TypeOK /\ SerialInv /\ [Next]_vars => SerialInv'
  <2> SUFFICES ASSUME TypeOK, SerialInv, [Next]_vars
               PROVE  Serial(wire', unclosed') /\ ClosedBut(wire', unclosed' \cup {active'})
    BY DEF SerialInv
  <2>1. ASSUME NEW s \in Session, Declare(s)
        PROVE  Serial(wire', unclosed') /\ ClosedBut(wire', unclosed' \cup {active'})
    <3> DEFINE std == IF s \in Standard THEN Push(standard, s) ELSE standard
               int == IF s \in Interactive THEN Push(interactive, s) ELSE interactive
               events == Append(wire, On("queued", s))
    <3>0. unclosed' = unclosed
      BY <2>1 DEF Declare
    <3>1. On("queued", s) \in Event /\ On("queued", s).type = "queued"
      BY DEF On, Event
    <3>2. LaneTypes(std, int, events)
      BY <3>1 DEF LaneTypes, Push, TypeOK
    <3>3. Serial(events, unclosed) /\ ClosedBut(events, unclosed \cup {active})
      BY <3>1, OtherEventKeepsSerial DEF SerialInv, TypeOK
    <3>4. CASE running
      BY <2>1, <3>0, <3>3, <3>4 DEF Declare
    <3>5. CASE ~running
      <4>1. PumpLoop(registry', std, int, events)
        BY <2>1, <3>5 DEF Declare
      <4>2. active = NoSession
        BY <3>5 DEF TypeOK
      <4>3. ClosedBut(events, unclosed)
        <5>1. ASSUME NEW i \in DOMAIN events PROVE events[i].session # NoSession
          <6>1. events \in Seq(Event)
            BY <3>2 DEF LaneTypes
          <6>2. events[i] \in Event
            BY <5>1, <6>1
          <6>3. QED
            BY <6>2, NoSessionFresh DEF Event
        <5>2. QED
          BY <3>3, <4>2, <5>1 DEF ClosedBut
      <4> HIDE DEF std, int, events
      <4>4. QED
        BY <3>0, <3>2, <3>3, <4>1, <4>3, PumpLoopKeepsSerial
    <3>6. QED
      BY <3>4, <3>5
  <2>2. CASE UNCHANGED <<active, wire, unclosed>>
    BY <2>2 DEF SerialInv
  <2>3. CASE Return
    <3> DEFINE events == wire \o CloseEvents(active)
               e == On(registry[active], active)
    <3>1. /\ active \in Session
          /\ PumpLoop(registry, standard, interactive, events)
      BY <2>3 DEF Return, TypeOK
    <3>2. LaneTypes(standard, interactive, events)
      BY <3>1, CloseEventsType DEF LaneTypes, TypeOK
    <3>3. Serial(events, unclosed') /\ ClosedBut(events, unclosed')
      <4>1. CASE registry[active] \in Closing
        <5>1. e \in Event /\ events = Append(wire, e)
          BY <3>1, <4>1, ClosingAdds DEF TypeOK
        <5>2. e.session = active /\ e.type \in Closing /\ e.type # "started"
          BY <4>1 DEF On, Closing
        <5>3. unclosed' = unclosed
          BY <2>3, <4>1 DEF Return
        <5> HIDE DEF e, events
        <5>4. QED
          BY <5>1, <5>2, <5>3, OtherEventKeepsSerial DEF SerialInv, TypeOK
      <4>2. CASE registry[active] \notin Closing
        <5>1. events = wire /\ unclosed' = unclosed \cup {active}
          BY <2>3, <3>1, <4>2, ClosingAdds DEF Return, TypeOK
        <5>2. QED
          BY <5>1, MoreUnclosed DEF SerialInv
      <4>3. QED
        BY <4>1, <4>2
    <3> HIDE DEF events
    <3>4. QED
      BY <3>1, <3>2, <3>3, PumpLoopKeepsSerial
  <2>4. CASE Reject
    <3>1. wire' = wire /\ unclosed' = unclosed \cup {active}
      BY <2>4 DEF Reject
    <3>2. QED
      BY <3>1, MoreUnclosed DEF SerialInv
  <2>5. QED
    BY <2>1, <2>2, <2>3, <2>4 DEF Next, Runner, Cancel, Start, Finish, vars
<1>3. SerialInv /\ UnclosedInv => SerialOnWire
  <2> SUFFICES ASSUME SerialInv, UnclosedInv PROVE SerialOnWire
    OBVIOUS
  <2>1. \A i, j \in DOMAIN wire :
           i < j /\ wire[i].type = "started" /\ wire[j].type = "started"
             => \/ \E k \in i + 1 .. j - 1 :
                     wire[k].session = wire[i].session /\ wire[k].type \in Closing
                \/ wire[i].session \in unclosed
    BY DEF SerialInv, Serial, Closes
  <2>2. QED
    BY <2>1 DEF SerialOnWire, UnclosedInv
<1>4. SerialOnWire /\ LaneFIFO /\ TerminalFromRegistry => WireIsFaithful
  BY DEF WireIsFaithful
<1>5. QED
  BY <1>1, <1>2, <1>3, <1>4, TypeOKHolds, OrderInvHolds, OrderIsFIFO,
     TerminalFromRegistryHolds, UnclosedInvHolds, PTL DEF Steps

\* Sessions come one at a time, in the order of their lane, and end as the
\* registry says.  A start is left open on the wire only by a store that failed
\* under the session's runner: before registry.start, when the pump finds no
\* outcome to close it with, or under the terminal mirror, when the runner
\* rejects; and such a session runs no more.
THEOREM WireTellsTheTruth == Spec => []WireIsFaithful
BY WireIsFaithfulHolds, PTL DEF Spec, Steps

-----------------------------------------------------------------------------
(* What was cancelled while it waited.                                     *)

LEMMA PumpLoopSkips ==
  ASSUME TypeOK, NEW reg, NEW std, NEW int, NEW events,
         LaneTypes(std, int, events), PumpLoop(reg, std, int, events),
         NEW s \in Session, reg[s] = "cancelled", ~Occurs(events, "started", s)
  PROVE  ~Occurs(wire', "started", s)
<1>1. CASE wire' = events
  BY <1>1
<1>2. CASE /\ Runnable(reg, active')
           /\ On("started", active') \in Event
           /\ wire' = Append(events, On("started", active'))
  BY <1>2, OccursGrows, OnIs DEF LaneTypes, Runnable
<1>3. QED
  BY <1>1, <1>2, PumpLoopWire

LEMMA SkipGuaranteeHolds == Steps => SkipGuarantee
<1> DEFINE Skips == \A s \in Session :
                      registry[s] = "cancelled" /\ ~Happened("started", s)
                        => ~Happened("started", s)'
<1>1. TypeOK /\ [Next]_vars => [Skips]_vars
  <2> SUFFICES ASSUME TypeOK, Next, NEW s \in Session,
                      registry[s] = "cancelled", ~Happened("started", s)
               PROVE  ~Occurs(wire', "started", s)
    BY DEF Happened, Occurs
  <2>0. ~Occurs(wire, "started", s)
    BY DEF Happened, Occurs
  <2>1. ASSUME NEW t \in Session, Declare(t) PROVE ~Occurs(wire', "started", s)
    <3> DEFINE std == IF t \in Standard THEN Push(standard, t) ELSE standard
               int == IF t \in Interactive THEN Push(interactive, t) ELSE interactive
               events == Append(wire, On("queued", t))
    <3>1. On("queued", t) \in Event /\ On("queued", t).type # "started"
      BY DEF On, Event
    <3>2. LaneTypes(std, int, events)
      BY <3>1 DEF LaneTypes, Push, TypeOK
    <3>3. ~Occurs(events, "started", s)
      BY <2>0, <3>1, OccursGrows, OnIs DEF TypeOK
    <3>4. registry'[s] = "cancelled"
      BY <2>1 DEF Declare, TypeOK
    <3>5. CASE running
      BY <2>1, <3>3, <3>5 DEF Declare
    <3>6. CASE ~running
      <4>1. PumpLoop(registry', std, int, events)
        BY <2>1, <3>6 DEF Declare
      <4>2. QED
        BY <3>2, <3>3, <3>4, <4>1, PumpLoopSkips
    <3>7. QED
      BY <3>5, <3>6
  <2>2. CASE wire' = wire
    BY <2>0, <2>2
  <2>3. CASE Return
    <3> DEFINE events == wire \o CloseEvents(active)
               e == On(registry[active], active)
    <3>1. active \in Session
      BY <2>3 DEF Return, TypeOK
    <3>2. LaneTypes(standard, interactive, events)
      BY <3>1, CloseEventsType DEF LaneTypes, TypeOK
    <3>3. ~Occurs(events, "started", s)
      <4>1. CASE registry[active] \in Closing
        <5>1. e \in Event /\ events = Append(wire, e) /\ e.type # "started"
          BY <3>1, <4>1, ClosingAdds DEF TypeOK, On, Closing
        <5> HIDE DEF e
        <5>2. QED
          BY <2>0, <5>1, OccursGrows, OnIs DEF TypeOK
      <4>2. CASE registry[active] \notin Closing
        BY <2>0, <3>1, <4>2, ClosingAdds DEF TypeOK
      <4>3. QED
        BY <4>1, <4>2
    <3>4. PumpLoop(registry, standard, interactive, events)
      BY <2>3 DEF Return
    <3>5. QED
      BY <3>2, <3>3, <3>4, PumpLoopSkips
  <2>4. QED
    BY <2>1, <2>2, <2>3 DEF Next, Runner, Cancel, Start, Finish, Reject
<1>2. QED
  BY <1>1, TypeOKHolds, PTL DEF Steps, SkipGuarantee

\* A session cancelled before it started never starts: each pass of the pump
\* reads its status again, however long it has been in its lane.
THEOREM CancelledNeverStarts == Spec => SkipGuarantee
BY SkipGuaranteeHolds, PTL DEF Spec, Steps


-----------------------------------------------------------------------------
(* The lifecycle: its steps, whatever is fair.                             *)

LifecycleSteps == LifecycleInit /\ [][LifecycleNext]_allVars

-----------------------------------------------------------------------------
(* Types.                                                                  *)

Aggregate == [status : StoreStatus, version : Nat, replies : Nat,
              prompt : Mission, resumeOf : Session \cup {NoSession}]

RunPc == {"idle", "mirror", "mirror.write", "hydrate", "drop", "start",
          "rehydrate", "setup", "flight", "persist", "final", "final.write",
          "prune", "return"}

RunState == [pc : RunPc, seen : Nat, outcome : Closing \cup {"none"},
             resume : Session \cup {NoSession}, member : 0 .. MaxMember]

ClientPc == {"idle", "read", "write", "cancel", "steer", "rollback", "append",
             "lookup", "declare", "withdraw", "prune", "done"}

Op == {"run", "create", "cancel", "message", "reply", "steer", "ask"}

Request == [op : Op \cup {"none"}, pc : ClientPc, s : Session \cup {NoSession},
            saw : StoreStatus, seen : Nat, try : {0, 1, 2}, prev : Mission,
            child : Session \cup {NoSession}, resume : BOOLEAN,
            code : {"none", "201", "201 interrupted", "202 best-effort",
                    "202 cancelled", "409"}]

\* What a read of the aggregate has let through.
SawAdmitted(r) ==
  /\ r.op \in {"cancel", "message"} => r.saw \notin Terminal
  /\ r.op = "reply" => r.saw = "awaiting_input"
  /\ r.op = "steer" => r.saw \in {"queued", "running"}
  /\ r.op = "ask" => r.saw \in Terminal

\* Where each kind of request may be.
OnItsWay(r) ==
  /\ r.pc = "idle" => r = NoRequest
  /\ r.pc # "idle" => r.s \in Session /\ r.op # "none"
  /\ r.pc \in {"read", "write", "cancel", "steer", "rollback", "lookup", "append", "withdraw", "prune"}
       => SawAdmitted(r) /\ r.child = NoSession
  /\ r.pc \in {"cancel", "withdraw", "prune"} => r.op = "cancel"
  /\ r.pc = "read" => r.op \in {"cancel", "message", "reply", "steer"}
  /\ r.pc = "write" => r.op \in {"message", "reply", "steer"}
  /\ r.pc \in {"steer", "rollback"} => r.op = "steer"
  /\ r.pc = "lookup" => r.op = "reply"
  /\ r.pc = "append" => r.op \in {"reply", "ask"}
  /\ r.pc = "declare" => r.op \in {"create", "reply", "ask"} /\ r.child \in Session
  /\ r.prev # "none" => r.op = "steer"
  /\ r.resume => r.op = "reply" /\ r.s \notin Foreign

Types ==
  /\ store \in [Session -> Aggregate]
  /\ prompt \in [Session -> Mission]
  /\ link \in [Session -> Session \cup {NoSession}]
  /\ controller \in [Session -> {"none", "attached", "fired"}]
  /\ rows \subseteq Session /\ live \subseteq Session /\ kept \subseteq Session
  /\ run \in RunState
  /\ client \in [Client -> Request]

\* The runner is at work exactly while the pump holds its flag.
Busy ==
  /\ (run.pc = "idle") = ~running
  /\ run.pc = "final.write" => run.outcome \in Closing

RequestsOnTheirWay == \A c \in Client : OnItsWay(client[c])

-----------------------------------------------------------------------------
(* The runner and the registry.                                            *)

RunAgrees ==
  /\ run.pc \in {"mirror", "mirror.write", "hydrate", "drop", "start"}
       => registry[active] \in {"queued", "cancelled"}
  /\ run.pc \in {"rehydrate", "setup", "flight", "persist"}
       => registry[active] \in {"running", "cancelled"}
  /\ run.pc \in {"final", "return"} => registry[active] \in Closing \cup {"queued"}
  /\ run.pc = "final.write" =>
       \/ registry[active] = run.outcome
       \/ run.outcome = "parked" /\ registry[active] = "cancelled"
  /\ run.pc = "prune" => registry[active] \in Terminal

\* The end of a run is mirrored by the run itself, as its last write.
MirroredLast ==
  \A s \in Session :
    store[s].status \in {"succeeded", "failed", "awaiting_input"}
      => (s = active => run.pc \in {"prune", "return"})

\* What the runner and the requests saw holds until the aggregate moves.
RunSnapshot ==
  run.pc \in {"mirror.write", "final.write"} /\ run.seen # 0 =>
    /\ run.seen <= store[active].version
    /\ run.seen = store[active].version => store[active].status \notin Terminal \cup {"absent"}

ClientSnapshot ==
  \A c \in Client : LET r == client[c] IN
    r.pc \in {"cancel", "write"} =>
      /\ r.seen <= store[r.s].version
      /\ r.seen = store[r.s].version =>
           /\ store[r.s].status = r.saw
           /\ r.op = "reply" => store[r.s].replies = 0

\* The requests whose reply is on record.
Won(s) ==
  {c \in Client : /\ client[c].op = "reply" /\ client[c].s = s
                  /\ \/ client[c].pc \in {"lookup", "append"}
                     \/ client[c].child # NoSession}

OneReply ==
  \A s \in Session :
    /\ \A c, d \in Won(s) : c = d
    /\ Won(s) # {} => /\ store[s].replies = 1
                      /\ store[s].status \in {"awaiting_input", "cancelled"}

DeclaredExist ==
  \A c \in Client : LET r == client[c] IN
    r.pc = "declare" =>
      /\ store[r.child].status # "absent"
      /\ r.resume => store[r.child].resumeOf = r.s /\ r.child \notin Foreign

Linked ==
  /\ \A s \in Session : link[s] # NoSession
       => /\ store[s].resumeOf = link[s] /\ store[s].status # "absent"
          /\ s \notin Foreign
  /\ run.pc \in {"hydrate", "drop", "start", "rehydrate"} => run.resume \in {NoSession, link[active]}
  /\ run.pc \in {"start", "rehydrate"} /\ run.resume \in live \cup rows => run.resume \in kept
  /\ run.pc \in {"setup", "flight", "persist"} => run.resume \in kept \cup {NoSession}
  /\ ~StoreMayFail => kept = {}

\* Why a session has rows: it is parked, or on its way out of a run, or of a
\* cancel; or the store failed under it; or the rows are another tenant's.
HasReason(s) ==
  \/ registry[s] = "parked"
  \/ /\ s = active
     /\ run.pc \in {"final", "final.write", "prune"}
     /\ registry[s] \in Closing
     /\ run.pc = "final.write" => run.outcome # "parked"
  \/ s \notin Foreign /\ \E c \in Client : client[c].pc = "prune" /\ client[c].s = s
  \/ s \in kept \cup unclosed
  \/ ForeignLeftover(s)

RowsInv == \A s \in rows : HasReason(s)

-----------------------------------------------------------------------------
(* What the operators of the model return.                                 *)

LEMMA AggregateUpdates ==
  ASSUME NEW a \in Aggregate
  PROVE  /\ [a EXCEPT !.version = @ + 1] \in Aggregate
         /\ [a EXCEPT !.replies = @ + 1] \in Aggregate
         /\ \A v \in StoreStatus : [a EXCEPT !.status = v] \in Aggregate
         /\ \A v \in Mission : [a EXCEPT !.prompt = v] \in Aggregate
         /\ \A v \in Session \cup {NoSession} : [a EXCEPT !.resumeOf = v] \in Aggregate
BY DEF Aggregate

LEMMA RequestUpdates ==
  ASSUME NEW r \in Request
  PROVE  /\ \A v \in Op : [r EXCEPT !.op = v] \in Request
         /\ \A v \in ClientPc : [r EXCEPT !.pc = v] \in Request
         /\ \A v \in Session \cup {NoSession} :
              [r EXCEPT !.s = v] \in Request /\ [r EXCEPT !.child = v] \in Request
         /\ \A v \in StoreStatus : [r EXCEPT !.saw = v] \in Request
         /\ \A v \in Nat : [r EXCEPT !.seen = v] \in Request
         /\ \A v \in {0, 1, 2} : [r EXCEPT !.try = v] \in Request
         /\ \A v \in Mission : [r EXCEPT !.prev = v] \in Request
         /\ \A v \in BOOLEAN : [r EXCEPT !.resume = v] \in Request
         /\ \A v \in {"none", "201", "201 interrupted", "202 best-effort",
                      "202 cancelled", "409"} : [r EXCEPT !.code = v] \in Request
BY DEF Request

\* Several fields at once.
LEMMA RequestMoves ==
  ASSUME NEW r \in Request, NEW pc \in ClientPc
  PROVE  /\ \A w \in StoreStatus, n \in Nat :
              [r EXCEPT !.pc = pc, !.saw = w, !.seen = n] \in Request
         /\ [r EXCEPT !.pc = pc, !.try = 2] \in Request
         /\ \A m \in Mission : [r EXCEPT !.prev = m, !.pc = pc] \in Request
         /\ \A x \in Session : [r EXCEPT !.pc = pc, !.child = x] \in Request
         /\ \A x \in BOOLEAN : [r EXCEPT !.pc = pc, !.resume = x] \in Request
<1>1. [r EXCEPT !.pc = pc] \in Request
  BY RequestUpdates
<1>2. ASSUME NEW w \in StoreStatus, NEW n \in Nat
      PROVE  [r EXCEPT !.pc = pc, !.saw = w, !.seen = n] \in Request
  <2>1. \A x \in Request : [x EXCEPT !.saw = w] \in Request
    BY RequestUpdates
  <2>2. \A x \in Request : [x EXCEPT !.seen = n] \in Request
    BY RequestUpdates
  <2>3. QED
    BY <1>1, <2>1, <2>2
<1>3. [r EXCEPT !.pc = pc, !.try = 2] \in Request
  BY <1>1, RequestUpdates
<1>4. ASSUME NEW m \in Mission PROVE [r EXCEPT !.prev = m, !.pc = pc] \in Request
  <2>1. [r EXCEPT !.prev = m] \in Request
    BY RequestUpdates
  <2>2. QED
    BY <2>1, RequestUpdates
<1>5. ASSUME NEW x \in Session PROVE [r EXCEPT !.pc = pc, !.child = x] \in Request
  BY <1>1, RequestUpdates
<1>6. ASSUME NEW x \in BOOLEAN PROVE [r EXCEPT !.pc = pc, !.resume = x] \in Request
  BY <1>1, RequestUpdates
<1>7. QED
  BY <1>2, <1>3, <1>4, <1>5, <1>6

LEMMA RunUpdates ==
  ASSUME NEW r \in RunState
  PROVE  /\ \A v \in RunPc : [r EXCEPT !.pc = v] \in RunState
         /\ \A v \in Nat : [r EXCEPT !.seen = v] \in RunState
         /\ \A v \in Closing \cup {"none"} : [r EXCEPT !.outcome = v] \in RunState
         /\ \A v \in Session \cup {NoSession} : [r EXCEPT !.resume = v] \in RunState
         /\ \A v \in 0 .. MaxMember : [r EXCEPT !.member = v] \in RunState
BY DEF RunState

LEMMA RunMoves ==
  ASSUME NEW r \in RunState, NEW pc \in RunPc
  PROVE  /\ [r EXCEPT !.pc = pc] \in RunState
         /\ \A n \in Nat : [r EXCEPT !.pc = pc, !.seen = n] \in RunState
         /\ \A n \in Nat, o \in Closing :
              [r EXCEPT !.pc = pc, !.outcome = o, !.seen = n] \in RunState
         /\ \A x \in Session \cup {NoSession} : [r EXCEPT !.pc = pc, !.resume = x] \in RunState
         /\ \A n \in Nat, x \in Session \cup {NoSession} :
              [r EXCEPT !.pc = pc, !.seen = n, !.resume = x] \in RunState
<1>1. [r EXCEPT !.pc = pc] \in RunState
  BY RunUpdates
<1>2. ASSUME NEW n \in Nat PROVE [r EXCEPT !.pc = pc, !.seen = n] \in RunState
  BY <1>1, RunUpdates
<1>3. ASSUME NEW x \in Session \cup {NoSession}
      PROVE  [r EXCEPT !.pc = pc, !.resume = x] \in RunState
  BY <1>1, RunUpdates
<1>4. ASSUME NEW n \in Nat, NEW x \in Session \cup {NoSession}
      PROVE  [r EXCEPT !.pc = pc, !.seen = n, !.resume = x] \in RunState
  BY <1>2, <1>4, RunUpdates
<1>5. ASSUME NEW n \in Nat, NEW o \in Closing
      PROVE  [r EXCEPT !.pc = pc, !.outcome = o, !.seen = n] \in RunState
  <2>1. [r EXCEPT !.pc = pc, !.outcome = o] \in RunState
    BY <1>1, RunUpdates
  <2>2. QED
    BY <2>1, RunUpdates
<1>6. QED
  BY <1>1, <1>2, <1>3, <1>4, <1>5

LEMMA FreshRecords ==
  /\ NoAggregate \in Aggregate
  /\ NoRequest \in Request /\ OnItsWay(NoRequest)
  /\ NoRun \in RunState /\ NewRun \in RunState /\ NewRun.pc = "mirror" /\ NoRun.pc = "idle"
<1>1. NoAggregate \in Aggregate
  BY DEF NoAggregate, Aggregate, StoreStatus, Mission
<1>2. NoRequest \in Request /\ OnItsWay(NoRequest)
  BY DEF NoRequest, Request, OnItsWay, ClientPc, StoreStatus, Mission
<1>3. NoRun \in RunState /\ NoRun.pc = "idle"
  BY MemberBound DEF NoRun, RunState, RunPc
<1>4. NewRun \in RunState /\ NewRun.pc = "mirror"
  BY <1>3, RunUpdates DEF NewRun, NoRun, RunPc
<1>5. QED
  BY <1>1, <1>2, <1>3, <1>4

\* What an event does to an aggregate: it moves the version, and of the rest
\* what is said here.
Moved(agg, new, status, replies) ==
  /\ new \in Aggregate
  /\ new.version = agg.version + 1
  /\ new.status = status
  /\ new.replies = replies

LEMMA ApplyCreated ==
  ASSUME NEW agg \in Aggregate, NEW p \in Mission, NEW o \in Session \cup {NoSession}
  PROVE  LET new == Apply(agg, [type |-> "created", prompt |-> p, resumeOf |-> o])
         IN Moved(agg, new, "queued", agg.replies) /\ new.resumeOf = o
<1>1. Apply(agg, [type |-> "created", prompt |-> p, resumeOf |-> o])
        = [[agg EXCEPT !.version = @ + 1]
             EXCEPT !.status = "queued", !.prompt = p, !.resumeOf = o]
  BY DEF Apply, Lifecycle, StoreStatus, Terminal
<1>2. Apply(agg, [type |-> "created", prompt |-> p, resumeOf |-> o]) \in Aggregate
  <2>1. [agg EXCEPT !.version = @ + 1] \in Aggregate
    BY AggregateUpdates
  <2>2. \A a \in Aggregate : [a EXCEPT !.status = "queued"] \in Aggregate
    BY AggregateUpdates DEF StoreStatus
  <2>3. \A a \in Aggregate : [a EXCEPT !.prompt = p] \in Aggregate
    BY AggregateUpdates
  <2>4. \A a \in Aggregate : [a EXCEPT !.resumeOf = o] \in Aggregate
    BY AggregateUpdates
  <2>5. QED
    BY <1>1, <2>1, <2>2, <2>3, <2>4
<1>3. QED
  BY <1>1, <1>2 DEF Aggregate, Moved

LEMMA ApplyLifecycle ==
  ASSUME NEW agg \in Aggregate, NEW t \in StoreStatus
  PROVE  LET new == Apply(agg, Lifecycle(t))
         IN Moved(agg, new, t, agg.replies) /\ new.resumeOf = agg.resumeOf
<1>1. Apply(agg, Lifecycle(t))
        = [[agg EXCEPT !.version = @ + 1] EXCEPT !.status = t]
  BY DEF Apply, Lifecycle, StoreStatus, Terminal
<1>2. Apply(agg, Lifecycle(t)) \in Aggregate
  <2>1. [agg EXCEPT !.version = @ + 1] \in Aggregate
    BY AggregateUpdates
  <2>2. QED
    BY <1>1, <2>1, AggregateUpdates
<1>3. QED
  BY <1>1, <1>2 DEF Aggregate, Moved

LEMMA ApplyNote ==
  ASSUME NEW agg \in Aggregate, NEW t \in {"message", "member"}
  PROVE  LET new == Apply(agg, [type |-> t])
         IN Moved(agg, new, agg.status, agg.replies) /\ new.resumeOf = agg.resumeOf
<1>1. Apply(agg, [type |-> t])
        = [agg EXCEPT !.version = @ + 1]
  BY DEF Apply, Lifecycle, StoreStatus, Terminal
<1>2. Apply(agg, [type |-> t]) \in Aggregate
  BY <1>1, AggregateUpdates DEF StoreStatus
<1>3. QED
  BY <1>1, <1>2 DEF Aggregate, Moved

LEMMA ApplyReply ==
  ASSUME NEW agg \in Aggregate
  PROVE  LET new == Apply(agg, [type |-> "user_reply"])
         IN Moved(agg, new, agg.status, agg.replies + 1) /\ new.resumeOf = agg.resumeOf
<1>1. Apply(agg, [type |-> "user_reply"])
        = [[agg EXCEPT !.version = @ + 1] EXCEPT !.replies = @ + 1]
  BY DEF Apply, Lifecycle, StoreStatus, Terminal
<1>2. Apply(agg, [type |-> "user_reply"]) \in Aggregate
  <2>1. [agg EXCEPT !.version = @ + 1] \in Aggregate
    BY AggregateUpdates
  <2>2. QED
    BY <1>1, <2>1, AggregateUpdates
<1>3. QED
  BY <1>1, <1>2 DEF Aggregate, Moved

LEMMA ApplySteer ==
  ASSUME NEW agg \in Aggregate, NEW p \in Mission
  PROVE  LET new == Apply(agg, [type |-> "steer", prompt |-> p])
         IN Moved(agg, new, agg.status, agg.replies) /\ new.resumeOf = agg.resumeOf
<1>1. Apply(agg, [type |-> "steer", prompt |-> p])
        = [[agg EXCEPT !.version = @ + 1] EXCEPT !.prompt = p]
  BY DEF Apply, Lifecycle, StoreStatus, Terminal
<1>2. Apply(agg, [type |-> "steer", prompt |-> p]) \in Aggregate
  <2>1. [agg EXCEPT !.version = @ + 1] \in Aggregate
    BY AggregateUpdates
  <2>2. QED
    BY <1>1, <2>1, AggregateUpdates
<1>3. QED
  BY <1>1, <1>2 DEF Aggregate, Moved

LEMMA AnsweredIsDone ==
  ASSUME NEW r \in Request, r.s \in Session, r.op # "none",
         NEW code \in {"201", "201 interrupted", "202 best-effort", "202 cancelled", "409"}
  PROVE  /\ Answered(r, code) \in Request
         /\ OnItsWay(Answered(r, code))
         /\ Answered(r, code).pc = "done"
         /\ Answered(r, code).op = r.op
         /\ Answered(r, code).s = r.s
         /\ Answered(r, code).child = r.child
<1>1. Answered(r, code) \in Request
  <2>0. /\ r.op \in Op /\ r.s \in Session \cup {NoSession} /\ r.saw \in StoreStatus
        /\ r.child \in Session \cup {NoSession} /\ "done" \in ClientPc
    BY DEF Request, ClientPc
  <2>1. \A x \in Request : [x EXCEPT !.op = r.op] \in Request
    BY <2>0, RequestUpdates
  <2>2. \A x \in Request : [x EXCEPT !.s = r.s] \in Request
    BY <2>0, RequestUpdates
  <2>3. \A x \in Request : [x EXCEPT !.saw = r.saw] \in Request
    BY <2>0, RequestUpdates
  <2>4. \A x \in Request : [x EXCEPT !.pc = "done"] \in Request
    BY <2>0, RequestUpdates
  <2>5. \A x \in Request : [x EXCEPT !.child = r.child] \in Request
    BY <2>0, RequestUpdates
  <2>6. \A x \in Request : [x EXCEPT !.code = code] \in Request
    BY RequestUpdates
  <2>7. QED
    BY <2>1, <2>2, <2>3, <2>4, <2>5, <2>6, FreshRecords DEF Answered
<1>2. /\ Answered(r, code).pc = "done" /\ Answered(r, code).op = r.op
      /\ Answered(r, code).s = r.s /\ Answered(r, code).child = r.child
      /\ Answered(r, code).prev = "none" /\ Answered(r, code).resume = FALSE
  BY DEF Answered, NoRequest
<1>3. QED
  BY <1>1, <1>2 DEF OnItsWay

LEMMA RefusedIsOnItsWay ==
  ASSUME NEW r \in Request, r.s \in Session, r.op # "none", r.child = NoSession,
         r.prev # "none" => r.op = "steer" /\ SawAdmitted(r),
         r.resume => r.op = "reply" /\ r.s \notin Foreign
  PROVE  /\ Refused(r) \in Request
         /\ OnItsWay(Refused(r))
         /\ Refused(r).pc \in {"done", "rollback"}
         /\ Refused(r).op = r.op /\ Refused(r).s = r.s /\ Refused(r).child = r.child
<1>1. CASE r.prev # "none"
  <2>1. Refused(r) = [r EXCEPT !.pc = "rollback"]
    BY <1>1 DEF Refused
  <2>2. Refused(r) \in Request
    BY <2>1, RequestUpdates DEF ClientPc
  <2>3. QED
    BY <1>1, <2>1, <2>2 DEF Request, OnItsWay, SawAdmitted
<1>2. CASE r.prev = "none"
  BY <1>2, AnsweredIsDone DEF Refused
<1>3. QED
  BY <1>1, <1>2

LEMMA ClientMoves ==
  ASSUME Types, RequestsOnTheirWay, NEW c \in Client, NEW new \in Request, OnItsWay(new),
         client' = [client EXCEPT ![c] = new]
  PROVE  client' \in [Client -> Request] /\ RequestsOnTheirWay'
BY DEF Types, RequestsOnTheirWay

LEMMA StoreMoves ==
  ASSUME Types, NEW s \in Session, NEW e, Apply(store[s], e) \in Aggregate,
         store' = [store EXCEPT ![s] = Apply(@, e)]
  PROVE  /\ store' \in [Session -> Aggregate]
         /\ store'[s] = Apply(store[s], e)
         /\ \A t \in Session \ {s} : store'[t] = store[t]
BY DEF Types

\* While the runner is at work it works for a session.
LEMMA ActiveWhileBusy ==
  ASSUME TypeOK, Busy, run.pc # "idle" PROVE running /\ active \in Session
BY DEF TypeOK, Busy

\* Declaring a session never leaves the pump asleep.
LEMMA DeclareWakes ==
  ASSUME TypeOK, NEW s \in Session, Declare(s)
  PROVE  /\ running' /\ registry' = [registry EXCEPT ![s] = "queued"]
         /\ running => active' = active
<1> DEFINE std == IF s \in Standard THEN Push(standard, s) ELSE standard
           int == IF s \in Interactive THEN Push(interactive, s) ELSE interactive
           events == Append(wire, On("queued", s))
<1>0. registry' = [registry EXCEPT ![s] = "queued"]
  BY DEF Declare
<1>1. CASE running
  BY <1>0, <1>1 DEF Declare
<1>2. CASE ~running
  <2>1. PumpLoop(registry', std, int, events)
    BY <1>2 DEF Declare
  <2>2. Runnable(registry', s)
    BY <1>0 DEF Runnable, TypeOK
  <2>3. ASSUME NEW S, NEW lane \in Seq(S), s \in S
        PROVE  Live(registry', Append(lane, s)) # {}
    <3>1. Len(lane) + 1 \in DOMAIN Append(lane, s) /\ Append(lane, s)[Len(lane) + 1] = s
      BY <2>3
    <3>2. QED
      BY <2>2, <3>1 DEF Live
  <2>4. Live(registry', std) # {} \/ Live(registry', int) # {}
    BY <2>3 DEF Push, TypeOK, Session
  <2>5. QED
    BY <1>0, <1>2, <2>1, <2>4 DEF PumpLoop, BeginInteractive, BeginStandard, Drained
<1>3. QED
  BY <1>1, <1>2

-----------------------------------------------------------------------------
(* The lifecycle's steps are steps of the queue.                           *)

LEMMA StepsOfTheQueue ==
  ASSUME TypeOK, Types, Busy, RequestsOnTheirWay, [LifecycleNext]_allVars
  PROVE  [Next]_vars
<1>1. CASE UNCHANGED allVars
  BY <1>1 DEF allVars
<1>2. ASSUME NEW c \in Client, NEW op \in Ops, NEW s \in Session, Arrive(c, op, s)
      PROVE  UNCHANGED vars
  BY <1>2 DEF Arrive, QueueAlone
<1>3. ASSUME NEW c \in Client, NEW s \in Standard, Create(c, s) PROVE UNCHANGED vars
  BY <1>3 DEF Create, QueueAlone
<1>4. ASSUME NEW c \in Client, NEW s \in Standard, RunDirectly(c, s) PROVE Next
  BY <1>4 DEF RunDirectly, Next, Session
<1>5. ASSUME NEW c \in Client, Handler(c) PROVE [Next]_vars
  <2>0. client[c] \in Request /\ OnItsWay(client[c])
    BY DEF Types, RequestsOnTheirWay
  <2>1. CASE DeclareStep(c)
    BY <2>0, <2>1 DEF DeclareStep, OnItsWay, Next
  <2>2. CASE CancelWithdraw(c)
    BY <2>0, <2>2 DEF CancelWithdraw, QueueAlone, OnItsWay, Next
  <2>3. QED
    BY <1>5, <2>1, <2>2
       DEF Handler, CancelRunning, CancelCommit, CancelPrune, Reread, CasWrite, SteerQueued,
           SteerRollback, SteerRunning, ReplyLookup, FollowupAppend, QueueAlone
<1>6. CASE RunnerStep
  <2>1. ASSUME NEW outcome \in {"succeeded", "failed", "parked"}, Settle(outcome)
        PROVE  [Next]_vars
    BY <2>1 DEF Settle, QueueAlone, Next, Runner
  <2>2. CASE RunSetup
    BY <2>1, <2>2 DEF RunSetup, QueueAlone
  <2>3. CASE RunSettles
    BY <2>1, <2>3 DEF RunSettles
  <2>4. CASE RunParks
    BY <2>1, <2>4 DEF RunParks
  <2>5. CASE RunAborts
    <3>1. active \in Session
      BY <2>5, ActiveWhileBusy DEF RunAborts
    <3>2. QED
      BY <2>5, <3>1 DEF RunAborts, QueueAlone, Next
  <2>6. CASE RunStart
    BY <2>6 DEF RunStart, QueueAlone, Next, Runner
  <2>7. CASE RunReturns
    BY <2>7 DEF RunReturns, Next, Runner
  <2>8. CASE RunFinalThrows
    BY <2>8 DEF RunFinalThrows, Next, Runner
  <2>9. QED
    BY <1>6, <2>2, <2>3, <2>4, <2>5, <2>6, <2>7, <2>8
       DEF RunnerStep, RunMirror, RunMirrorWrite, RunMirrorThrows, RunHydrate, RunDrop,
           RunRehydrate, RunMember, RunAsks, RunFinal, RunFinalWrite, RunPrune, QueueAlone
<1>7. QED
  BY <1>1, <1>2, <1>3, <1>4, <1>5, <1>6 DEF LifecycleNext

-----------------------------------------------------------------------------
(* The types are kept.                                                     *)

LEMMA MirrorTypes ==
  ASSUME TypeOK, Types, active \in Session
  PROVE  /\ MirrorSees(active) \in Nat
         /\ \A t \in StoreStatus : MirrorWrites(active, Lifecycle(t))
              => store' \in [Session -> Aggregate]
<1>1. store[active] \in Aggregate /\ store[active].version \in Nat
  BY DEF Types, Aggregate
<1>2. ASSUME NEW t \in StoreStatus, MirrorWrites(active, Lifecycle(t))
      PROVE  store' \in [Session -> Aggregate]
  <2>1. CASE store' = [store EXCEPT ![active] = Apply(@, Lifecycle(t))]
    BY <1>1, <2>1, ApplyLifecycle, StoreMoves DEF Moved
  <2>2. CASE UNCHANGED store
    BY <2>2 DEF Types
  <2>3. QED
    BY <1>2, <2>1, <2>2 DEF MirrorWrites, Write
<1>3. QED
  BY <1>1, <1>2 DEF MirrorSees

LEMMA RunnerTypes ==
  ASSUME TypeOK, Types, Busy, RunnerStep
  PROVE  Types' /\ Busy' /\ client' = client
<1> USE DEF Types, QueueAlone, RegistryAlone
<1>0. run.pc # "idle" /\ running /\ active \in Session
  <2>1. run.pc # "idle"
    BY DEF RunnerStep, RunMirror, RunMirrorWrite, RunMirrorThrows, RunHydrate, RunDrop,
       RunStart, RunRehydrate, RunSetup, RunMember, RunSettles, RunAsks, RunParks,
       RunAborts, RunFinal, RunFinalWrite, RunFinalThrows, RunPrune, RunReturns
  <2>2. QED
    BY <2>1, ActiveWhileBusy
<1>1. /\ \A pc \in RunPc : [run EXCEPT !.pc = pc] \in RunState
      /\ \A pc \in RunPc : [run EXCEPT !.pc = pc, !.resume = NoSession] \in RunState
      /\ link[active] \in Session \cup {NoSession}
      /\ run.resume \in Session \cup {NoSession}
      /\ Lineage \in Session
  <2>1. run.resume \in Session \cup {NoSession} /\ link[active] \in Session \cup {NoSession}
    BY <1>0 DEF RunState
  <2>2. Lineage \in Session
    BY <1>0, <2>1 DEF Lineage
  <2>3. QED
    BY <2>1, <2>2, RunMoves
<1>2. CASE RunMirror
  <2>1. run' = [run EXCEPT !.pc = "mirror.write", !.seen = MirrorSees(active)]
    BY <1>2 DEF RunMirror
  <2>2. run' \in RunState
    BY <1>0, <2>1, MirrorTypes, RunMoves DEF RunPc
  <2>3. run'.pc \notin {"idle", "final.write"}
    BY <2>1 DEF RunState
  <2>4. QED
    BY <1>0, <1>2, <2>2, <2>3 DEF RunMirror, Busy, vars
<1>3. CASE RunMirrorWrite
  <2>1. run' = [run EXCEPT !.pc = IF link[active] = NoSession THEN "start" ELSE "hydrate",
                           !.seen = 0, !.resume = link[active]]
    BY <1>3 DEF RunMirrorWrite
  <2>2. run' \in RunState
    BY <1>1, <2>1, RunMoves DEF RunPc
  <2>3. run'.pc \notin {"idle", "final.write"}
    BY <2>1 DEF RunState
  <2>4. store' \in [Session -> Aggregate]
    BY <1>0, <1>3, MirrorTypes DEF RunMirrorWrite, StoreStatus
  <2>5. QED
    BY <1>0, <1>3, <2>2, <2>3, <2>4 DEF RunMirrorWrite, Busy, vars
<1>4. CASE RunMirrorThrows
  <2>1. run' = [run EXCEPT !.pc = "final", !.seen = 0]
    BY <1>4 DEF RunMirrorThrows
  <2>2. run' \in RunState
    BY <2>1, RunMoves DEF RunPc
  <2>3. run'.pc \notin {"idle", "final.write"}
    BY <2>1 DEF RunState
  <2>4. QED
    BY <1>0, <1>4, <2>2, <2>3 DEF RunMirrorThrows, Busy, vars
<1>5. CASE RunHydrate
  <2>1. \/ run.resume \in live \cup rows /\ live' = live \cup {run.resume}
           /\ run' = [run EXCEPT !.pc = "drop"]
        \/ run' = [run EXCEPT !.pc = "start", !.resume = NoSession] /\ live' = live
    BY <1>5 DEF RunHydrate
  <2>2. run' \in RunState /\ live' \subseteq Session
    BY <1>1, <2>1 DEF RunPc
  <2>3. run'.pc \notin {"idle", "final.write"}
    BY <2>1 DEF RunState
  <2>4. QED
    BY <1>0, <1>5, <2>2, <2>3 DEF RunHydrate, Busy, vars
<1>6. CASE RunDrop
  <2>1. /\ run' = [run EXCEPT !.pc = "start"] /\ live' \subseteq live /\ rows' \subseteq rows
        /\ kept' \subseteq Session
    BY <1>0, <1>6 DEF RunDrop, DeleteRows, Aggregate
  <2>2. run' \in RunState
    BY <1>1, <2>1 DEF RunPc
  <2>3. run'.pc \notin {"idle", "final.write"}
    BY <2>1 DEF RunState
  <2>4. QED
    BY <1>0, <1>6, <2>1, <2>2, <2>3 DEF RunDrop, Busy, vars
<1>7. CASE RunStart
  <2>1. \/ /\ controller' = [controller EXCEPT ![active] = "attached"]
           /\ run' = [run EXCEPT !.pc = IF run.resume = NoSession THEN "setup" ELSE "rehydrate"]
        \/ run' = [run EXCEPT !.pc = "final", !.resume = NoSession] /\ controller' = controller
    BY <1>7 DEF RunStart
  <2>2. run' \in RunState
    BY <1>1, <2>1 DEF RunPc
  <2>3. run'.pc \notin {"idle", "final.write"}
    BY <2>1 DEF RunState
  <2>4. controller' \in [Session -> {"none", "attached", "fired"}]
    BY <2>1
  <2>5. running' = running
    BY <1>7 DEF RunStart, Start, vars
  <2>6. QED
    BY <1>0, <1>7, <2>2, <2>3, <2>4, <2>5 DEF RunStart, Busy
<1>8. CASE RunRehydrate
  <2>1. \/ run.resume \in live \cup rows /\ live' = live \cup {run.resume}
           /\ run' = [run EXCEPT !.pc = "setup"]
        \/ run' = [run EXCEPT !.pc = "setup", !.resume = NoSession] /\ live' = live
    BY <1>8 DEF RunRehydrate
  <2>2. run' \in RunState /\ live' \subseteq Session
    BY <1>1, <2>1 DEF RunPc
  <2>3. run'.pc \notin {"idle", "final.write"}
    BY <2>1 DEF RunState
  <2>4. QED
    BY <1>0, <1>8, <2>2, <2>3 DEF RunRehydrate, Busy, vars
<1>9. ASSUME NEW outcome, Settle(outcome),
             UNCHANGED <<store, prompt, link, kept, live, client>>, rows' \subseteq Session
      PROVE  Types' /\ Busy' /\ client' = client
  <2>1. /\ run' = [run EXCEPT !.pc = "final", !.resume = NoSession]
        /\ controller' = [controller EXCEPT ![active] = "none"]
    BY <1>9 DEF Settle
  <2>2. run' \in RunState
    BY <2>1, RunMoves DEF RunPc
  <2>3. run'.pc \notin {"idle", "final.write"}
    BY <2>1 DEF RunState
  <2>4. controller' \in [Session -> {"none", "attached", "fired"}]
    BY <2>1
  <2>5. running' = running
    BY <1>9 DEF Settle, Finish, vars
  <2>6. QED
    BY <1>0, <1>9, <2>2, <2>3, <2>4, <2>5 DEF Busy
<1>10. CASE RunSetup
  <2>1. CASE run' = [run EXCEPT !.pc = "flight"] /\ QueueAlone /\ UNCHANGED controller
    <3>1. run' \in RunState
      BY <1>1, <2>1 DEF RunPc
    <3>2. run'.pc \notin {"idle", "final.write"}
      BY <2>1 DEF RunState
    <3>3. QED
      BY <1>0, <1>10, <2>1, <3>1, <3>2 DEF RunSetup, Busy, vars
  <2>2. QED
    BY <1>9, <1>10, <2>1 DEF RunSetup
<1>11. CASE RunMember
  <2>1. /\ run' = [run EXCEPT !.member = @ + 1] /\ run.member < MaxMember
        /\ store' = [store EXCEPT ![active] = Apply(@, [type |-> "member"])]
    BY <1>11 DEF RunMember, Write
  <2>2. run.member + 1 \in 0 .. MaxMember
    BY <2>1, MemberBound DEF RunState
  <2>3. run' \in RunState
    BY <2>1, <2>2, RunUpdates
  <2>4. run'.pc # "idle" /\ (run'.pc = "final.write" => run'.outcome \in Closing)
    BY <1>0, <2>1 DEF RunState, Busy
  <2>5. Apply(store[active], [type |-> "member"]) \in Aggregate
    BY <1>0, ApplyNote DEF Moved
  <2>6. store' \in [Session -> Aggregate]
    BY <1>0, <2>1, <2>5, StoreMoves
  <2>7. QED
    BY <1>0, <1>11, <2>3, <2>4, <2>6 DEF RunMember, Busy, vars
<1>12. CASE RunSettles
  BY <1>9, <1>12 DEF RunSettles
<1>13. CASE RunAsks
  <2>1. run' = [run EXCEPT !.pc = "persist"] /\ live' = live \cup {Lineage}
    BY <1>13 DEF RunAsks
  <2>2. run' \in RunState
    BY <1>1, <2>1 DEF RunPc
  <2>3. run'.pc \notin {"idle", "final.write"}
    BY <2>1 DEF RunState
  <2>4. QED
    BY <1>0, <1>1, <1>13, <2>1, <2>2, <2>3 DEF RunAsks, Busy, vars
<1>14. CASE RunParks
  <2>1. rows' \subseteq Session
    BY <1>1, <1>14 DEF RunParks
  <2>2. QED
    BY <1>9, <1>14, <2>1 DEF RunParks
<1>15. CASE RunAborts
  <2>1. /\ run' = [run EXCEPT !.pc = "final", !.resume = NoSession]
        /\ controller' = [controller EXCEPT ![active] = "none"]
    BY <1>15 DEF RunAborts
  <2>2. run' \in RunState
    BY <2>1, RunMoves DEF RunPc
  <2>3. run'.pc \notin {"idle", "final.write"}
    BY <2>1 DEF RunState
  <2>4. controller' \in [Session -> {"none", "attached", "fired"}]
    BY <2>1
  <2>5. running' = running
    BY <1>15 DEF RunAborts, Cancel, vars
  <2>6. QED
    BY <1>0, <1>15, <2>2, <2>3, <2>4, <2>5 DEF RunAborts, Busy
<1>16. CASE RunFinal
  <2>1. run' = IF registry[active] \in Closing
               THEN [run EXCEPT !.pc = "final.write", !.outcome = registry[active],
                                !.seen = MirrorSees(active)]
               ELSE [run EXCEPT !.pc = "return"]
    BY <1>16 DEF RunFinal
  <2>2. run' \in RunState
    BY <1>0, <1>1, <2>1, MirrorTypes, RunMoves DEF RunPc
  <2>3. run'.pc # "idle" /\ (run'.pc = "final.write" => run'.outcome \in Closing)
    BY <2>1 DEF RunState
  <2>4. QED
    BY <1>0, <1>16, <2>2, <2>3 DEF RunFinal, Busy, vars
<1>17. CASE RunFinalWrite
  <2>1. run' = [run EXCEPT !.pc = IF run.outcome = "parked" THEN "return" ELSE "prune", !.seen = 0]
    BY <1>17 DEF RunFinalWrite
  <2>2. run' \in RunState
    BY <2>1, RunMoves DEF RunPc
  <2>3. run'.pc \notin {"idle", "final.write"}
    BY <2>1 DEF RunState
  <2>4. MirrorType(run.outcome) \in StoreStatus
    BY <1>17 DEF RunFinalWrite, Busy, MirrorType, Closing, StoreStatus, Terminal
  <2>5. store' \in [Session -> Aggregate]
    BY <1>0, <1>17, <2>4, MirrorTypes DEF RunFinalWrite
  <2>6. QED
    BY <1>0, <1>17, <2>2, <2>3, <2>5 DEF RunFinalWrite, Busy, vars
<1>18. CASE RunPrune
  <2>1. /\ run' = [run EXCEPT !.pc = "return"] /\ live' \subseteq live /\ rows' \subseteq rows
        /\ kept' \subseteq Session
    BY <1>18 DEF RunPrune, DeleteRows
  <2>2. run' \in RunState
    BY <1>1, <2>1 DEF RunPc
  <2>3. run'.pc \notin {"idle", "final.write"}
    BY <2>1 DEF RunState
  <2>4. QED
    BY <1>0, <1>18, <2>1, <2>2, <2>3 DEF RunPrune, Busy, vars
<1>19. CASE RunReturns
  <2>1. run' = (IF running' THEN NewRun ELSE NoRun) /\ running' \in BOOLEAN
    BY <1>19 DEF RunReturns, Return, PumpLoop, BeginInteractive, BeginStandard, Drained
  <2>2. run' \in RunState /\ (run'.pc = "idle") = ~running' /\ run'.pc # "final.write"
    BY <2>1, FreshRecords
  <2>3. QED
    BY <1>19, <2>2 DEF RunReturns, Busy
<1>20. CASE RunFinalThrows
  <2>1. run' = NoRun /\ running' = FALSE
    BY <1>20 DEF RunFinalThrows, Reject
  <2>2. run' \in RunState /\ (run'.pc = "idle") = ~running' /\ run'.pc # "final.write"
    BY <2>1, FreshRecords
  <2>3. QED
    BY <1>20, <2>2 DEF RunFinalThrows, Busy
<1>21. QED
  BY <1>2, <1>3, <1>4, <1>5, <1>6, <1>7, <1>8, <1>10, <1>11, <1>12, <1>13, <1>14,
     <1>15, <1>16, <1>17, <1>18, <1>19, <1>20 DEF RunnerStep

LEMMA ReadsTypes ==
  ASSUME Types, RequestsOnTheirWay, NEW c \in Client, NEW r \in Request, NEW pc,
         r.s \in Session, r.op \in {"cancel", "message", "reply", "steer", "ask"},
         r.child = NoSession,
         r.op = "steer" => r.saw \in {"absent", "queued", "running"},
         r.prev # "none" => r.op = "steer" /\ SawAdmitted(r),
         r.resume => r.op = "reply" /\ r.s \notin Foreign,
         \/ pc = "cancel" /\ r.op = "cancel"
         \/ pc = "write" /\ r.op \in {"message", "reply", "steer"}
         \/ pc = "steer" /\ r.op = "steer"
         \/ pc = "append" /\ r.op = "ask",
         Reads(c, r, pc)
  PROVE  client' \in [Client -> Request] /\ RequestsOnTheirWay'
<1>1. store[r.s].status \in StoreStatus /\ store[r.s].version \in Nat /\ pc \in ClientPc
  BY DEF Types, Aggregate, ClientPc
<1>2. CASE Admits(r, store[r.s])
  <2> DEFINE new == [r EXCEPT !.pc = pc, !.saw = store[r.s].status, !.seen = store[r.s].version]
  <2>1. new \in Request
    BY <1>1, RequestMoves
  <2>2. /\ new.pc = pc /\ new.saw = store[r.s].status /\ new.op = r.op /\ new.s = r.s
        /\ new.child = NoSession /\ new.prev = r.prev /\ new.resume = r.resume
    BY DEF Request
  <2>3. SawAdmitted(new)
    BY <1>2, <2>2 DEF Admits, SawAdmitted
  <2>4. OnItsWay(new)
    BY <2>2, <2>3 DEF OnItsWay
  <2>5. client' = [client EXCEPT ![c] = new]
    BY <1>2 DEF Reads
  <2>6. QED
    BY <2>1, <2>4, <2>5, ClientMoves
<1>3. CASE ~Admits(r, store[r.s])
  <2>1. client' = [client EXCEPT ![c] = Refused(r)]
    BY <1>3 DEF Reads
  <2>2. QED
    BY <2>1, RefusedIsOnItsWay, ClientMoves
<1>4. QED
  BY <1>2, <1>3

LEMMA HandlerTypes ==
  ASSUME TypeOK, Types, Busy, RequestsOnTheirWay, NEW c \in Client, Handler(c)
  PROVE  Types' /\ Busy' /\ RequestsOnTheirWay'
<1> USE DEF Types, QueueAlone, RegistryAlone, RunnerAlone
<1> DEFINE r == client[c]
<1>0. /\ r \in Request /\ OnItsWay(r)
      /\ r.s \in Session \cup {NoSession}
      /\ store \in [Session -> Aggregate]
  BY DEF RequestsOnTheirWay, Request
<1>1. CASE DeclareStep(c)
  <2>1. r.child \in Session /\ r.s \in Session /\ r.op # "none"
    BY <1>0, <1>1 DEF DeclareStep, OnItsWay
  <2>2. client' \in [Client -> Request] /\ RequestsOnTheirWay'
    BY <1>0, <1>1, <2>1, AnsweredIsDone, ClientMoves DEF DeclareStep
  <2>3. running' /\ run' = IF running THEN run ELSE NewRun
    BY <1>1, <2>1, DeclareWakes DEF DeclareStep
  <2>4. run' \in RunState /\ Busy'
    BY <2>3, FreshRecords DEF Busy
  <2>5. store[r.child].prompt \in Mission
    BY <2>1 DEF Aggregate
  <2>6. prompt' \in [Session -> Mission] /\ link' \in [Session -> Session \cup {NoSession}]
    BY <1>1, <2>1, <2>5 DEF DeclareStep
  <2>7. QED
    BY <1>1, <2>2, <2>4, <2>6 DEF DeclareStep
<1>2. ASSUME NEW new \in Request, OnItsWay(new), client' = [client EXCEPT ![c] = new]
      PROVE  client' \in [Client -> Request] /\ RequestsOnTheirWay'
  BY <1>2, ClientMoves
<1>3. ASSUME UNCHANGED <<run, running>> PROVE Busy'
  BY <1>3 DEF Busy
<1>4. CASE CancelRunning(c)
  <2>1. r.s \in Session /\ r.op # "none" /\ client' = [client EXCEPT ![c] = Answered(r, "202 best-effort")]
    BY <1>0, <1>4 DEF CancelRunning, OnItsWay
  <2>2. client' \in [Client -> Request] /\ RequestsOnTheirWay'
    BY <1>0, <1>2, <2>1, AnsweredIsDone
  <2>3. controller' \in [Session -> {"none", "attached", "fired"}]
    BY <1>4, <2>1 DEF CancelRunning
  <2>4. QED
    BY <1>3, <1>4, <2>2, <2>3 DEF CancelRunning, vars
<1>5. CASE CancelCommit(c)
  <2>1. r.s \in Session /\ r.op = "cancel" /\ r.pc = "cancel"
    BY <1>0, <1>5 DEF CancelCommit, OnItsWay
  <2>2. CASE Write(r.s, r.seen, Lifecycle("cancelled")) /\ client' = [client EXCEPT ![c].pc = "withdraw"]
    <3>1. [r EXCEPT !.pc = "withdraw"] \in Request
      BY <1>0, RequestUpdates DEF ClientPc
    <3>2. OnItsWay([r EXCEPT !.pc = "withdraw"])
      BY <1>0, <2>1 DEF OnItsWay, SawAdmitted, Request
    <3>3. client' \in [Client -> Request] /\ RequestsOnTheirWay'
      BY <1>2, <2>2, <3>1, <3>2
    <3>4. store' \in [Session -> Aggregate]
      BY <2>1, <2>2, ApplyLifecycle, StoreMoves DEF Write, Moved, StoreStatus, Terminal
    <3>5. QED
      BY <1>3, <1>5, <3>3, <3>4 DEF CancelCommit, vars
  <2>3. CASE /\ client' = [client EXCEPT ![c] =
                  IF r.try = 1 THEN [r EXCEPT !.pc = "read", !.try = 2] ELSE Answered(r, "409")]
             /\ UNCHANGED store
    <3>1. [r EXCEPT !.pc = "read", !.try = 2] \in Request
      BY <1>0, RequestMoves DEF ClientPc
    <3>2. OnItsWay([r EXCEPT !.pc = "read", !.try = 2])
      BY <1>0, <2>1 DEF OnItsWay, SawAdmitted, Request
    <3>3. client' \in [Client -> Request] /\ RequestsOnTheirWay'
      BY <1>0, <1>2, <2>1, <2>3, <3>1, <3>2, AnsweredIsDone
    <3>4. QED
      BY <1>3, <1>5, <2>3, <3>3 DEF CancelCommit, vars
  <2>4. QED
    BY <1>5, <2>2, <2>3 DEF CancelCommit
<1>6. CASE CancelWithdraw(c)
  <2>1. r.s \in Session /\ r.op = "cancel" /\ r.pc = "withdraw" /\ client' = [client EXCEPT ![c].pc = "prune"]
    BY <1>0, <1>6 DEF CancelWithdraw, OnItsWay
  <2>2. [r EXCEPT !.pc = "prune"] \in Request
    BY <1>0, RequestUpdates DEF ClientPc
  <2>3. OnItsWay([r EXCEPT !.pc = "prune"])
    BY <1>0, <2>1 DEF OnItsWay, SawAdmitted, Request
  <2>4. client' \in [Client -> Request] /\ RequestsOnTheirWay'
    BY <1>2, <2>1, <2>2, <2>3
  <2>5. UNCHANGED <<run, running>>
    BY <1>6 DEF CancelWithdraw, Cancel, vars
  <2>6. QED
    BY <1>3, <1>6, <2>4, <2>5 DEF CancelWithdraw
<1>7. CASE CancelPrune(c)
  <2>1. r.s \in Session /\ r.op # "none" /\ client' = [client EXCEPT ![c] = Answered(r, "202 cancelled")]
    BY <1>0, <1>7 DEF CancelPrune, OnItsWay
  <2>2. client' \in [Client -> Request] /\ RequestsOnTheirWay'
    BY <1>0, <1>2, <2>1, AnsweredIsDone
  <2>3. rows' \subseteq Session /\ kept' \subseteq Session
    BY <1>7, <2>1 DEF CancelPrune, DeleteRows
  <2>4. QED
    BY <1>3, <1>7, <2>2, <2>3 DEF CancelPrune, vars
<1>8. CASE Reread(c)
  <2>1. /\ r.pc = "read" /\ r.s \in Session /\ r.child = NoSession /\ SawAdmitted(r)
        /\ r.op \in {"cancel", "message", "reply", "steer"}
        /\ r.prev # "none" => r.op = "steer"
        /\ r.resume => r.op = "reply" /\ r.s \notin Foreign
        /\ Reads(c, r, IF r.op = "cancel" THEN "cancel" ELSE "write")
    BY <1>0, <1>8 DEF Reread, OnItsWay
  <2>2. r.op = "steer" => r.saw \in {"absent", "queued", "running"}
    BY <2>1 DEF SawAdmitted
  <2>3. client' \in [Client -> Request] /\ RequestsOnTheirWay'
    BY <1>0, <2>1, <2>2, ReadsTypes
  <2>4. QED
    BY <1>3, <1>8, <2>3 DEF Reread, vars
<1>9. CASE CasWrite(c)
  <2>1. /\ r.s \in Session /\ r.op \in {"message", "reply", "steer"} /\ r.pc = "write"
        /\ r.child = NoSession /\ SawAdmitted(r)
        /\ r.prev # "none" => r.op = "steer"
        /\ r.resume => r.op = "reply" /\ r.s \notin Foreign
    BY <1>0, <1>9 DEF CasWrite, OnItsWay
  <2>2. CASE Write(r.s, r.seen, Delta(c)) /\ client' = [client EXCEPT ![c] = Committed(r)]
    <3>1. ASSUME r.op = "reply" PROVE client' \in [Client -> Request] /\ RequestsOnTheirWay'
      <4>1. [r EXCEPT !.pc = "lookup"] \in Request
        BY <1>0, RequestUpdates DEF ClientPc
      <4>2. OnItsWay([r EXCEPT !.pc = "lookup"])
        BY <1>0, <2>1, <3>1 DEF OnItsWay, SawAdmitted, Request
      <4>3. QED
        BY <1>2, <2>2, <3>1, <4>1, <4>2 DEF Committed
    <3>2. ASSUME r.op # "reply" PROVE client' \in [Client -> Request] /\ RequestsOnTheirWay'
      <4>1. PICK code \in {"201", "201 interrupted"} : Committed(r) = Answered(r, code)
        BY <3>2 DEF Committed
      <4>2. Answered(r, code) \in Request /\ OnItsWay(Answered(r, code))
        BY <1>0, <2>1, AnsweredIsDone
      <4>3. QED
        BY <1>2, <2>2, <4>1, <4>2
    <3>3. Apply(store[r.s], Delta(c)) \in Aggregate
      <4>1. \/ Delta(c) = [type |-> "message"] \/ Delta(c) = [type |-> "user_reply"]
            \/ Delta(c) = [type |-> "steer", prompt |-> c]
        BY <2>1 DEF Delta, SawAdmitted
      <4>2. c \in Mission /\ store[r.s] \in Aggregate
        BY <2>1 DEF Mission
      <4>3. QED
        BY <4>1, <4>2, ApplyNote, ApplyReply, ApplySteer DEF Moved
    <3>4. store' \in [Session -> Aggregate]
      BY <2>1, <2>2, <3>3, StoreMoves DEF Write
    <3>5. QED
      BY <1>3, <1>9, <3>1, <3>2, <3>4 DEF CasWrite, vars
  <2>3. CASE /\ client' = [client EXCEPT ![c] =
                  IF r.try = 1 THEN [r EXCEPT !.pc = "read", !.try = 2] ELSE Refused(r)]
             /\ UNCHANGED store
    <3>1. [r EXCEPT !.pc = "read", !.try = 2] \in Request
      BY <1>0, RequestMoves DEF ClientPc
    <3>2. OnItsWay([r EXCEPT !.pc = "read", !.try = 2])
      BY <1>0, <2>1 DEF OnItsWay, SawAdmitted, Request
    <3>3. client' \in [Client -> Request] /\ RequestsOnTheirWay'
      BY <1>0, <1>2, <2>1, <2>3, <3>1, <3>2, RefusedIsOnItsWay
    <3>4. QED
      BY <1>3, <1>9, <2>3, <3>3 DEF CasWrite, vars
  <2>4. QED
    BY <1>9, <2>2, <2>3 DEF CasWrite
<1>10. CASE SteerQueued(c)
  <2>1. /\ r.s \in Session /\ r.op = "steer" /\ r.pc = "steer" /\ r.saw = "queued"
        /\ r.child = NoSession /\ c \in Mission /\ prompt[r.s] \in Mission
    BY <1>0, <1>10 DEF SteerQueued, OnItsWay, Mission
  <2>2. [r EXCEPT !.prev = prompt[r.s], !.pc = "read"] \in Request
    BY <1>0, <2>1, RequestMoves DEF ClientPc
  <2>3. OnItsWay([r EXCEPT !.prev = prompt[r.s], !.pc = "read"])
    BY <1>0, <2>1 DEF OnItsWay, SawAdmitted, Request
  <2>4. client' \in [Client -> Request] /\ RequestsOnTheirWay'
    BY <1>0, <1>2, <1>10, <2>1, <2>2, <2>3, AnsweredIsDone DEF SteerQueued
  <2>5. prompt' \in [Session -> Mission]
    BY <1>10, <2>1 DEF SteerQueued
  <2>6. QED
    BY <1>3, <1>10, <2>4, <2>5 DEF SteerQueued, vars
<1>11. CASE SteerRollback(c)
  <2>1. r.s \in Session /\ r.op # "none" /\ r.prev \in Mission
        /\ client' = [client EXCEPT ![c] = Answered(r, "409")]
    BY <1>0, <1>11 DEF SteerRollback, OnItsWay, Request
  <2>2. client' \in [Client -> Request] /\ RequestsOnTheirWay'
    BY <1>0, <1>2, <2>1, AnsweredIsDone
  <2>3. prompt' \in [Session -> Mission]
    BY <1>11, <2>1 DEF SteerRollback
  <2>4. QED
    BY <1>3, <1>11, <2>2, <2>3 DEF SteerRollback, vars
<1>12. CASE SteerRunning(c)
  <2>1. r.s \in Session /\ r.op = "steer" /\ r.pc = "steer" /\ r.saw = "running" /\ r.child = NoSession
    BY <1>0, <1>12 DEF SteerRunning, OnItsWay
  <2>2. [r EXCEPT !.pc = "read"] \in Request
    BY <1>0, RequestUpdates DEF ClientPc
  <2>3. OnItsWay([r EXCEPT !.pc = "read"])
    BY <1>0, <2>1 DEF OnItsWay, SawAdmitted, Request
  <2>4. client' \in [Client -> Request] /\ RequestsOnTheirWay'
    BY <1>0, <1>2, <1>12, <2>1, <2>2, <2>3, AnsweredIsDone DEF SteerRunning
  <2>5. controller' \in [Session -> {"none", "attached", "fired"}]
    BY <1>12, <2>1 DEF SteerRunning
  <2>6. QED
    BY <1>3, <1>12, <2>4, <2>5 DEF SteerRunning, vars
<1>13. CASE ReplyLookup(c)
  <2> DEFINE new == [r EXCEPT !.pc = "append", !.resume = r.s \in rows \ Foreign]
  <2>1. r.s \in Session /\ r.op = "reply" /\ r.pc = "lookup" /\ r.child = NoSession /\ SawAdmitted(r)
    BY <1>0, <1>13 DEF ReplyLookup, OnItsWay
  <2>2. client' = [client EXCEPT ![c] = new]
    BY <1>0, <1>13 DEF ReplyLookup
  <2>3. new \in Request
    <3>1. \A v \in BOOLEAN : [r EXCEPT !.pc = "append", !.resume = v] \in Request
      BY <1>0, RequestMoves DEF ClientPc
    <3>2. (r.s \in rows \ Foreign) \in BOOLEAN
      OBVIOUS
    <3>3. QED
      BY <3>1, <3>2
  <2>4. OnItsWay(new)
    BY <1>0, <2>1 DEF OnItsWay, SawAdmitted, Request
  <2>5. client' \in [Client -> Request] /\ RequestsOnTheirWay'
    BY <1>2, <2>2, <2>3, <2>4
  <2>6. QED
    BY <1>3, <1>13, <2>5 DEF ReplyLookup, vars
<1>14. ASSUME NEW f \in Interactive, FollowupAppend(c, f)
       PROVE  Types' /\ Busy' /\ RequestsOnTheirWay'
  <2> DEFINE new == [r EXCEPT !.pc = "declare", !.child = f]
  <2>1. f \in Session /\ r.s \in Session /\ r.op \in {"reply", "ask"} /\ r.pc = "append" /\ SawAdmitted(r)
    BY <1>0, <1>14 DEF FollowupAppend, OnItsWay, Session
  <2>2. client' = [client EXCEPT ![c] = new]
    BY <1>0, <1>14 DEF FollowupAppend
  <2>3. new \in Request
    BY <1>0, <2>1, RequestMoves DEF ClientPc
  <2>4. OnItsWay(new)
    BY <1>0, <2>1 DEF OnItsWay, SawAdmitted, Request
  <2>5. client' \in [Client -> Request] /\ RequestsOnTheirWay'
    BY <1>2, <2>2, <2>3, <2>4
  <2>6. FollowupMission(r) \in Mission
    BY <2>1 DEF FollowupMission, Mission, Aggregate
  <2>7. store' \in [Session -> Aggregate]
    BY <1>0, <1>14, <2>1, <2>6, ApplyCreated, StoreMoves DEF FollowupAppend, Moved
  <2>8. QED
    BY <1>3, <1>14, <2>5, <2>7 DEF FollowupAppend, vars
<1>15. QED
  BY <1>1, <1>4, <1>5, <1>6, <1>7, <1>8, <1>9, <1>10, <1>11, <1>12, <1>13, <1>14 DEF Handler

LEMMA ArrivalTypes ==
  ASSUME TypeOK, Types, Busy, RequestsOnTheirWay, NEW c \in Client,
         \/ \E op \in Ops, s \in Session : Arrive(c, op, s)
         \/ \E s \in Standard : Create(c, s) \/ RunDirectly(c, s)
  PROVE  Types' /\ Busy' /\ RequestsOnTheirWay'
<1> USE DEF Types, QueueAlone, RegistryAlone, RunnerAlone
<1>1. ASSUME NEW op \in Ops, NEW s \in Session, Arrive(c, op, s)
      PROVE  Types' /\ Busy' /\ RequestsOnTheirWay'
  <2> DEFINE r == [NoRequest EXCEPT !.op = op, !.s = s, !.try = 1]
  <2>1. op \in {"cancel", "message", "reply", "steer", "ask"}
    BY <1>1, OpsKnown DEF Arrive
  <2>2. r \in Request
    <3>1. [NoRequest EXCEPT !.op = op] \in Request
      BY <2>1, FreshRecords, RequestUpdates DEF Op
    <3>2. [NoRequest EXCEPT !.op = op, !.s = s] \in Request
      BY <3>1, RequestUpdates
    <3>3. QED
      BY <3>2, RequestUpdates
  <2>3. /\ r.op = op /\ r.s = s /\ r.child = NoSession /\ r.saw = "absent" /\ r.prev = "none"
        /\ r.resume = FALSE
    BY DEF NoRequest
  <2>4. Reads(c, r, FirstPc(op))
    BY <1>1 DEF Arrive
  <2>5. \/ FirstPc(op) = "cancel" /\ r.op = "cancel"
        \/ FirstPc(op) = "write" /\ r.op \in {"message", "reply", "steer"}
        \/ FirstPc(op) = "steer" /\ r.op = "steer"
        \/ FirstPc(op) = "append" /\ r.op = "ask"
    BY <2>1, <2>3 DEF FirstPc
  <2>6. client' \in [Client -> Request] /\ RequestsOnTheirWay'
    BY <2>1, <2>2, <2>3, <2>4, <2>5, ReadsTypes
  <2>7. QED
    BY <1>1, <2>6 DEF Arrive, Busy, vars
<1>2. ASSUME NEW s \in Standard, Create(c, s) PROVE Types' /\ Busy' /\ RequestsOnTheirWay'
  <2> DEFINE new == [NoRequest EXCEPT !.op = "create", !.s = s, !.child = s, !.pc = "declare"]
  <2>1. s \in Session /\ client' = [client EXCEPT ![c] = new]
    BY <1>2 DEF Create, Session
  <2>2. new \in Request
    <3>1. \A x \in Request : [x EXCEPT !.s = s] \in Request /\ [x EXCEPT !.child = s] \in Request
      BY <2>1, RequestUpdates
    <3>2. \A x \in Request : /\ [x EXCEPT !.op = "create"] \in Request
                             /\ [x EXCEPT !.pc = "declare"] \in Request
      BY RequestUpdates DEF Op, ClientPc
    <3>3. QED
      BY <3>1, <3>2, FreshRecords
  <2>3. OnItsWay(new)
    <3>1. /\ new.pc = "declare" /\ new.s = s /\ new.op = "create" /\ new.child = s
          /\ new.prev = "none" /\ new.resume = FALSE
      BY DEF NoRequest
    <3>2. QED
      BY <2>1, <3>1 DEF OnItsWay
  <2>4. client' \in [Client -> Request] /\ RequestsOnTheirWay'
    BY <2>1, <2>2, <2>3, ClientMoves
  <2>5. store' \in [Session -> Aggregate]
    <3>1. "asked" \in Mission /\ NoSession \in Session \cup {NoSession} /\ store[s] \in Aggregate
      BY <2>1 DEF Mission
    <3>2. Apply(store[s], [type |-> "created", prompt |-> "asked", resumeOf |-> NoSession]) \in Aggregate
      BY <3>1, ApplyCreated DEF Moved
    <3>3. QED
      BY <1>2, <2>1, <3>2, StoreMoves DEF Create
  <2>6. QED
    BY <1>2, <2>4, <2>5 DEF Create, Busy, vars
<1>3. ASSUME NEW s \in Standard, RunDirectly(c, s) PROVE Types' /\ Busy' /\ RequestsOnTheirWay'
  <2> DEFINE r == [NoRequest EXCEPT !.op = "run", !.s = s]
  <2>1. s \in Session /\ client' = [client EXCEPT ![c] = Answered(r, "201")]
    BY <1>3 DEF RunDirectly, Session
  <2>2. r \in Request /\ r.s = s /\ r.op = "run"
    BY <2>1, FreshRecords, RequestUpdates DEF NoRequest, Op
  <2>3. client' \in [Client -> Request] /\ RequestsOnTheirWay'
    BY <2>1, <2>2, AnsweredIsDone, ClientMoves
  <2>4. running' /\ run' = IF running THEN run ELSE NewRun
    BY <1>3, <2>1, DeclareWakes DEF RunDirectly
  <2>5. run' \in RunState /\ Busy'
    BY <2>4, FreshRecords DEF Busy
  <2>6. prompt' \in [Session -> Mission]
    BY <1>3, <2>1 DEF RunDirectly, Mission
  <2>7. QED
    BY <1>3, <2>3, <2>5, <2>6 DEF RunDirectly
<1>4. QED
  BY <1>1, <1>2, <1>3

\* The four together are inductive.
Grounds == TypeOK /\ Types /\ Busy /\ RequestsOnTheirWay

LEMMA GroundsAtStart == LifecycleInit => Init /\ Grounds
<1> SUFFICES ASSUME LifecycleInit PROVE Init /\ Grounds
  OBVIOUS
<1>1. Init /\ TypeOK
  BY TypeAtStart DEF LifecycleInit
<1>2. Types /\ RequestsOnTheirWay
  BY FreshRecords DEF LifecycleInit, Types, RequestsOnTheirWay, Mission
<1>3. Busy
  BY FreshRecords DEF LifecycleInit, Busy, Init, NoRun
<1>4. QED
  BY <1>1, <1>2, <1>3 DEF Grounds

LEMMA GroundsStep == Grounds /\ [LifecycleNext]_allVars => [Next]_vars /\ Grounds'
<1> SUFFICES ASSUME Grounds, [LifecycleNext]_allVars PROVE [Next]_vars /\ Grounds'
  OBVIOUS
<1> USE DEF Grounds
<1>1. [Next]_vars /\ TypeOK'
  BY StepsOfTheQueue, TypeStep
<1>2. Types' /\ Busy' /\ RequestsOnTheirWay'
  <2>1. CASE UNCHANGED allVars
    BY <2>1 DEF allVars, extra, vars, Types, Busy, RequestsOnTheirWay
  <2>2. CASE RunnerStep
    BY <2>2, RunnerTypes DEF RequestsOnTheirWay
  <2>3. CASE LifecycleNext /\ ~RunnerStep
    BY <2>3, ArrivalTypes, HandlerTypes DEF LifecycleNext
  <2>4. QED
    BY <2>1, <2>2, <2>3
<1>3. QED
  BY <1>1, <1>2

\* In every state, and a run of the lifecycle is a run of the queue.
LEMMA GroundsHold == LifecycleSteps => []Grounds /\ Steps
<1>1. LifecycleSteps => []Grounds
  BY GroundsAtStart, GroundsStep, PTL DEF LifecycleSteps
<1>2. QED
  BY <1>1, GroundsAtStart, GroundsStep, PTL DEF LifecycleSteps, Steps

-----------------------------------------------------------------------------
(* The run, the registry and the controller.                               *)

ClientStep(c) ==
  \/ \E op \in Ops, s \in Session : Arrive(c, op, s)
  \/ \E s \in Standard : Create(c, s) \/ RunDirectly(c, s)
  \/ Handler(c)

\* What a request does to the queue and to its run: nothing; or it cancels a
\* session; or it declares one, and wakes the pump if it was asleep.
ClientMovesQueue ==
  \/ UNCHANGED <<registry, active, run>>
  \/ \E s \in Session :
       /\ registry[s] \in {"queued", "parked", "running"}
       /\ registry' = [registry EXCEPT ![s] = "cancelled"]
       /\ UNCHANGED <<active, run>>
  \/ \E s \in Session :
       /\ registry[s] = "absent"
       /\ registry' = [registry EXCEPT ![s] = "queued"]
       /\ \/ UNCHANGED <<active, run>>
          \/ /\ active = NoSession /\ active' \in Session
             /\ registry'[active'] = "queued"
             /\ run' = NewRun

LEMMA DeclareMoves ==
  ASSUME Grounds, WaitingInv, NEW s \in Session, Declare(s), TypeOK',
         run' = IF running THEN run ELSE NewRun
  PROVE  ClientMovesQueue
<1>1. running' /\ registry' = [registry EXCEPT ![s] = "queued"] /\ registry[s] = "absent"
  BY DeclareWakes DEF Grounds, Declare
<1>2. CASE running
  BY <1>1, <1>2 DEF ClientMovesQueue, Declare
<1>3. CASE ~running
  <2>1. active = NoSession /\ active' \in Session
    BY <1>1, <1>3 DEF Grounds, TypeOK
  <2>2. registry'[active'] = "queued"
    BY <1>3, <2>1, PickedIsQueued, NoSessionFresh DEF Grounds
  <2>3. QED
    BY <1>1, <1>3, <2>1, <2>2 DEF ClientMovesQueue
<1>4. QED
  BY <1>2, <1>3

LEMMA ClientsAndTheQueue ==
  ASSUME Grounds, WaitingInv, TypeOK', NEW c \in Client, ClientStep(c)
  PROVE  ClientMovesQueue
<1> USE DEF QueueAlone, RunnerAlone, vars
<1>0. client[c] \in Request /\ OnItsWay(client[c])
  BY DEF Grounds, Types, RequestsOnTheirWay
<1>1. ASSUME NEW op \in Ops, NEW s \in Session, Arrive(c, op, s) PROVE ClientMovesQueue
  BY <1>1 DEF Arrive, ClientMovesQueue
<1>2. ASSUME NEW s \in Standard, Create(c, s) PROVE ClientMovesQueue
  BY <1>2 DEF Create, ClientMovesQueue
<1>3. ASSUME NEW s \in Standard, RunDirectly(c, s) PROVE ClientMovesQueue
  BY <1>3, DeclareMoves DEF RunDirectly, Session
<1>4. CASE DeclareStep(c)
  BY <1>0, <1>4, DeclareMoves DEF DeclareStep, OnItsWay
<1>5. CASE CancelWithdraw(c)
  BY <1>0, <1>5 DEF CancelWithdraw, Cancel, OnItsWay, ClientMovesQueue
<1>6. CASE Handler(c) /\ ~DeclareStep(c) /\ ~CancelWithdraw(c)
  BY <1>6 DEF Handler, CancelRunning, CancelCommit, CancelPrune, Reread, CasWrite, SteerQueued,
     SteerRollback, SteerRunning, ReplyLookup, FollowupAppend, ClientMovesQueue
<1>7. QED
  BY <1>1, <1>2, <1>3, <1>4, <1>5, <1>6 DEF ClientStep

\* And to the controllers: it can only fire one that is attached to a running
\* session.
LEMMA ClientsAndTheControllers ==
  ASSUME Grounds, NEW c \in Client, ClientStep(c), NEW t \in Session
  PROVE  \/ controller'[t] = controller[t]
         \/ Abortable(t) /\ controller'[t] = "fired"
<1> USE DEF RegistryAlone
<1>0. controller \in [Session -> {"none", "attached", "fired"}]
  BY DEF Grounds, Types
<1>1. CASE CancelRunning(c)
  BY <1>0, <1>1 DEF CancelRunning
<1>2. CASE SteerRunning(c)
  BY <1>0, <1>2 DEF SteerRunning
<1>3. CASE ~CancelRunning(c) /\ ~SteerRunning(c)
  BY <1>3 DEF ClientStep, Arrive, Create, RunDirectly, Handler, DeclareStep, CancelCommit,
     CancelWithdraw, CancelPrune, Reread, CasWrite, SteerQueued, SteerRollback, ReplyLookup,
     FollowupAppend
<1>4. QED
  BY <1>1, <1>2, <1>3

RunInv == RunAgrees /\ AbortReachesTheRun

LEMMA ClientsKeepRunInv ==
  ASSUME Grounds, Grounds', WaitingInv, RunInv, NEW c \in Client, ClientStep(c)
  PROVE  RunInv'
<1>1. /\ registry \in [Session -> Status] /\ run.pc \in RunPc
      /\ run.pc = "idle" => active = NoSession
      /\ run.pc # "idle" => active \in Session
      /\ run.pc = "final.write" => run.outcome \in Closing
  BY ActiveWhileBusy DEF Grounds, TypeOK, Types, RunState, Busy
<1>2. ClientMovesQueue
  BY ClientsAndTheQueue DEF Grounds
<1>3. \A t \in Session : controller'[t] # "none" => controller[t] # "none"
  BY ClientsAndTheControllers DEF Abortable
<1>4. CASE UNCHANGED <<registry, active, run>>
  BY <1>3, <1>4 DEF RunInv, RunAgrees, AbortReachesTheRun
<1>5. ASSUME NEW s \in Session,
             registry[s] \in {"queued", "parked", "running"},
             registry' = [registry EXCEPT ![s] = "cancelled"],
             UNCHANGED <<active, run>>
      PROVE  RunInv'
  <2>1. \A t \in Session : registry'[t] = IF t = s THEN "cancelled" ELSE registry[t]
    BY <1>1, <1>5
  <2>2. RunAgrees'
    BY <1>1, <1>5, <2>1 DEF RunInv, RunAgrees, Closing, Terminal
  <2>3. AbortReachesTheRun'
    BY <1>3, <1>5, <2>1 DEF RunInv, AbortReachesTheRun
  <2>4. QED
    BY <2>2, <2>3 DEF RunInv
<1>6. ASSUME NEW s \in Session,
             registry[s] = "absent",
             registry' = [registry EXCEPT ![s] = "queued"],
             UNCHANGED <<active, run>>
      PROVE  RunInv'
  <2>1. \A t \in Session : registry'[t] = IF t = s THEN "queued" ELSE registry[t]
    BY <1>1, <1>6
  <2>2. RunAgrees'
    BY <1>1, <1>6, <2>1 DEF RunInv, RunAgrees, Closing, Terminal
  <2>3. AbortReachesTheRun'
    BY <1>3, <1>6, <2>1 DEF RunInv, AbortReachesTheRun
  <2>4. QED
    BY <2>2, <2>3 DEF RunInv
<1>7. ASSUME active = NoSession, active' \in Session, registry'[active'] = "queued", run' = NewRun
      PROVE  RunInv'
  <2>1. run'.pc = "mirror"
    BY <1>7, FreshRecords
  <2>2. \A t \in Session : controller[t] = "none"
    BY <1>7, NoSessionFresh DEF RunInv, AbortReachesTheRun
  <2>3. QED
    BY <1>3, <1>7, <2>1, <2>2 DEF RunInv, RunAgrees, AbortReachesTheRun
<1>8. QED
  BY <1>2, <1>4, <1>5, <1>6, <1>7 DEF ClientMovesQueue

LEMMA RunnerKeepsRunInv ==
  ASSUME Grounds, Grounds', WaitingInv, RunInv, RunnerStep
  PROVE  RunInv'
<1> USE DEF QueueAlone, RegistryAlone, vars
<1>1. /\ registry \in [Session -> Status] /\ run \in RunState
      /\ controller \in [Session -> {"none", "attached", "fired"}]
      /\ run.pc = "final.write" => run.outcome \in Closing
  BY DEF Grounds, TypeOK, Types, Busy
<1>2. run.pc # "idle" /\ active \in Session
  <2>1. run.pc # "idle"
    BY DEF RunnerStep, RunMirror, RunMirrorWrite, RunMirrorThrows, RunHydrate, RunDrop,
       RunStart, RunRehydrate, RunSetup, RunMember, RunSettles, RunAsks, RunParks,
       RunAborts, RunFinal, RunFinalWrite, RunFinalThrows, RunPrune, RunReturns
  <2>2. QED
    BY <2>1, ActiveWhileBusy DEF Grounds
<1>3. ASSUME UNCHANGED <<registry, active, controller>>, run'.pc = run.pc,
             run'.outcome = run.outcome
      PROVE  RunInv'
  BY <1>3 DEF RunInv, RunAgrees, AbortReachesTheRun
\* Before the run is started, and after it is settled, there is no controller.
<1>4. ASSUME UNCHANGED <<registry, active, controller>>,
             run.pc \notin {"rehydrate", "setup", "flight", "persist"},
             RunAgrees'
      PROVE  RunInv'
  BY <1>4 DEF RunInv, AbortReachesTheRun
<1>5. CASE RunMirror \/ RunMirrorWrite \/ RunMirrorThrows \/ RunHydrate \/ RunDrop
  <2>1. /\ UNCHANGED <<registry, active, controller>>
        /\ run.pc \in {"mirror", "mirror.write", "hydrate", "drop"}
        /\ run'.pc \in {"mirror.write", "hydrate", "drop", "start", "final"}
    BY <1>1, <1>5 DEF RunMirror, RunMirrorWrite, RunMirrorThrows, RunHydrate, RunDrop, RunState
  <2>2. RunAgrees'
    BY <2>1 DEF RunInv, RunAgrees, Closing
  <2>3. QED
    BY <1>4, <2>1, <2>2
<1>6. CASE RunStart
  <2>1. CASE registry[active] # "queued" /\ UNCHANGED <<vars, controller>> /\ run'.pc = "final"
    <3>1. registry[active] = "cancelled"
      BY <1>6, <2>1 DEF RunInv, RunAgrees, RunStart
    <3>2. RunAgrees'
      BY <2>1, <3>1 DEF RunAgrees, Closing
    <3>3. QED
      BY <1>4, <1>6, <2>1, <3>2 DEF RunStart
  <2>2. CASE /\ Start /\ controller' = [controller EXCEPT ![active] = "attached"]
             /\ run'.pc \in {"setup", "rehydrate"}
    <3>1. registry'[active] = "running" /\ active' = active
      BY <1>1, <1>2, <2>2 DEF Start
    <3>2. RunAgrees'
      BY <2>2, <3>1 DEF RunAgrees
    <3>3. \A t \in Session : t # active => controller'[t] = controller[t]
      BY <1>1, <2>2
    <3>4. AbortReachesTheRun'
      BY <2>2, <3>1, <3>3 DEF RunInv, AbortReachesTheRun
    <3>5. QED
      BY <3>2, <3>4 DEF RunInv
  <2>3. QED
    BY <1>1, <1>6, <2>1, <2>2 DEF RunStart, RunState
<1>7. CASE RunRehydrate \/ RunAsks \/ (RunSetup /\ QueueAlone /\ UNCHANGED controller /\ run'.pc = "flight")
  <2>1. /\ UNCHANGED <<registry, active, controller>>
        /\ run.pc \in {"rehydrate", "setup", "flight"}
        /\ run'.pc \in {"setup", "flight", "persist"}
    BY <1>1, <1>7 DEF RunRehydrate, RunSetup, RunAsks, RunState
  <2>2. QED
    BY <2>1 DEF RunInv, RunAgrees, AbortReachesTheRun
\* A run that settles, or is aborted, leaves an outcome and no controller.
<1>8. ASSUME run.pc \in {"setup", "flight", "persist"},
             \/ \E outcome \in Closing : registry' = [registry EXCEPT ![active] = outcome]
             \/ registry[active] # "running" /\ registry' = registry,
             active' = active,
             controller' = [controller EXCEPT ![active] = "none"],
             run'.pc = "final"
      PROVE  RunInv'
  <2>1. registry'[active] \in Closing
    BY <1>1, <1>2, <1>8 DEF RunInv, RunAgrees, Closing
  <2>2. RunAgrees'
    BY <1>8, <2>1 DEF RunAgrees
  <2>3. \A t \in Session : controller'[t] = "none"
    BY <1>1, <1>8 DEF RunInv, AbortReachesTheRun
  <2>4. QED
    BY <2>2, <2>3 DEF RunInv, AbortReachesTheRun
<1>9. ASSUME NEW outcome \in {"succeeded", "failed", "parked"}, Settle(outcome),
             run.pc \in {"setup", "flight", "persist"}
      PROVE  RunInv'
  <2>1. /\ \/ registry' = [registry EXCEPT ![active] = outcome]
           \/ registry[active] # "running" /\ registry' = registry
        /\ active' = active
        /\ controller' = [controller EXCEPT ![active] = "none"]
        /\ run'.pc = "final"
    BY <1>1, <1>9 DEF Settle, Finish, RunState
  <2>2. outcome \in Closing
    BY DEF Closing
  <2>3. QED
    BY <1>8, <1>9, <2>1, <2>2
<1>10. CASE RunSetup
  BY <1>1, <1>7, <1>9, <1>10 DEF RunSetup, RunState
<1>11. CASE RunSettles
  BY <1>9, <1>11 DEF RunSettles
<1>12. CASE RunParks
  BY <1>9, <1>12 DEF RunParks
<1>13. CASE RunAborts
  <2>1. /\ \/ registry' = [registry EXCEPT ![active] = "cancelled"]
           \/ registry[active] # "running" /\ registry' = registry
        /\ active' = active
        /\ controller' = [controller EXCEPT ![active] = "none"]
        /\ run'.pc = "final" /\ run.pc = "flight"
    BY <1>1, <1>13 DEF RunAborts, Cancel, RunState
  <2>2. "cancelled" \in Closing
    BY DEF Closing
  <2>3. QED
    BY <1>8, <2>1, <2>2
<1>14. CASE RunMember
  BY <1>1, <1>3, <1>14 DEF RunMember, RunState
<1>15. CASE RunFinal \/ RunFinalWrite \/ RunPrune
  <2>1. UNCHANGED <<registry, active, controller>> /\ run.pc \in {"final", "final.write", "prune"}
    BY <1>15 DEF RunFinal, RunFinalWrite, RunPrune
  <2>2. RunAgrees'
    <3>1. CASE RunFinal
      BY <1>1, <2>1, <3>1 DEF RunFinal, RunInv, RunAgrees, RunState
    <3>2. CASE RunFinalWrite
      BY <1>1, <2>1, <3>2 DEF RunFinalWrite, RunInv, RunAgrees, RunState, Closing, Terminal
    <3>3. CASE RunPrune
      BY <1>1, <2>1, <3>3 DEF RunPrune, RunInv, RunAgrees, RunState, Closing, Terminal
    <3>4. QED
      BY <1>15, <3>1, <3>2, <3>3
  <2>3. QED
    BY <1>4, <2>1, <2>2
<1>16. CASE RunReturns
  <2>1. Return /\ run' = (IF running' THEN NewRun ELSE NoRun) /\ run.pc = "return"
        /\ UNCHANGED controller
    BY <1>16 DEF RunReturns
  <2>2. active' # NoSession => run'.pc = "mirror" /\ registry'[active'] = "queued"
    BY <2>1, PickedIsQueued, FreshRecords DEF Grounds, TypeOK
  <2>3. active' = NoSession => run'.pc = "idle"
    BY <2>1, FreshRecords DEF Grounds, TypeOK
  <2>4. RunAgrees'
    BY <2>2, <2>3 DEF RunAgrees
  <2>5. \A t \in Session : controller'[t] = "none"
    BY <2>1 DEF RunInv, AbortReachesTheRun
  <2>6. QED
    BY <2>4, <2>5 DEF RunInv, AbortReachesTheRun
<1>17. CASE RunFinalThrows
  <2>1. /\ run.pc \in {"final", "final.write"} /\ active' = NoSession /\ run'.pc = "idle"
        /\ UNCHANGED controller
    BY <1>17, FreshRecords DEF RunFinalThrows, Reject
  <2>2. \A t \in Session : controller'[t] = "none"
    BY <2>1 DEF RunInv, AbortReachesTheRun
  <2>3. QED
    BY <2>1, <2>2 DEF RunInv, RunAgrees, AbortReachesTheRun
<1>18. QED
  BY <1>5, <1>6, <1>7, <1>10, <1>11, <1>12, <1>13, <1>14, <1>15, <1>16, <1>17 DEF RunnerStep

LEMMA RunInvHolds == LifecycleSteps => []RunInv
<1>1. LifecycleInit => RunInv
  BY DEF LifecycleInit, RunInv, RunAgrees, AbortReachesTheRun, NoRun
<1>2. Grounds /\ Grounds' /\ WaitingInv /\ RunInv /\ [LifecycleNext]_allVars => RunInv'
  <2> SUFFICES ASSUME Grounds, Grounds', WaitingInv, RunInv, [LifecycleNext]_allVars PROVE RunInv'
    OBVIOUS
  <2>1. CASE UNCHANGED allVars
    BY <2>1 DEF allVars, extra, vars, RunInv, RunAgrees, AbortReachesTheRun
  <2>2. CASE RunnerStep
    BY <2>2, RunnerKeepsRunInv
  <2>3. ASSUME NEW c \in Client, ClientStep(c) PROVE RunInv'
    BY <2>3, ClientsKeepRunInv
  <2>4. QED
    BY <2>1, <2>2, <2>3 DEF LifecycleNext, ClientStep
<1>3. QED
  BY <1>1, <1>2, GroundsHold, WaitingInvHolds, PTL DEF LifecycleSteps

\* A cancel or a steer that reports it interrupted a run reached one: the
\* controller registry.attachAbort keeps is the live run's, and no later run of
\* the daemon inherits it.
THEOREM AbortsReachTheRun == LifecycleSpec => []AbortReachesTheRun
BY RunInvHolds, PTL DEF LifecycleSpec, LifecycleSteps, RunInv

-----------------------------------------------------------------------------
(* The requests and the store.                                             *)

Creates(s, o) ==
  /\ store[s].status = "absent"
  /\ \E m \in Mission :
       store' = [store EXCEPT ![s] =
                   Apply(@, [type |-> "created", prompt |-> m, resumeOf |-> o])]

\* What a step makes of its request: it keeps its aim; it writes only what it
\* has just read; it looks a checkpoint up once its reply is on record; and it
\* declares what it has just created.
Fate(c, r, n) ==
  /\ \A d \in Client : d # c => client'[d] = client[d]
  /\ r.pc # "idle" => n.op = r.op /\ n.s = r.s
  /\ n.pc \in {"cancel", "write"} =>
       /\ UNCHANGED store
       /\ n.seen = store[n.s].version /\ n.saw = store[n.s].status
       /\ n.op = "reply" => store[n.s].replies = 0
  /\ n.pc = "lookup" =>
       r.pc = "write" /\ r.op = "reply" /\ Write(r.s, r.seen, [type |-> "user_reply"])
  /\ n.pc = "append" /\ n.op = "reply" => r.pc = "lookup"
  /\ n.pc = "prune" => r.pc = "withdraw"
  /\ n.op = "reply" /\ n.child # NoSession => r.pc = "append" \/ r.child # NoSession
  /\ n.pc = "declare" =>
       \E o \in Session \cup {NoSession} :
         /\ Creates(n.child, o)
         /\ n.resume => o = n.s /\ n.child \notin Foreign

\* A request that only goes on to a step that reads and writes nothing.
LEMMA FateOfTheRest ==
  ASSUME Types, NEW c \in Client, NEW n, client' = [client EXCEPT ![c] = n],
         client[c].pc # "idle" => n.op = client[c].op /\ n.s = client[c].s,
         n.pc \in {"read", "steer", "rollback", "withdraw", "done"}
           \/ (n.pc = "append" /\ n.op # "reply"),
         n.child = client[c].child \/ n.op # "reply"
  PROVE  Fate(c, client[c], client'[c])
BY DEF Types, Fate

LEMMA FateOfReads ==
  ASSUME Types, NEW c \in Client, NEW r \in Request, NEW pc,
         Reads(c, r, pc), UNCHANGED store,
         r.s \in Session, r.op # "none", r.child = NoSession, client[c].child = NoSession,
         r.prev # "none" => r.op = "steer" /\ SawAdmitted(r),
         r.resume => r.op = "reply" /\ r.s \notin Foreign,
         client[c].pc # "idle" => r.op = client[c].op /\ r.s = client[c].s,
         \/ pc \in {"cancel", "write", "steer"}
         \/ pc = "append" /\ r.op # "reply"
  PROVE  Fate(c, client[c], client'[c])
<1>1. CASE Admits(r, store[r.s])
  <2> DEFINE n == [r EXCEPT !.pc = pc, !.saw = store[r.s].status, !.seen = store[r.s].version]
  <2>1. client' = [client EXCEPT ![c] = n]
    BY <1>1 DEF Reads
  <2>2. /\ n.pc = pc /\ n.op = r.op /\ n.s = r.s /\ n.child = r.child
        /\ n.saw = store[r.s].status /\ n.seen = store[r.s].version
    BY DEF Request
  <2>3. n.op = "reply" => store[n.s].replies = 0
    BY <1>1, <2>2 DEF Admits
  <2>4. client'[c] = n /\ \A d \in Client : d # c => client'[d] = client[d]
    BY <2>1 DEF Types
  <2>5. QED
    BY <2>2, <2>3, <2>4 DEF Fate
<1>2. CASE ~Admits(r, store[r.s])
  <2>1. client' = [client EXCEPT ![c] = Refused(r)]
    BY <1>2 DEF Reads
  <2>2. /\ Refused(r).pc \in {"done", "rollback"}
        /\ Refused(r).op = r.op /\ Refused(r).s = r.s /\ Refused(r).child = r.child
    BY RefusedIsOnItsWay
  <2>3. QED
    BY <2>1, <2>2, FateOfTheRest
<1>3. QED
  BY <1>1, <1>2

LEMMA RequestFate ==
  ASSUME Grounds, NEW c \in Client, ClientStep(c)
  PROVE  Fate(c, client[c], client'[c])
<1> DEFINE r == client[c]
<1>0. Types /\ r \in Request /\ OnItsWay(r) /\ store \in [Session -> Aggregate]
  BY DEF Grounds, Types, RequestsOnTheirWay
<1>a. ASSUME NEW code \in {"201", "201 interrupted", "202 best-effort", "202 cancelled", "409"},
             client' = [client EXCEPT ![c] = Answered(r, code)], r.s \in Session, r.op # "none"
      PROVE  Fate(c, client[c], client'[c])
  <2>1. /\ Answered(r, code).pc = "done" /\ Answered(r, code).op = r.op
        /\ Answered(r, code).s = r.s /\ Answered(r, code).child = r.child
    BY <1>0, <1>a, AnsweredIsDone
  <2>2. QED
    BY <1>0, <1>a, <2>1, FateOfTheRest
<1>b. ASSUME NEW n, client' = [client EXCEPT ![c] = n],
             n.pc \in {"read", "steer", "rollback", "withdraw", "done"},
             n.op = r.op, n.s = r.s, n.child = r.child
      PROVE  Fate(c, client[c], client'[c])
  BY <1>0, <1>b, FateOfTheRest
<1>1. ASSUME NEW op \in Ops, NEW s \in Session, Arrive(c, op, s)
      PROVE  Fate(c, client[c], client'[c])
  <2> DEFINE new == [NoRequest EXCEPT !.op = op, !.s = s, !.try = 1]
  <2>1. op \in {"cancel", "message", "reply", "steer", "ask"} /\ op \in Op
    BY <1>1, OpsKnown DEF Arrive, Op
  <2>2. new \in Request
    <3>1. [NoRequest EXCEPT !.op = op] \in Request
      BY <2>1, FreshRecords, RequestUpdates
    <3>2. [NoRequest EXCEPT !.op = op, !.s = s] \in Request
      BY <3>1, RequestUpdates
    <3>3. QED
      BY <3>2, RequestUpdates
  <2>3. /\ new.op = op /\ new.s = s /\ new.child = NoSession /\ new.prev = "none"
        /\ new.resume = FALSE
    BY DEF NoRequest
  <2>4. client[c].pc = "idle" /\ client[c].child = NoSession
    BY <1>0, <1>1 DEF Arrive, OnItsWay, NoRequest
  <2>5. \/ FirstPc(op) = "cancel" \/ FirstPc(op) = "write" \/ FirstPc(op) = "steer"
        \/ FirstPc(op) = "append" /\ op = "ask"
    BY <2>1 DEF FirstPc
  <2>6. Reads(c, new, FirstPc(op)) /\ UNCHANGED store
    BY <1>1 DEF Arrive
  <2>7. QED
    BY <1>0, <2>1, <2>2, <2>3, <2>4, <2>5, <2>6, FateOfReads
<1>2. ASSUME NEW s \in Standard, Create(c, s) PROVE Fate(c, client[c], client'[c])
  <2> DEFINE new == [NoRequest EXCEPT !.op = "create", !.s = s, !.child = s, !.pc = "declare"]
  <2>1. client' = [client EXCEPT ![c] = new] /\ client[c].pc = "idle"
    BY <1>2 DEF Create
  <2>2. client'[c] = new /\ \A d \in Client : d # c => client'[d] = client[d]
    BY <1>0, <2>1 DEF Types
  <2>3. new.pc = "declare" /\ new.op = "create" /\ new.child = s /\ new.resume = FALSE
    BY DEF NoRequest
  <2>4. Creates(s, NoSession)
    BY <1>2 DEF Create, Creates, Mission
  <2>5. QED
    BY <2>1, <2>2, <2>3, <2>4 DEF Fate
<1>3. ASSUME NEW s \in Standard, RunDirectly(c, s) PROVE Fate(c, client[c], client'[c])
  <2> DEFINE new == [NoRequest EXCEPT !.op = "run", !.s = s]
  <2>1. s \in Session /\ client' = [client EXCEPT ![c] = Answered(new, "201")]
        /\ client[c].pc = "idle"
    BY <1>3 DEF RunDirectly, Session
  <2>2. new \in Request /\ new.s = s /\ new.op = "run"
    BY <2>1, FreshRecords, RequestUpdates DEF NoRequest, Op
  <2>3. Answered(new, "201").pc = "done" /\ Answered(new, "201").op = "run"
    BY <2>1, <2>2, AnsweredIsDone
  <2>4. QED
    BY <1>0, <2>1, <2>3, FateOfTheRest
<1>4. CASE DeclareStep(c)
  <2>1. r.s \in Session /\ r.op # "none"
    BY <1>0, <1>4 DEF DeclareStep, OnItsWay
  <2>2. QED
    BY <1>4, <1>a, <2>1 DEF DeclareStep
<1>5. CASE CancelRunning(c)
  BY <1>0, <1>5, <1>a DEF CancelRunning, OnItsWay
<1>6. CASE CancelCommit(c)
  <2>1. r.s \in Session /\ r.op # "none"
    BY <1>0, <1>6 DEF CancelCommit, OnItsWay
  <2>2. CASE client' = [client EXCEPT ![c].pc = "withdraw"]
    <3> DEFINE n == [r EXCEPT !.pc = "withdraw"]
    <3>1. n.pc = "withdraw" /\ n.op = r.op /\ n.s = r.s /\ n.child = r.child
      BY <1>0 DEF Request
    <3>2. client' = [client EXCEPT ![c] = n]
      BY <2>2
    <3>3. QED
      BY <1>b, <3>1, <3>2
  <2>3. CASE client' = [client EXCEPT ![c] = [r EXCEPT !.pc = "read", !.try = 2]]
    <3> DEFINE n == [r EXCEPT !.pc = "read", !.try = 2]
    <3>1. n.pc = "read" /\ n.op = r.op /\ n.s = r.s /\ n.child = r.child
      BY <1>0 DEF Request
    <3>2. QED
      BY <1>b, <2>3, <3>1
  <2>4. CASE client' = [client EXCEPT ![c] = Answered(r, "409")]
    BY <1>a, <2>1, <2>4
  <2>5. QED
    BY <1>6, <2>2, <2>3, <2>4 DEF CancelCommit
<1>7. CASE CancelWithdraw(c)
  <2> DEFINE n == [r EXCEPT !.pc = "prune"]
  <2>1. n.pc = "prune" /\ n.op = r.op /\ n.s = r.s /\ n.child = r.child /\ r.pc = "withdraw"
        /\ r.child = NoSession
    BY <1>0, <1>7 DEF Request, CancelWithdraw, OnItsWay
  <2>2. client'[c] = n /\ \A d \in Client : d # c => client'[d] = client[d]
    BY <1>0, <1>7 DEF CancelWithdraw, Types
  <2>3. QED
    BY <2>1, <2>2 DEF Fate
<1>8. CASE CancelPrune(c)
  BY <1>0, <1>8, <1>a DEF CancelPrune, OnItsWay
<1>9. CASE Reread(c)
  <2>1. /\ r.pc = "read" /\ r.s \in Session /\ r.child = NoSession /\ SawAdmitted(r)
        /\ r.op \in {"cancel", "message", "reply", "steer"}
        /\ r.prev # "none" => r.op = "steer"
        /\ r.resume => r.op = "reply" /\ r.s \notin Foreign
        /\ UNCHANGED store
    BY <1>0, <1>9 DEF Reread, OnItsWay
  <2>2. PICK pc \in {"cancel", "write"} : Reads(c, r, pc)
    BY <1>9 DEF Reread
  <2>3. QED
    BY <1>0, <2>1, <2>2, FateOfReads
<1>10. CASE CasWrite(c)
  <2>1. /\ r.s \in Session /\ r.op \in {"message", "reply", "steer"} /\ r.pc = "write"
        /\ r.child = NoSession /\ SawAdmitted(r)
        /\ r.prev # "none" => r.op = "steer"
        /\ r.resume => r.op = "reply" /\ r.s \notin Foreign
    BY <1>0, <1>10 DEF CasWrite, OnItsWay
  <2>2. CASE Write(r.s, r.seen, Delta(c)) /\ client' = [client EXCEPT ![c] = Committed(r)]
    <3>1. CASE r.op = "reply"
      <4> DEFINE n == [r EXCEPT !.pc = "lookup"]
      <4>1. n.pc = "lookup" /\ n.op = "reply" /\ n.s = r.s /\ n.child = NoSession
        BY <1>0, <2>1, <3>1 DEF Request
      <4>2. client'[c] = n /\ \A d \in Client : d # c => client'[d] = client[d]
        BY <1>0, <2>2, <3>1 DEF Committed, Types
      <4>3. Write(r.s, r.seen, [type |-> "user_reply"])
        BY <2>2, <3>1 DEF Delta
      <4>4. QED
        BY <2>1, <3>1, <4>1, <4>2, <4>3 DEF Fate
    <3>2. CASE r.op # "reply"
      BY <1>a, <2>1, <2>2, <3>2 DEF Committed
    <3>3. QED
      BY <3>1, <3>2
  <2>3. CASE client' = [client EXCEPT ![c] = [r EXCEPT !.pc = "read", !.try = 2]]
    <3> DEFINE n == [r EXCEPT !.pc = "read", !.try = 2]
    <3>1. n.pc = "read" /\ n.op = r.op /\ n.s = r.s /\ n.child = r.child
      BY <1>0 DEF Request
    <3>2. QED
      BY <1>b, <2>3, <3>1
  <2>4. CASE client' = [client EXCEPT ![c] = Refused(r)]
    <3>1. /\ Refused(r).pc \in {"done", "rollback"}
          /\ Refused(r).op = r.op /\ Refused(r).s = r.s /\ Refused(r).child = r.child
      BY <1>0, <2>1, RefusedIsOnItsWay
    <3>2. QED
      BY <1>b, <2>4, <3>1
  <2>5. QED
    BY <1>10, <2>2, <2>3, <2>4 DEF CasWrite
<1>11. CASE SteerQueued(c)
  <2>1. r.s \in Session /\ r.op # "none"
    BY <1>0, <1>11 DEF SteerQueued, OnItsWay
  <2>2. CASE client' = [client EXCEPT ![c] = [r EXCEPT !.prev = prompt[r.s], !.pc = "read"]]
    <3> DEFINE n == [r EXCEPT !.prev = prompt[r.s], !.pc = "read"]
    <3>1. n.pc = "read" /\ n.op = r.op /\ n.s = r.s /\ n.child = r.child
      BY <1>0 DEF Request
    <3>2. QED
      BY <1>b, <2>2, <3>1
  <2>3. QED
    BY <1>11, <1>a, <2>1, <2>2 DEF SteerQueued
<1>12. CASE SteerRollback(c)
  BY <1>0, <1>12, <1>a DEF SteerRollback, OnItsWay
<1>13. CASE SteerRunning(c)
  <2>1. r.s \in Session /\ r.op # "none"
    BY <1>0, <1>13 DEF SteerRunning, OnItsWay
  <2>2. CASE client' = [client EXCEPT ![c].pc = "read"]
    <3> DEFINE n == [r EXCEPT !.pc = "read"]
    <3>1. n.pc = "read" /\ n.op = r.op /\ n.s = r.s /\ n.child = r.child
      BY <1>0 DEF Request
    <3>2. client' = [client EXCEPT ![c] = n]
      BY <2>2
    <3>3. QED
      BY <1>b, <3>1, <3>2
  <2>3. QED
    BY <1>13, <1>a, <2>1, <2>2 DEF SteerRunning
<1>14. CASE ReplyLookup(c)
  <2> DEFINE n == [r EXCEPT !.pc = "append", !.resume = r.s \in rows \ Foreign]
  <2>1. n.pc = "append" /\ n.op = r.op /\ n.s = r.s /\ n.child = NoSession /\ r.pc = "lookup"
    BY <1>0, <1>14 DEF Request, ReplyLookup, OnItsWay
  <2>2. client'[c] = n /\ \A d \in Client : d # c => client'[d] = client[d]
    BY <1>0, <1>14 DEF ReplyLookup, Types
  <2>3. QED
    BY <2>1, <2>2 DEF Fate
<1>15. ASSUME NEW f \in Interactive, FollowupAppend(c, f) PROVE Fate(c, client[c], client'[c])
  <2> DEFINE n == [r EXCEPT !.pc = "declare", !.child = f]
  <2>1. /\ f \in Session /\ r.s \in Session /\ r.pc = "append"
        /\ r.resume => r.s \notin Foreign
    BY <1>0, <1>15 DEF FollowupAppend, OnItsWay, Session
  <2>2. /\ n.pc = "declare" /\ n.op = r.op /\ n.s = r.s /\ n.child = f /\ n.resume = r.resume
    BY <1>0 DEF Request
  <2>3. client'[c] = n /\ \A d \in Client : d # c => client'[d] = client[d]
    BY <1>0, <1>15 DEF FollowupAppend, Types
  <2>4. FollowupMission(r) \in Mission
    BY <1>0, <2>1 DEF FollowupMission, Mission, Aggregate
  <2>5. Creates(f, r.s) /\ (f \in Foreign <=> r.s \in Foreign)
    BY <1>15, <2>4 DEF FollowupAppend, Creates
  <2>6. QED
    BY <2>1, <2>2, <2>3, <2>5 DEF Fate
<1>16. QED
  BY <1>1, <1>2, <1>3, <1>4, <1>5, <1>6, <1>7, <1>8, <1>9, <1>10, <1>11, <1>12, <1>13, <1>14,
     <1>15 DEF ClientStep, Handler

\* How an aggregate moves: it is created; or the run, or a request, writes on the
\* version it saw; or something is noted that leaves its status alone.
Stays(a, n) == n.status = a.status /\ n.resumeOf = a.resumeOf

Mirrored(s, a, n) ==
  /\ s = active /\ run.pc \in {"mirror.write", "final.write"}
  /\ run.seen # 0 /\ run.seen = a.version
  /\ n.status = IF run.pc = "mirror.write" THEN "running" ELSE MirrorType(run.outcome)
  /\ n.replies = a.replies /\ n.resumeOf = a.resumeOf
  /\ run'.pc \in IF run.pc = "mirror.write" THEN {"start", "hydrate"} ELSE {"prune", "return"}
  /\ UNCHANGED <<registry, active>>

CancelCommitted(s, a, n) ==
  /\ \E c \in Client : client[c].pc = "cancel" /\ client[c].s = s /\ client[c].seen = a.version
  /\ n.status = "cancelled" /\ n.replies = a.replies /\ n.resumeOf = a.resumeOf

Replied(s, a, n) ==
  /\ \E c \in Client : /\ client[c].pc = "write" /\ client[c].s = s
                       /\ client[c].seen = a.version
                       /\ client[c].op \in {"reply", "steer"}
  /\ n.replies = a.replies + 1 /\ Stays(a, n)

Noted(a, n) == n.replies = a.replies /\ Stays(a, n)

\* The aggregate after a step of the runner, and after a step of a request.
ByRun(s, a, n) ==
  \/ n = a
  \/ n.version = a.version + 1 /\ (Mirrored(s, a, n) \/ Noted(a, n))

ByRequest(s, a, n) ==
  \/ n = a
  \/ /\ n.version = a.version + 1
     /\ \/ a.status = "absent" /\ n.status = "queued" /\ n.replies = a.replies
        \/ CancelCommitted(s, a, n)
        \/ Replied(s, a, n)
        \/ Noted(a, n)

LEMMA RunnerMovesStore ==
  ASSUME Grounds, RunnerStep, NEW s \in Session
  PROVE  ByRun(s, store[s], store'[s])
<1>0. Types /\ store[s] \in Aggregate
  BY DEF Grounds, Types
<1>1. ASSUME NEW t \in StoreStatus, MirrorWrites(active, Lifecycle(t)),
             run.pc \in {"mirror.write", "final.write"}, active \in Session,
             t = IF run.pc = "mirror.write" THEN "running" ELSE MirrorType(run.outcome),
             run'.pc \in IF run.pc = "mirror.write" THEN {"start", "hydrate"}
                         ELSE {"prune", "return"},
             UNCHANGED <<registry, active>>
      PROVE  ByRun(s, store[s], store'[s])
  <2>1. CASE UNCHANGED store
    BY <2>1 DEF ByRun
  <2>2. CASE run.seen # 0 /\ Write(active, run.seen, Lifecycle(t))
    <3>1. CASE s # active
      BY <1>0, <1>1, <2>2, <3>1 DEF Write, ByRun, Types
    <3>2. CASE s = active
      <4>1. store'[s] = Apply(store[s], Lifecycle(t)) /\ store[s].version = run.seen
        BY <1>0, <2>2, <3>2 DEF Write, Types
      <4>2. Moved(store[s], store'[s], t, store[s].replies) /\ store'[s].resumeOf = store[s].resumeOf
        BY <1>0, <4>1, ApplyLifecycle
      <4>3. QED
        BY <1>1, <2>2, <3>2, <4>1, <4>2 DEF ByRun, Moved, Mirrored
    <3>3. QED
      BY <3>1, <3>2
  <2>3. QED
    BY <1>1, <2>1, <2>2 DEF MirrorWrites
<1>2. CASE RunMirrorWrite
  <2>1. active \in Session
    BY <1>2, ActiveWhileBusy DEF RunMirrorWrite, Grounds
  <2>2. run'.pc \in {"start", "hydrate"} /\ UNCHANGED <<registry, active>>
    BY <1>0, <1>2 DEF RunMirrorWrite, QueueAlone, vars, Types, RunState
  <2>3. QED
    BY <1>1, <1>2, <2>1, <2>2 DEF RunMirrorWrite, StoreStatus
<1>3. CASE RunFinalWrite
  <2>1. active \in Session
    BY <1>3, ActiveWhileBusy DEF RunFinalWrite, Grounds
  <2>2. MirrorType(run.outcome) \in StoreStatus
    BY <1>3 DEF RunFinalWrite, Grounds, Busy, MirrorType, Closing, StoreStatus, Terminal
  <2>3. run'.pc \in {"prune", "return"} /\ UNCHANGED <<registry, active>>
    BY <1>0, <1>3 DEF RunFinalWrite, QueueAlone, vars, Types, RunState
  <2>4. QED
    BY <1>1, <1>3, <2>1, <2>2, <2>3 DEF RunFinalWrite
<1>4. CASE RunMember
  <2>1. store' = [store EXCEPT ![active] = Apply(@, [type |-> "member"])]
    BY <1>4 DEF RunMember, Write
  <2>2. CASE s # active
    BY <1>0, <2>1, <2>2 DEF Types, ByRun
  <2>3. CASE s = active
    <3>1. store'[s] = Apply(store[s], [type |-> "member"])
      BY <1>0, <2>1, <2>3 DEF Types
    <3>2. QED
      BY <1>0, <3>1, ApplyNote DEF ByRun, Moved, Noted, Stays
  <2>4. QED
    BY <2>2, <2>3
<1>5. CASE UNCHANGED store
  BY <1>5 DEF ByRun
<1>6. QED
  BY <1>2, <1>3, <1>4, <1>5
     DEF RunnerStep, RunMirror, RunMirrorThrows, RunHydrate, RunDrop,
         RunStart, RunRehydrate, RunSetup, RunSettles, RunAsks, RunParks,
         RunAborts, RunFinal, RunFinalThrows, RunPrune, RunReturns

LEMMA ClientMovesStore ==
  ASSUME Grounds, NEW c \in Client, ClientStep(c), NEW s \in Session
  PROVE  ByRequest(s, store[s], store'[s])
<1>0. Types /\ store[s] \in Aggregate /\ client[c] \in Request /\ OnItsWay(client[c])
  BY DEF Grounds, Types, RequestsOnTheirWay
<1>1. ASSUME NEW t \in Session, NEW e, store' = [store EXCEPT ![t] = Apply(@, e)], s # t
      PROVE  ByRequest(s, store[s], store'[s])
  BY <1>0, <1>1 DEF Types, ByRequest
<1>2. ASSUME NEW t \in Session, NEW m \in Mission, NEW o \in Session \cup {NoSession},
             store[t].status = "absent",
             store' = [store EXCEPT ![t] =
                         Apply(@, [type |-> "created", prompt |-> m, resumeOf |-> o])]
      PROVE  ByRequest(s, store[s], store'[s])
  <2>1. CASE s = t
    <3>1. store'[s] = Apply(store[s], [type |-> "created", prompt |-> m, resumeOf |-> o])
      BY <1>0, <1>2, <2>1 DEF Types
    <3>2. QED
      BY <1>0, <1>2, <2>1, <3>1, ApplyCreated DEF ByRequest, Moved
  <2>2. QED
    BY <1>1, <1>2, <2>1
<1>3. ASSUME NEW t \in Standard, Create(c, t) PROVE ByRequest(s, store[s], store'[s])
  BY <1>2, <1>3 DEF Create, Session, Mission
<1>4. ASSUME NEW f \in Interactive, FollowupAppend(c, f)
      PROVE  ByRequest(s, store[s], store'[s])
  <2>1. client[c].s \in Session /\ f \in Session
    BY <1>0, <1>4 DEF FollowupAppend, OnItsWay, Session
  <2>2. FollowupMission(client[c]) \in Mission
    BY <1>0, <2>1 DEF FollowupMission, Mission, Types, Aggregate
  <2>3. QED
    BY <1>2, <1>4, <2>1, <2>2 DEF FollowupAppend
<1>5. CASE CancelCommit(c)
  <2>1. CASE UNCHANGED store
    BY <2>1 DEF ByRequest
  <2>2. CASE Write(client[c].s, client[c].seen, Lifecycle("cancelled"))
    <3>1. client[c].s \in Session /\ client[c].pc = "cancel"
      BY <1>0, <1>5 DEF CancelCommit, OnItsWay
    <3>2. CASE s = client[c].s
      <4>1. store'[s] = Apply(store[s], Lifecycle("cancelled")) /\ store[s].version = client[c].seen
        BY <1>0, <2>2, <3>2 DEF Write, Types
      <4>2. /\ Moved(store[s], store'[s], "cancelled", store[s].replies)
            /\ store'[s].resumeOf = store[s].resumeOf
        BY <1>0, <4>1, ApplyLifecycle DEF StoreStatus, Terminal
      <4>3. QED
        BY <3>1, <3>2, <4>1, <4>2 DEF ByRequest, Moved, CancelCommitted
    <3>3. QED
      BY <1>1, <2>2, <3>1, <3>2 DEF Write
  <2>3. QED
    BY <1>5, <2>1, <2>2 DEF CancelCommit
<1>6. CASE CasWrite(c)
  <2>1. CASE UNCHANGED store
    BY <2>1 DEF ByRequest
  <2>2. CASE Write(client[c].s, client[c].seen, Delta(c))
    <3>1. /\ client[c].s \in Session /\ client[c].pc = "write"
          /\ client[c].op \in {"message", "reply", "steer"} /\ SawAdmitted(client[c])
      BY <1>0, <1>6 DEF CasWrite, OnItsWay
    <3>2. CASE s = client[c].s
      <4>1. store'[s] = Apply(store[s], Delta(c)) /\ store[s].version = client[c].seen
        BY <1>0, <2>2, <3>2 DEF Write, Types
      <4>2. \/ Delta(c) = [type |-> "message"]
            \/ Delta(c) = [type |-> "user_reply"] /\ client[c].op \in {"reply", "steer"}
            \/ Delta(c) = [type |-> "steer", prompt |-> c]
        BY <3>1 DEF Delta, SawAdmitted
      <4>3. CASE Delta(c) = [type |-> "message"]
        BY <1>0, <4>1, <4>3, ApplyNote DEF ByRequest, Moved, Noted, Stays
      <4>4. CASE Delta(c) = [type |-> "user_reply"] /\ client[c].op \in {"reply", "steer"}
        BY <1>0, <3>1, <3>2, <4>1, <4>4, ApplyReply DEF ByRequest, Moved, Stays, Replied
      <4>5. CASE Delta(c) = [type |-> "steer", prompt |-> c]
        <5>1. c \in Mission
          BY DEF Mission
        <5>2. QED
          BY <1>0, <4>1, <4>5, <5>1, ApplySteer DEF ByRequest, Moved, Noted, Stays
      <4>6. QED
        BY <4>2, <4>3, <4>4, <4>5
    <3>3. QED
      BY <1>1, <2>2, <3>1, <3>2 DEF Write
  <2>3. QED
    BY <1>6, <2>1, <2>2 DEF CasWrite
<1>7. CASE UNCHANGED store
  BY <1>7 DEF ByRequest
<1>8. QED
  BY <1>3, <1>4, <1>5, <1>6, <1>7
     DEF ClientStep, Arrive, RunDirectly, Handler, DeclareStep, CancelRunning, CancelWithdraw,
         CancelPrune, Reread, SteerQueued, SteerRollback, SteerRunning, ReplyLookup

-----------------------------------------------------------------------------
(* The store follows the registry, and a terminal aggregate is final.      *)

StoreInv ==
  MirroredLast /\ RunSnapshot /\ ClientSnapshot /\ StoreFollowsRegistry /\ DeclaredExist

\* Either way the version grows, what is known stays known, and what is terminal
\* stays as it is: whoever writes, writes on the version it saw.
LEMMA AggregatesGrow ==
  ASSUME Grounds, RunInv, RunSnapshot, ClientSnapshot, NEW s \in Session, NEW n \in Aggregate,
         ByRun(s, store[s], n) \/ ByRequest(s, store[s], n)
  PROVE  /\ n.version >= store[s].version
         /\ n.version = store[s].version => n = store[s]
         /\ store[s].status # "absent" => n.status # "absent" /\ n.resumeOf = store[s].resumeOf
         /\ store[s].status \in Terminal => n.status = store[s].status
<1>1. store[s] \in Aggregate /\ store[s].version \in Nat
  BY DEF Grounds, Types, Aggregate
<1>2. CASE n = store[s]
  BY <1>1, <1>2
<1>3. ASSUME n.version = store[s].version + 1
      PROVE  n.version >= store[s].version /\ n.version # store[s].version
  BY <1>1, <1>3
<1>4. CASE Mirrored(s, store[s], n) /\ n.version = store[s].version + 1
  <2>1. store[s].status \notin Terminal \cup {"absent"}
    BY <1>4 DEF Mirrored, RunSnapshot
  <2>2. n.status # "absent" /\ n.resumeOf = store[s].resumeOf
    BY <1>4 DEF Mirrored, Grounds, Busy, MirrorType, Closing
  <2>3. QED
    BY <1>3, <1>4, <2>1, <2>2
<1>5. CASE CancelCommitted(s, store[s], n) /\ n.version = store[s].version + 1
  <2>1. PICK c \in Client :
          client[c].pc = "cancel" /\ client[c].s = s /\ client[c].seen = store[s].version
    BY <1>5 DEF CancelCommitted
  <2>2. store[s].status = client[c].saw
    BY <2>1 DEF ClientSnapshot
  <2>3. client[c].saw \notin Terminal
    BY <2>1 DEF Grounds, RequestsOnTheirWay, OnItsWay, SawAdmitted
  <2>4. QED
    BY <1>3, <1>5, <2>2, <2>3 DEF CancelCommitted
<1>6. CASE (Replied(s, store[s], n) \/ Noted(store[s], n)) /\ n.version = store[s].version + 1
  BY <1>3, <1>6 DEF Replied, Noted, Stays
<1>7. CASE store[s].status = "absent" /\ n.version = store[s].version + 1
  BY <1>3, <1>7 DEF Terminal
<1>8. QED
  BY <1>2, <1>4, <1>5, <1>6, <1>7 DEF ByRun, ByRequest

\* So what a run or a request saw is as it was, or the version has moved on.
LEMMA SnapshotsAge ==
  ASSUME Grounds, Grounds', RunInv, RunSnapshot, ClientSnapshot,
         \A s \in Session : ByRun(s, store[s], store'[s]) \/ ByRequest(s, store[s], store'[s])
  PROVE  /\ UNCHANGED <<run, active>> => RunSnapshot'
         /\ \A d \in Client :
              client'[d] = client[d] /\ client[d].pc \in {"cancel", "write"} =>
                LET r == client[d] IN
                  /\ r.seen <= store'[r.s].version
                  /\ r.seen = store'[r.s].version =>
                       /\ store'[r.s].status = r.saw
                       /\ r.op = "reply" => store'[r.s].replies = 0
<1>1. \A s \in Session :
        /\ store[s].version \in Nat /\ store'[s].version \in Nat
        /\ store'[s].version >= store[s].version
        /\ store'[s].version = store[s].version => store'[s] = store[s]
  <2>1. \A s \in Session : store[s] \in Aggregate /\ store'[s] \in Aggregate
    BY DEF Grounds, Types
  <2>2. QED
    BY <2>1, AggregatesGrow DEF Aggregate
<1>2. ASSUME UNCHANGED <<run, active>> PROVE RunSnapshot'
  <2>1. run.pc \in {"mirror.write", "final.write"} => active \in Session
    BY ActiveWhileBusy DEF Grounds
  <2>2. run.seen \in Nat
    BY DEF Grounds, Types, RunState
  <2>3. QED
    BY <1>1, <1>2, <2>1, <2>2 DEF RunSnapshot
<1>3. ASSUME NEW d \in Client, client'[d] = client[d], client[d].pc \in {"cancel", "write"}
      PROVE  LET r == client[d] IN
               /\ r.seen <= store'[r.s].version
               /\ r.seen = store'[r.s].version =>
                    /\ store'[r.s].status = r.saw
                    /\ r.op = "reply" => store'[r.s].replies = 0
  <2>1. client[d].s \in Session /\ client[d].seen \in Nat
    BY <1>3 DEF Grounds, Types, Request, RequestsOnTheirWay, OnItsWay
  <2>2. QED
    BY <1>1, <1>3, <2>1 DEF ClientSnapshot
<1>4. QED
  BY <1>2, <1>3

LEMMA RunnerKeepsStoreInv ==
  ASSUME Grounds, Grounds', WaitingInv, RunInv, RunInv', StoreInv, RunnerStep
  PROVE  StoreInv'
<1> USE DEF StoreInv
<1>1. /\ client' = client /\ store \in [Session -> Aggregate] /\ store' \in [Session -> Aggregate]
      /\ registry \in [Session -> Status] /\ run \in RunState /\ run.pc # "idle"
      /\ active \in Session /\ (run.pc = "final.write" => run.outcome \in Closing)
  <2>1. run.pc # "idle"
    BY DEF RunnerStep, RunMirror, RunMirrorWrite, RunMirrorThrows, RunHydrate, RunDrop,
       RunStart, RunRehydrate, RunSetup, RunMember, RunSettles, RunAsks, RunParks,
       RunAborts, RunFinal, RunFinalWrite, RunFinalThrows, RunPrune, RunReturns
  <2>2. QED
    BY <2>1, ActiveWhileBusy, RunnerTypes DEF Grounds, Types, TypeOK, Busy
<1>2. \A s \in Session : ByRun(s, store[s], store'[s])
  BY RunnerMovesStore
<1>3. /\ ClientSnapshot'
      /\ \A s \in Session : store[s].status # "absent"
           => store'[s].status # "absent" /\ store'[s].resumeOf = store[s].resumeOf
  BY <1>1, <1>2, SnapshotsAge, AggregatesGrow DEF ClientSnapshot
<1>4. DeclaredExist'
  <2>1. \A c \in Client : client[c].pc = "declare" => client[c].child \in Session
    BY DEF Grounds, RequestsOnTheirWay, OnItsWay
  <2>2. QED
    BY <1>1, <1>3, <2>1 DEF DeclaredExist
\* What the registry says of the active session alone changes, while it runs.
<1> DEFINE Settled ==
             /\ store' = store
             /\ registry[active] \in {"queued", "parked", "running"}
             /\ \A s \in Session : s # active => registry'[s] = registry[s]
             /\ registry'[active] # "absent"
             /\ registry[active] = "parked" => registry'[active] = "cancelled"
<1>5. registry' = registry \/ Settled
  <2>1. ASSUME NEW o \in {"succeeded", "failed", "parked"}, Settle(o), UNCHANGED store
        PROVE  registry' = registry \/ Settled
    BY <1>1, <2>1 DEF Settle, Finish, QueueAlone, vars
  <2>2. CASE RunStart
    BY <1>1, <2>2 DEF RunStart, Start, QueueAlone, vars
  <2>3. CASE RunSetup
    BY <2>1, <2>3 DEF RunSetup, QueueAlone, vars
  <2>4. CASE RunSettles
    BY <2>1, <2>4 DEF RunSettles
  <2>5. CASE RunParks
    BY <2>1, <2>5 DEF RunParks
  <2>6. CASE RunAborts
    BY <1>1, <2>6 DEF RunAborts, Cancel, QueueAlone, vars
  <2>7. CASE RunReturns \/ RunFinalThrows
    BY <2>7 DEF RunReturns, Return, RunFinalThrows, Reject
  <2>8. QED
    BY <2>2, <2>3, <2>4, <2>5, <2>6, <2>7
       DEF RunnerStep, RunMirror, RunMirrorWrite, RunMirrorThrows, RunHydrate, RunDrop,
           RunRehydrate, RunMember, RunAsks, RunFinal, RunFinalWrite, RunPrune, QueueAlone, vars
<1>6. StoreFollowsRegistry'
  <2>1. \A s \in Session : Direct(s)' = Direct(s)
    BY <1>1 DEF Direct
  <2>2. CASE UNCHANGED store /\ registry' # registry
    <3>1. store[active].status \notin {"succeeded", "failed"}
      BY <1>1, <1>5, <2>2 DEF StoreFollowsRegistry
    <3>2. QED
      BY <1>1, <1>5, <2>1, <2>2, <3>1 DEF StoreFollowsRegistry
  <2>3. CASE registry' = registry
    <3>1. ASSUME NEW s \in Session, store'[s].status \in {"succeeded", "failed", "awaiting_input"},
                 store'[s].status # store[s].status
          PROVE  /\ s = active
                 /\ \/ store'[s].status = registry[s]
                    \/ store'[s].status = "awaiting_input" /\ registry[s] \in {"parked", "cancelled"}
      <4>1. Mirrored(s, store[s], store'[s])
        BY <1>2, <3>1 DEF ByRun, Noted, Stays
      <4>2. s = active /\ run.pc = "final.write" /\ store'[s].status = MirrorType(run.outcome)
        BY <3>1, <4>1 DEF Mirrored
      <4>3. QED
        BY <1>1, <3>1, <4>2 DEF RunInv, RunAgrees, MirrorType, Closing
    <3>2. QED
      <4> SUFFICES ASSUME NEW s \in Session
                   PROVE  /\ store'[s].status \in {"succeeded", "failed"}
                               => registry[s] = store'[s].status
                          /\ store'[s].status = "awaiting_input"
                               => registry[s] \in {"parked", "cancelled"}
                          /\ registry[s] # "absent" => store'[s].status # "absent" \/ Direct(s)
        BY <2>1, <2>3 DEF StoreFollowsRegistry
      <4>1. CASE store'[s].status = store[s].status
        BY <4>1 DEF StoreFollowsRegistry
      <4>2. CASE store'[s].status # store[s].status
        <5>1. registry[s] # "absent" => store'[s].status # "absent" \/ Direct(s)
          BY <1>3 DEF StoreFollowsRegistry
        <5>2. QED
          BY <1>1, <3>1, <4>2, <5>1 DEF Status
      <4>3. QED
        BY <4>1, <4>2
  <2>4. QED
    BY <1>5, <2>2, <2>3
<1>7. MirroredLast'
  <2>1. SUFFICES ASSUME active' \in Session,
                        store'[active'].status \in {"succeeded", "failed", "awaiting_input"}
                 PROVE  run'.pc \in {"prune", "return"}
    BY DEF MirroredLast
  <2>2. CASE RunReturns
    <3>1. registry'[active'] = "queued"
      BY <2>1, <2>2, PickedIsQueued, NoSessionFresh DEF RunReturns, Grounds
    <3>2. QED
      BY <1>6, <2>1, <3>1 DEF StoreFollowsRegistry
  <2>3. CASE RunFinalThrows
    BY <2>1, <2>3, NoSessionFresh DEF RunFinalThrows, Reject
  <2>4. CASE ~RunReturns /\ ~RunFinalThrows
    <3>1. active' = active
      BY <2>4 DEF RunnerStep, RunMirror, RunMirrorWrite, RunMirrorThrows, RunHydrate, RunDrop,
         RunStart, RunRehydrate, RunSetup, RunMember, RunSettles, RunAsks, RunParks,
         RunAborts, RunFinal, RunFinalWrite, RunPrune, Start, Settle, Finish, Cancel,
         QueueAlone, vars
    <3>2. CASE Mirrored(active, store[active], store'[active])
      BY <1>1, <2>1, <3>1, <3>2 DEF Mirrored, RunFinalWrite
    <3>3. CASE store'[active].status = store[active].status
      <4>1. run.pc \in {"prune", "return"}
        BY <1>1, <2>1, <3>1, <3>3 DEF MirroredLast
      <4>2. RunPrune
        BY <2>4, <4>1 DEF RunnerStep, RunMirror, RunMirrorWrite, RunMirrorThrows, RunHydrate,
           RunDrop, RunStart, RunRehydrate, RunSetup, RunMember, RunSettles, RunAsks, RunParks,
           RunAborts, RunFinal, RunFinalWrite
      <4>3. QED
        BY <1>1, <4>2 DEF RunPrune, RunState
    <3>4. QED
      BY <1>1, <1>2, <3>2, <3>3 DEF ByRun, Noted, Stays
  <2>5. QED
    BY <2>2, <2>3, <2>4
<1>8. RunSnapshot'
  <2>1. CASE RunMirror \/ RunFinal
    <3>1. /\ UNCHANGED <<store, active>> /\ run.pc \in {"mirror", "final"}
          /\ run'.pc = "return" \/ run'.seen = MirrorSees(active)
      BY <1>1, <2>1 DEF RunMirror, RunFinal, QueueAlone, vars, RunState
    <3>2. store[active].status \notin {"succeeded", "failed"}
      BY <1>1, <3>1 DEF MirroredLast
    <3>3. store[active].version \in Nat
      BY <1>1 DEF Aggregate
    <3>4. QED
      BY <3>1, <3>2, <3>3 DEF RunSnapshot, MirrorSees, Terminal
  <2>2. CASE ~(RunMirror \/ RunFinal)
    <3>1. run'.pc \notin {"mirror.write", "final.write"}
      BY <1>1, <2>2, FreshRecords
         DEF RunnerStep, RunMirrorWrite, RunMirrorThrows, RunHydrate, RunDrop,
             RunStart, RunRehydrate, RunSetup, RunMember, RunSettles, RunAsks, RunParks,
             RunAborts, RunFinalWrite, RunFinalThrows, RunPrune, RunReturns, Settle, RunState
    <3>2. QED
      BY <3>1 DEF RunSnapshot
  <2>3. QED
    BY <2>1, <2>2
<1>9. QED
  BY <1>3, <1>4, <1>6, <1>7, <1>8

\* A session enters the registry under an aggregate, or from POST /runs.
LEMMA DeclaredAreKnown ==
  ASSUME Grounds, DeclaredExist, NEW c \in Client, ClientStep(c), NEW s \in Session,
         registry[s] = "absent", registry'[s] # "absent"
  PROVE  store[s].status # "absent" \/ (Direct(s))'
<1> USE DEF QueueAlone, vars
<1>0. /\ registry \in [Session -> Status] /\ client \in [Client -> Request]
      /\ OnItsWay(client[c])
  BY DEF Grounds, TypeOK, Types, RequestsOnTheirWay
<1>1. ASSUME NEW t \in Standard, RunDirectly(c, t) PROVE (Direct(s))'
  <2> DEFINE new == [NoRequest EXCEPT !.op = "run", !.s = t]
  <2>1. t = s
    BY <1>0, <1>1 DEF RunDirectly, Declare, Session
  <2>2. new \in Request /\ new.s = t /\ new.op = "run"
    BY FreshRecords, RequestUpdates DEF NoRequest, Op, Session
  <2>3. Answered(new, "201").op = "run" /\ Answered(new, "201").s = t
    BY <2>2, AnsweredIsDone DEF Session
  <2>4. client'[c] = Answered(new, "201")
    BY <1>0, <1>1 DEF RunDirectly
  <2>5. QED
    BY <2>1, <2>3, <2>4 DEF Direct
<1>2. CASE DeclareStep(c)
  BY <1>0, <1>2 DEF DeclareStep, Declare, DeclaredExist, OnItsWay
<1>3. CASE CancelWithdraw(c)
  BY <1>0, <1>3 DEF CancelWithdraw, Cancel, OnItsWay
<1>4. QED
  BY <1>1, <1>2, <1>3 DEF ClientStep, Arrive, Create, Handler, CancelRunning, CancelCommit,
     CancelPrune, Reread, CasWrite, SteerQueued, SteerRollback, SteerRunning, ReplyLookup,
     FollowupAppend

LEMMA ClientsKeepStoreInv ==
  ASSUME Grounds, Grounds', WaitingInv, RunInv, RunInv', StoreInv, NEW c \in Client, ClientStep(c)
  PROVE  StoreInv'
<1> USE DEF StoreInv
<1>1. /\ \A s \in Session : store[s] \in Aggregate /\ store'[s] \in Aggregate
      /\ registry \in [Session -> Status] /\ active \in Session \cup {NoSession}
      /\ client[c] \in Request /\ client'[c] \in Request
      /\ OnItsWay(client[c]) /\ OnItsWay(client'[c])
  BY DEF Grounds, Types, TypeOK, RequestsOnTheirWay
<1>2. \A s \in Session : ByRequest(s, store[s], store'[s])
  BY ClientMovesStore
<1>3. /\ UNCHANGED <<run, active>> => RunSnapshot'
      /\ \A d \in Client :
           client'[d] = client[d] /\ client[d].pc \in {"cancel", "write"} =>
             LET r == client[d] IN
               /\ r.seen <= store'[r.s].version
               /\ r.seen = store'[r.s].version =>
                    /\ store'[r.s].status = r.saw
                    /\ r.op = "reply" => store'[r.s].replies = 0
  BY <1>2, SnapshotsAge
<1>4. \A s \in Session : store[s].status # "absent"
           => store'[s].status # "absent" /\ store'[s].resumeOf = store[s].resumeOf
  BY <1>1, <1>2, AggregatesGrow
<1>5. Fate(c, client[c], client'[c])
  BY RequestFate
<1>6. ClientMovesQueue
  BY ClientsAndTheQueue DEF Grounds
<1>7. \A s \in Session : store'[s].status \in {"succeeded", "failed", "awaiting_input"}
        => store[s].status = store'[s].status
  BY <1>2 DEF ByRequest, CancelCommitted, Replied, Noted, Stays
<1>8. \A s \in Session : Direct(s) => (Direct(s))'
  <2>1. \A d \in Client : client[d].op = "run" => client'[d].op = "run" /\ client'[d].s = client[d].s
    <3>1. client[c].op = "run" => client[c].pc # "idle"
      BY <1>1 DEF OnItsWay, NoRequest
    <3>2. QED
      BY <1>5, <3>1 DEF Fate
  <2>2. QED
    BY <2>1 DEF Direct
<1>9. ClientSnapshot'
  <2> SUFFICES ASSUME NEW d \in Client, client'[d].pc \in {"cancel", "write"}
               PROVE  LET r == client'[d] IN
                        /\ r.seen <= store'[r.s].version
                        /\ r.seen = store'[r.s].version =>
                             /\ store'[r.s].status = r.saw
                             /\ r.op = "reply" => store'[r.s].replies = 0
    BY DEF ClientSnapshot
  <2>1. CASE d = c
    <3>1. /\ store' = store /\ client'[c].seen = store[client'[c].s].version
          /\ client'[c].saw = store[client'[c].s].status
          /\ client'[c].op = "reply" => store[client'[c].s].replies = 0
      BY <1>5, <2>1 DEF Fate
    <3>2. client'[c].seen \in Nat
      BY <1>1 DEF Request
    <3>3. QED
      BY <2>1, <3>1, <3>2
  <2>2. CASE d # c
    BY <1>3, <1>5, <2>2 DEF Fate
  <2>3. QED
    BY <2>1, <2>2
<1>10. DeclaredExist'
  <2> SUFFICES ASSUME NEW d \in Client, client'[d].pc = "declare"
               PROVE  LET r == client'[d] IN
                        /\ store'[r.child].status # "absent"
                        /\ r.resume => store'[r.child].resumeOf = r.s /\ r.child \notin Foreign
    BY DEF DeclaredExist
  <2>1. CASE d = c
    <3>1. client'[c].child \in Session
      BY <1>1, <2>1 DEF OnItsWay
    <3>2. PICK o \in Session \cup {NoSession} :
            /\ Creates(client'[c].child, o)
            /\ client'[c].resume => o = client'[c].s /\ client'[c].child \notin Foreign
      BY <1>5, <2>1 DEF Fate
    <3>3. PICK m \in Mission : store' = [store EXCEPT ![client'[c].child] =
                 Apply(@, [type |-> "created", prompt |-> m, resumeOf |-> o])]
      BY <3>2 DEF Creates
    <3>4. store'[client'[c].child] =
            Apply(store[client'[c].child], [type |-> "created", prompt |-> m, resumeOf |-> o])
      BY <3>1, <3>3 DEF Grounds, Types
    <3>5. store'[client'[c].child].status = "queued" /\ store'[client'[c].child].resumeOf = o
      BY <1>1, <3>1, <3>4, ApplyCreated DEF Moved
    <3>6. QED
      BY <2>1, <3>2, <3>5
  <2>2. CASE d # c
    <3>1. client'[d] = client[d]
      BY <1>5, <2>2 DEF Fate
    <3>2. client[d].child \in Session
      BY <3>1 DEF Grounds, RequestsOnTheirWay, OnItsWay
    <3>3. QED
      BY <1>4, <3>1, <3>2 DEF DeclaredExist
  <2>3. QED
    BY <2>1, <2>2
<1>11. StoreFollowsRegistry'
  <2> SUFFICES ASSUME NEW s \in Session
               PROVE  /\ store'[s].status \in {"succeeded", "failed"} => registry'[s] = store'[s].status
                      /\ store'[s].status = "awaiting_input" => registry'[s] \in {"parked", "cancelled"}
                      /\ registry'[s] # "absent" => store'[s].status # "absent" \/ (Direct(s))'
    BY DEF StoreFollowsRegistry
  <2>1. \/ registry'[s] = registry[s]
        \/ registry[s] \in {"queued", "parked", "running"} /\ registry'[s] = "cancelled"
        \/ registry[s] = "absent" /\ registry'[s] = "queued"
    BY <1>1, <1>6 DEF ClientMovesQueue
  <2>2. registry'[s] # "absent" => store'[s].status # "absent" \/ (Direct(s))'
    <3>1. CASE registry[s] = "absent"
      BY <1>4, <3>1, DeclaredAreKnown
    <3>2. CASE registry[s] # "absent"
      BY <1>4, <1>8, <3>2 DEF StoreFollowsRegistry
    <3>3. QED
      BY <3>1, <3>2
  <2>3. /\ store'[s].status \in {"succeeded", "failed"} => registry[s] = store'[s].status
        /\ store'[s].status = "awaiting_input" => registry[s] \in {"parked", "cancelled"}
    BY <1>7 DEF StoreFollowsRegistry
  <2>4. QED
    BY <2>1, <2>2, <2>3
<1>12. MirroredLast' /\ RunSnapshot'
  <2>1. CASE UNCHANGED <<run, active>>
    BY <1>3, <1>7, <2>1 DEF MirroredLast
  <2>2. CASE active' \in Session /\ registry'[active'] = "queued" /\ run' = NewRun
    <3>1. run'.pc = "mirror"
      BY <2>2, FreshRecords
    <3>2. store'[active'].status \notin {"succeeded", "failed", "awaiting_input"}
      BY <1>11, <2>2 DEF StoreFollowsRegistry
    <3>3. QED
      BY <3>1, <3>2 DEF MirroredLast, RunSnapshot
  <2>3. QED
    BY <1>6, <2>1, <2>2 DEF ClientMovesQueue
<1>13. QED
  BY <1>9, <1>10, <1>11, <1>12

LEMMA StoreInvHolds == LifecycleSteps => []StoreInv
<1>1. LifecycleInit => StoreInv
  <2> SUFFICES ASSUME LifecycleInit PROVE StoreInv
    OBVIOUS
  <2>1. /\ \A s \in Session : store[s].status = "absent" /\ registry[s] = "absent"
        /\ \A c \in Client : client[c].pc = "idle"
        /\ run.pc = "idle"
    BY DEF LifecycleInit, Init, NoAggregate, NoRequest, NoRun
  <2>2. QED
    BY <2>1 DEF StoreInv, MirroredLast, RunSnapshot, ClientSnapshot, StoreFollowsRegistry,
       DeclaredExist
<1>2. /\ Grounds /\ Grounds' /\ WaitingInv /\ RunInv /\ RunInv' /\ StoreInv
      /\ [LifecycleNext]_allVars
      => StoreInv'
  <2> SUFFICES ASSUME Grounds, Grounds', WaitingInv, RunInv, RunInv', StoreInv,
                      [LifecycleNext]_allVars
               PROVE  StoreInv'
    OBVIOUS
  <2>1. CASE UNCHANGED allVars
    BY <2>1 DEF allVars, extra, vars, StoreInv, MirroredLast, RunSnapshot, ClientSnapshot,
       StoreFollowsRegistry, DeclaredExist, Direct
  <2>2. CASE RunnerStep
    BY <2>2, RunnerKeepsStoreInv
  <2>3. ASSUME NEW c \in Client, ClientStep(c) PROVE StoreInv'
    BY <2>3, ClientsKeepStoreInv
  <2>4. QED
    BY <2>1, <2>2, <2>3 DEF LifecycleNext, ClientStep
<1>3. QED
  BY <1>1, <1>2, GroundsHold, RunInvHolds, WaitingInvHolds, PTL DEF LifecycleSteps

\* What the store says of a run's end, the registry says; and a session the
\* registry knows has an aggregate, or came from POST /runs.
THEOREM StoreTellsTheRegistry == LifecycleSpec => []StoreFollowsRegistry
BY StoreInvHolds, PTL DEF LifecycleSpec, LifecycleSteps, StoreInv

LEMMA TerminalIsFinalHolds == LifecycleSteps => TerminalIsFinal
<1> DEFINE Final == \A s \in Session :
                      store[s].status \in Terminal => store'[s].status = store[s].status
<1>1. Grounds /\ Grounds' /\ RunInv /\ StoreInv /\ [LifecycleNext]_allVars => [Final]_allVars
  <2> SUFFICES ASSUME Grounds, Grounds', RunInv, StoreInv, LifecycleNext PROVE Final
    OBVIOUS
  <2>1. \A s \in Session : store'[s] \in Aggregate
    BY DEF Grounds, Types
  <2>2. \A s \in Session : ByRun(s, store[s], store'[s]) \/ ByRequest(s, store[s], store'[s])
    <3>1. CASE RunnerStep
      BY <3>1, RunnerMovesStore
    <3>2. ASSUME NEW c \in Client, ClientStep(c)
          PROVE  \A s \in Session : ByRequest(s, store[s], store'[s])
      BY <3>2, ClientMovesStore
    <3>3. QED
      BY <3>1, <3>2 DEF LifecycleNext, ClientStep
  <2>3. QED
    BY <2>1, <2>2, AggregatesGrow DEF StoreInv
<1>2. QED
  BY <1>1, GroundsHold, RunInvHolds, StoreInvHolds, PTL DEF LifecycleSteps, TerminalIsFinal

\* A terminal aggregate is final: the status a mirror, a cancel, a reply, a steer
\* or a message in flight would move was read before, and the version with it.
THEOREM TerminalNeverMoves == LifecycleSpec => TerminalIsFinal
BY TerminalIsFinalHolds, PTL DEF LifecycleSpec, LifecycleSteps

-----------------------------------------------------------------------------
(* One reply per park.                                                     *)

\* A step wins at most its own request a reply, and only over a park nobody has
\* replied to.
LEMMA OnlyTheWriterWins ==
  ASSUME Grounds, Grounds', StoreInv, NEW c \in Client, ClientStep(c), NEW s \in Session
  PROVE  \/ Won(s)' \subseteq Won(s)
         \/ /\ Won(s)' \subseteq Won(s) \cup {c}
            /\ store[s].status = "awaiting_input" /\ store[s].replies = 0
            /\ store'[s].status = "awaiting_input" /\ store'[s].replies = 1
<1> DEFINE r == client[c]
           n == client'[c]
<1>1. Fate(c, r, n) /\ OnItsWay(r) /\ r \in Request /\ OnItsWay(n)
  BY RequestFate DEF Grounds, Types, RequestsOnTheirWay
<1>2. \A d \in Client : d # c => (d \in Won(s)' <=> d \in Won(s))
  BY <1>1 DEF Fate, Won
<1>3. CASE c \notin Won(s)' \/ c \in Won(s)
  <2>1. Won(s)' \subseteq Client
    BY DEF Won
  <2>2. QED
    BY <1>2, <1>3, <2>1
<1>4. CASE c \in Won(s)' /\ c \notin Won(s)
  <2>1. n.op = "reply" /\ n.s = s /\ (n.pc \in {"lookup", "append"} \/ n.child # NoSession)
    BY <1>4 DEF Won
  <2>2. r.pc # "idle" => r.op = "reply" /\ r.s = s
    BY <1>1, <2>1 DEF Fate
  <2>3. r.pc \notin {"lookup", "append"} /\ (r.pc # "idle" => r.child = NoSession)
    BY <1>4, <2>2 DEF Won
  <2>4. r.pc = "idle" => r.child = NoSession
    BY <1>1 DEF OnItsWay, NoRequest
  <2>5. r.pc = "write" /\ r.op = "reply" /\ r.s = s /\ Write(s, r.seen, [type |-> "user_reply"])
    BY <1>1, <2>1, <2>2, <2>3, <2>4 DEF Fate
  <2>6. store[s].status = "awaiting_input" /\ store[s].replies = 0
    BY <1>1, <2>5 DEF Write, StoreInv, ClientSnapshot, OnItsWay, SawAdmitted
  <2>7. store[s] \in Aggregate /\ store'[s] = Apply(store[s], [type |-> "user_reply"])
    BY <2>5 DEF Write, Grounds, Types
  <2>8. store'[s].status = "awaiting_input" /\ store'[s].replies = 1
    BY <2>6, <2>7, ApplyReply DEF Moved
  <2>9. Won(s)' \subseteq Client
    BY DEF Won
  <2>10. QED
    BY <1>2, <2>6, <2>8, <2>9
<1>5. QED
  BY <1>3, <1>4

\* Once a reply is on record the park is over for every other one.
LEMMA RecordedRepliesStay ==
  ASSUME Grounds, RunInv, StoreInv, OneReply, NEW s \in Session, NEW n \in Aggregate,
         ByRun(s, store[s], n) \/ ByRequest(s, store[s], n),
         Won(s) # {}
  PROVE  n.replies = 1 /\ n.status \in {"awaiting_input", "cancelled"}
<1>1. store[s].replies = 1 /\ store[s].status \in {"awaiting_input", "cancelled"}
  BY DEF OneReply
<1>2. ~Mirrored(s, store[s], n)
  <2>1. ASSUME Mirrored(s, store[s], n) PROVE FALSE
    <3>1. s = active /\ run.pc \in {"mirror.write", "final.write"}
          /\ store[s].status \notin Terminal
      BY <2>1 DEF Mirrored, StoreInv, RunSnapshot
    <3>2. QED
      BY <1>1, <3>1 DEF StoreInv, MirroredLast, Terminal
  <2>2. QED
    BY <2>1
<1>3. ~Replied(s, store[s], n)
  <2>1. ASSUME NEW c \in Client, client[c].pc = "write", client[c].s = s,
               client[c].seen = store[s].version, client[c].op \in {"reply", "steer"}
        PROVE  FALSE
    <3>1. /\ store[s].status = client[c].saw
          /\ client[c].op = "reply" => store[s].replies = 0
      BY <2>1 DEF StoreInv, ClientSnapshot
    <3>2. client[c].op = "steer" => client[c].saw \in {"queued", "running"}
      BY <2>1 DEF Grounds, RequestsOnTheirWay, OnItsWay, SawAdmitted
    <3>3. QED
      BY <1>1, <2>1, <3>1, <3>2
  <2>2. QED
    BY <2>1 DEF Replied
<1>4. QED
  BY <1>1, <1>2, <1>3 DEF ByRun, ByRequest, CancelCommitted, Noted, Stays

LEMMA OneReplyHolds == LifecycleSteps => []OneReply
<1>1. LifecycleInit => OneReply
  BY DEF LifecycleInit, OneReply, Won, NoRequest
<1>2. /\ Grounds /\ Grounds' /\ RunInv /\ StoreInv /\ OneReply /\ [LifecycleNext]_allVars
      => OneReply'
  <2> SUFFICES ASSUME Grounds, Grounds', RunInv, StoreInv, OneReply, [LifecycleNext]_allVars
               PROVE  OneReply'
    OBVIOUS
  <2>0. \A s \in Session : store'[s] \in Aggregate
    BY DEF Grounds, Types
  <2>1. CASE UNCHANGED allVars
    BY <2>1 DEF allVars, extra, OneReply, Won
  <2>2. CASE RunnerStep
    <3>1. client' = client
      BY <2>2, RunnerTypes DEF Grounds
    <3>2. \A s \in Session : Won(s)' = Won(s)
      BY <3>1 DEF Won
    <3>3. \A s \in Session : Won(s) # {} =>
            store'[s].replies = 1 /\ store'[s].status \in {"awaiting_input", "cancelled"}
      BY <2>0, <2>2, RunnerMovesStore, RecordedRepliesStay
    <3>4. QED
      BY <3>2, <3>3 DEF OneReply
  <2>3. ASSUME NEW c \in Client, ClientStep(c), NEW s \in Session
        PROVE  /\ \A d, e \in Won(s)' : d = e
               /\ Won(s)' # {} => /\ store'[s].replies = 1
                                  /\ store'[s].status \in {"awaiting_input", "cancelled"}
    <3>1. CASE Won(s)' \subseteq Won(s)
      <4>1. Won(s) # {} =>
              store'[s].replies = 1 /\ store'[s].status \in {"awaiting_input", "cancelled"}
        BY <2>0, <2>3, ClientMovesStore, RecordedRepliesStay
      <4>2. QED
        BY <3>1, <4>1 DEF OneReply
    <3>2. CASE /\ Won(s)' \subseteq Won(s) \cup {c}
               /\ store[s].replies = 0
               /\ store'[s].status = "awaiting_input" /\ store'[s].replies = 1
      <4>1. Won(s) = {}
        BY <3>2 DEF OneReply
      <4>2. QED
        BY <3>2, <4>1
    <3>3. QED
      BY <2>3, <3>1, <3>2, OnlyTheWriterWins
  <2>4. QED
    BY <2>1, <2>2, <2>3 DEF LifecycleNext, ClientStep, OneReply
<1>3. QED
  BY <1>1, <1>2, GroundsHold, RunInvHolds, StoreInvHolds, PTL DEF LifecycleSteps

LEMMA OneReplyIsOneFork == OneReply => OneFollowupPerPark
<1> SUFFICES ASSUME OneReply, NEW s \in Session
             PROVE  Cardinality(Forks(s)) <= 1 /\ (Forks(s) # {} => store[s].replies = 1)
  BY DEF OneFollowupPerPark
<1>1. Forks(s) \subseteq Won(s)
  BY DEF Forks, Won
<1>2. CASE Forks(s) = {}
  BY <1>2, FS_EmptySet
<1>3. CASE Forks(s) # {}
  <2>1. PICK c : c \in Forks(s)
    BY <1>3
  <2>2. Forks(s) = {c}
    BY <1>1, <2>1 DEF OneReply
  <2>3. Cardinality(Forks(s)) = 1
    BY <2>2, FS_Singleton
  <2>4. QED
    BY <1>1, <1>3, <2>3 DEF OneReply
<1>4. QED
  BY <1>2, <1>3

\* However many clients answer a park at once, one follow-up is spawned, and
\* only once the reply is recorded on the parked original.
THEOREM OneReplyPerPark == LifecycleSpec => []OneFollowupPerPark
BY OneReplyHolds, OneReplyIsOneFork, PTL DEF LifecycleSpec, LifecycleSteps

-----------------------------------------------------------------------------
(* Checkpoints.                                                            *)

LEMMA ClientsPrune ==
  ASSUME NEW c \in Client, ClientStep(c)
  PROVE  /\ live' = live /\ rows' \subseteq rows /\ kept \subseteq kept'
         /\ StoreMayFail \/ kept' = kept
BY DEF DeleteRows, ClientStep, Arrive, Create, RunDirectly, Handler, DeclareStep,
   CancelRunning, CancelCommit,
   CancelWithdraw, CancelPrune, Reread, CasWrite, SteerQueued, SteerRollback, SteerRunning,
   ReplyLookup, FollowupAppend

\* What a request does to links and checkpoints: a declare links a follow-up to
\* the original it resumes; a cancel prunes its session's rows.
LEMMA ClientsAndCheckpoints ==
  ASSUME Grounds, DeclaredExist, NEW c \in Client, ClientStep(c), NEW s \in Session
  PROVE  /\ \/ link'[s] = link[s]
            \/ /\ registry[s] = "absent" /\ store[s].status # "absent"
               /\ link'[s] # NoSession => store[s].resumeOf = link'[s] /\ s \notin Foreign
         /\ client[c].pc = "prune" => client[c].s \notin rows' \ (Foreign \cup kept')
         /\ registry[s] = "parked" =>
              \/ registry'[s] = "parked"
              \/ registry'[s] = "cancelled" /\ client'[c].pc = "prune" /\ client'[c].s = s
<1> USE DEF QueueAlone, RegistryAlone, vars
<1>0. /\ registry \in [Session -> Status] /\ client \in [Client -> Request]
      /\ OnItsWay(client[c]) /\ client[c] \in Request
      /\ link \in [Session -> Session \cup {NoSession}]
  BY DEF Grounds, TypeOK, Types, RequestsOnTheirWay
<1>1. ASSUME NEW t \in Session, Declare(t) PROVE registry'[s] = registry[s] \/ registry[s] = "absent"
  BY <1>0, <1>1 DEF Declare
<1>2. CASE DeclareStep(c)
  <2>1. client[c].child \in Session /\ client[c].pc = "declare" /\ Declare(client[c].child)
    BY <1>0, <1>2 DEF DeclareStep, OnItsWay
  <2>2. \/ link'[s] = link[s]
        \/ /\ registry[s] = "absent" /\ store[s].status # "absent"
           /\ link'[s] # NoSession => store[s].resumeOf = link'[s] /\ s \notin Foreign
    BY <1>0, <1>2, <2>1 DEF DeclareStep, Declare, DeclaredExist
  <2>3. QED
    BY <1>1, <1>2, <2>1, <2>2 DEF DeclareStep
<1>3. ASSUME NEW t \in Standard, RunDirectly(c, t)
      PROVE  /\ link' = link /\ client[c].pc = "idle"
             /\ registry'[s] = registry[s] \/ registry[s] = "absent"
  BY <1>1, <1>3 DEF RunDirectly, Session
<1>4. CASE CancelWithdraw(c)
  <2> DEFINE n == [client[c] EXCEPT !.pc = "prune"]
  <2>1. n.pc = "prune" /\ n.s = client[c].s /\ client[c].s \in Session /\ client[c].pc = "withdraw"
    BY <1>0, <1>4 DEF Request, CancelWithdraw, OnItsWay
  <2>2. client'[c] = n
    BY <1>0, <1>4 DEF CancelWithdraw
  <2>3. \/ registry'[s] = registry[s]
        \/ s = client[c].s /\ registry'[s] = "cancelled"
    BY <1>0, <1>4, <2>1 DEF CancelWithdraw, Cancel
  <2>4. QED
    BY <1>4, <2>1, <2>2, <2>3 DEF CancelWithdraw
<1>5. CASE CancelPrune(c)
  <2>1. client[c].s \notin rows' \ (Foreign \cup kept')
    BY <1>5 DEF CancelPrune, DeleteRows
  <2>2. QED
    BY <1>0, <1>5, <2>1 DEF CancelPrune
<1>6. CASE Handler(c) /\ ~(DeclareStep(c) \/ CancelWithdraw(c) \/ CancelPrune(c))
  BY <1>6 DEF Handler, CancelRunning, CancelCommit,
     Reread, CasWrite, SteerQueued, SteerRollback, SteerRunning, ReplyLookup, FollowupAppend
<1>7. CASE \/ \E op \in Ops, t \in Session : Arrive(c, op, t)
           \/ \E t \in Standard : Create(c, t)
  BY <1>7 DEF Arrive, Create
<1>8. QED
  BY <1>2, <1>3, <1>4, <1>5, <1>6, <1>7 DEF ClientStep

LEMMA RunnerKeepsLinked ==
  ASSUME Grounds, Grounds', RunInv, StoreInv, Linked, RunnerStep
  PROVE  Linked'
<1> USE DEF QueueAlone, RegistryAlone, vars
<1>1. /\ run \in RunState /\ active \in Session /\ live \subseteq Session /\ rows \subseteq Session
      /\ \A s \in Session : store'[s] \in Aggregate
  <2>1. run.pc # "idle"
    BY DEF RunnerStep, RunMirror, RunMirrorWrite, RunMirrorThrows, RunHydrate, RunDrop,
       RunStart, RunRehydrate, RunSetup, RunMember, RunSettles, RunAsks, RunParks,
       RunAborts, RunFinal, RunFinalWrite, RunFinalThrows, RunPrune, RunReturns
  <2>2. QED
    BY <2>1, ActiveWhileBusy DEF Grounds, Types
<1>2. link' = link
  BY DEF RunnerStep, RunMirror, RunMirrorWrite, RunMirrorThrows, RunHydrate, RunDrop,
     RunStart, RunRehydrate, RunSetup, RunMember, RunSettles, RunAsks, RunParks,
     RunAborts, RunFinal, RunFinalWrite, RunFinalThrows, RunPrune, RunReturns
<1>3. \A s \in Session : link'[s] # NoSession
        => /\ store'[s].resumeOf = link'[s] /\ store'[s].status # "absent"
           /\ s \notin Foreign
  BY <1>1, <1>2, RunnerMovesStore, AggregatesGrow DEF Linked, StoreInv
<1> DEFINE RunPart ==
  /\ run'.pc \in {"hydrate", "drop", "start", "rehydrate"} => run'.resume \in {NoSession, link'[active']}
  /\ run'.pc \in {"start", "rehydrate"} /\ run'.resume \in live' \cup rows'
       => run'.resume \in kept'
  /\ run'.pc \in {"setup", "flight", "persist"} => run'.resume \in kept' \cup {NoSession}
<1>a. kept \subseteq kept' /\ (~StoreMayFail => kept' = {})
  <2>1. CASE RunDrop \/ RunPrune
    BY <2>1 DEF RunDrop, RunPrune, DeleteRows, Linked
  <2>2. CASE ~RunDrop /\ ~RunPrune
    BY <2>2 DEF Linked, RunnerStep, RunMirror, RunMirrorWrite, RunMirrorThrows, RunHydrate,
       RunStart, RunRehydrate, RunSetup, RunMember, RunSettles, RunAsks, RunParks,
       RunAborts, RunFinal, RunFinalWrite, RunFinalThrows, RunReturns
  <2>3. QED
    BY <2>1, <2>2
<1>4. CASE RunMirrorWrite
  <2>1. /\ run'.pc = (IF link[active] = NoSession THEN "start" ELSE "hydrate")
        /\ run'.resume = link[active] /\ UNCHANGED <<active, live, rows>>
    BY <1>1, <1>4 DEF RunMirrorWrite, RunState
  <2>2. RunPart
    BY <1>1, <1>2, <2>1, NoSessionFresh
  <2>3. QED
    BY <1>3, <1>a, <2>2 DEF Linked
<1>5. CASE RunHydrate
  <2>1. /\ UNCHANGED <<active, rows>>
        /\ \/ run'.pc = "drop" /\ run'.resume = run.resume
           \/ run'.pc = "start" /\ run'.resume = NoSession /\ live' = live
    BY <1>1, <1>5 DEF RunHydrate, RunState
  <2>2. run.resume \in {NoSession, link[active]}
    BY <1>5 DEF RunHydrate, Linked
  <2>3. RunPart
    BY <1>1, <1>2, <2>1, <2>2, NoSessionFresh
  <2>4. QED
    BY <1>3, <1>a, <2>3 DEF Linked
<1>6. CASE RunDrop
  <2>1. /\ run'.pc = "start" /\ run'.resume = run.resume /\ active' = active
        /\ LET original == IF active \in Foreign THEN {} ELSE {store[active].resumeOf} \ {NoSession}
           IN \/ live' = live \ original /\ DeleteRows(original)
              \/ kept' = kept \cup original /\ UNCHANGED <<live, rows>>
    BY <1>1, <1>6 DEF RunDrop, RunState
  <2>2. run.resume \in {NoSession, link[active]}
    BY <1>6 DEF RunDrop, Linked
  <2>3. run.resume # NoSession => active \notin Foreign /\ store[active].resumeOf = run.resume
    BY <1>1, <2>2 DEF Linked
  <2>4. run'.resume \in live' \cup rows' => run'.resume \in kept'
    <3>1. CASE run.resume = NoSession
      BY <1>1, <2>1, <3>1, NoSessionFresh DEF DeleteRows
    <3>2. CASE run.resume # NoSession
      BY <2>1, <2>3, <3>2 DEF DeleteRows
    <3>3. QED
      BY <3>1, <3>2
  <2>5. RunPart
    BY <1>2, <2>1, <2>2, <2>4
  <2>6. QED
    BY <1>3, <1>a, <2>5 DEF Linked
<1>7. CASE RunStart
  <2>1. /\ UNCHANGED <<active, live, rows>>
        /\ \/ /\ run'.pc = (IF run.resume = NoSession THEN "setup" ELSE "rehydrate")
              /\ run'.resume = run.resume
           \/ run'.pc = "final"
    BY <1>1, <1>7 DEF RunStart, Start, RunState
  <2>2. RunPart
    BY <1>2, <1>7, <1>a, <2>1 DEF Linked, RunStart
  <2>3. QED
    BY <1>3, <1>a, <2>2 DEF Linked
<1>8. CASE RunRehydrate
  <2>1. run'.pc = "setup" /\ run'.resume \in kept' \cup {NoSession}
    BY <1>1, <1>8, <1>a DEF RunRehydrate, RunState, Linked
  <2>2. QED
    BY <1>3, <1>a, <2>1 DEF Linked
<1>9. CASE RunSetup \/ RunAsks
  <2>1. run'.pc \in {"flight", "persist", "final"} /\ (run'.pc # "final" => run'.resume = run.resume)
        /\ run.resume \in kept \cup {NoSession}
    BY <1>1, <1>9 DEF RunSetup, RunAsks, Settle, RunState, Linked
  <2>2. QED
    BY <1>3, <1>a, <2>1 DEF Linked
<1>10. CASE RunMember
  <2>1. run'.pc = run.pc /\ run'.resume = run.resume /\ run.pc \in {"flight", "persist", "final"}
    BY <1>1, <1>10 DEF RunMember, RunState
  <2>2. QED
    BY <1>2, <1>3, <1>a, <2>1 DEF Linked
<1>11. CASE run'.pc \in {"idle", "mirror", "mirror.write", "final", "final.write", "prune", "return"}
  BY <1>3, <1>a, <1>11 DEF Linked
<1>12. CASE \/ RunMirror \/ RunMirrorThrows \/ RunSettles \/ RunParks \/ RunAborts
            \/ RunFinal \/ RunFinalWrite \/ RunFinalThrows \/ RunPrune \/ RunReturns
  <2>1. run'.pc \in {"idle", "mirror", "mirror.write", "final", "final.write", "prune", "return"}
    BY <1>1, <1>12, FreshRecords
       DEF RunMirror, RunMirrorThrows, RunSettles, RunParks, RunAborts,
           RunFinal, RunFinalWrite, RunFinalThrows, RunPrune, RunReturns, Settle, RunState
  <2>2. QED
    BY <1>11, <2>1
<1>13. QED
  BY <1>4, <1>5, <1>6, <1>7, <1>8, <1>9, <1>10, <1>12 DEF RunnerStep

LEMMA ClientsKeepLinked ==
  ASSUME Grounds, Grounds', WaitingInv, RunInv, StoreInv, Linked, NEW c \in Client, ClientStep(c)
  PROVE  Linked'
<1>1. /\ live' = live /\ rows' \subseteq rows /\ kept \subseteq kept'
      /\ StoreMayFail \/ kept' = kept
      /\ \A s \in Session :
           \/ link'[s] = link[s]
           \/ /\ registry[s] = "absent" /\ store[s].status # "absent"
              /\ link'[s] # NoSession => store[s].resumeOf = link'[s] /\ s \notin Foreign
  <2>1. DeclaredExist
    BY DEF StoreInv
  <2>2. /\ live' = live /\ rows' \subseteq rows /\ kept \subseteq kept'
        /\ StoreMayFail \/ kept' = kept
    BY ClientsPrune
  <2>3. QED
    BY <2>1, <2>2, ClientsAndCheckpoints
<1>2. \A s \in Session : store[s].status # "absent"
        => store'[s].status # "absent" /\ store'[s].resumeOf = store[s].resumeOf
  <2>1. \A s \in Session : store'[s] \in Aggregate
    BY DEF Grounds, Types
  <2>2. QED
    BY <2>1, ClientMovesStore, AggregatesGrow DEF StoreInv
<1>3. \A s \in Session : link'[s] # NoSession
        => /\ store'[s].resumeOf = link'[s] /\ store'[s].status # "absent"
           /\ s \notin Foreign
  BY <1>1, <1>2 DEF Linked
<1>4. ClientMovesQueue
  BY ClientsAndTheQueue DEF Grounds
<1>5. CASE UNCHANGED <<run, active>>
  <2>1. run.pc \in {"hydrate", "drop", "start", "rehydrate"} => link'[active] = link[active]
    <3>1. ASSUME run.pc \in {"hydrate", "drop", "start", "rehydrate"}
          PROVE  active \in Session /\ registry[active] # "absent"
      BY <3>1, ActiveWhileBusy DEF Grounds, RunInv, RunAgrees
    <3>2. QED
      BY <1>1, <3>1
  <2>2. QED
    BY <1>1, <1>3, <1>5, <2>1 DEF Linked
<1>6. CASE run' = NewRun
  BY <1>1, <1>3, <1>6, FreshRecords DEF Linked
<1>7. QED
  BY <1>4, <1>5, <1>6 DEF ClientMovesQueue

LEMMA UnclosedGrows == ASSUME [Next]_vars PROVE unclosed \subseteq unclosed'
BY DEF Next, Runner, Declare, Cancel, Start, Finish, Return, Reject, vars

LEMMA ClientsKeepRows ==
  ASSUME Grounds, Grounds', WaitingInv, RunInv, StoreInv, RowsInv, [Next]_vars,
         NEW c \in Client, ClientStep(c)
  PROVE  RowsInv'
<1> SUFFICES ASSUME NEW s \in rows' PROVE HasReason(s)'
  BY DEF RowsInv
<1>1. s \in rows /\ s \in Session /\ kept \subseteq kept' /\ unclosed \subseteq unclosed'
  BY ClientsPrune, UnclosedGrows DEF Grounds, Types
<1>2. DeclaredExist
  BY DEF StoreInv
<1>3. /\ client[c].pc = "prune" => client[c].s # s \/ s \in Foreign \/ s \in kept'
      /\ registry[s] = "parked" =>
           \/ registry'[s] = "parked"
           \/ registry'[s] = "cancelled" /\ client'[c].pc = "prune" /\ client'[c].s = s
  BY <1>1, <1>2, ClientsAndCheckpoints
<1>4. ClientMovesQueue
  BY ClientsAndTheQueue DEF Grounds
<1>5. CASE registry[s] = "parked"
  BY <1>3, <1>5 DEF HasReason, ForeignLeftover
<1>6. CASE /\ s = active
           /\ run.pc \in {"final", "final.write", "prune"}
           /\ registry[s] \in Closing
           /\ run.pc = "final.write" => run.outcome # "parked"
  <2>1. UNCHANGED <<active, run>>
    BY <1>1, <1>4, <1>6, NoSessionFresh DEF ClientMovesQueue, Closing
  <2>2. registry'[s] \in Closing
    BY <1>1, <1>4, <1>6, <2>1 DEF ClientMovesQueue, Closing, Grounds, TypeOK
  <2>3. QED
    BY <1>6, <2>1, <2>2 DEF HasReason
<1>7. ASSUME NEW d \in Client, client[d].pc = "prune", client[d].s = s, s \notin Foreign
      PROVE  HasReason(s)'
  <2>1. s \in kept' \/ client'[d] = client[d]
    BY <1>3, <1>7, RequestFate DEF Fate
  <2>2. QED
    BY <1>7, <2>1 DEF HasReason
<1>8. CASE s \in kept \cup unclosed
  BY <1>1, <1>8 DEF HasReason
<1>9. CASE ForeignLeftover(s)
  <2>1. registry'[s] = "cancelled"
    BY <1>1, <1>4, <1>9 DEF ForeignLeftover, ClientMovesQueue, Grounds, TypeOK
  <2>2. QED
    BY <1>9, <2>1 DEF HasReason, ForeignLeftover
<1>10. QED
  BY <1>1, <1>5, <1>6, <1>7, <1>8, <1>9 DEF RowsInv, HasReason

LEMMA RunnerKeepsRows ==
  ASSUME Grounds, Grounds', RunInv, RunInv', Linked, Linked', RowsInv, [Next]_vars, RunnerStep
  PROVE  RowsInv'
<1> USE DEF QueueAlone, vars
<1>1. /\ run \in RunState /\ active \in Session /\ client' = client
      /\ registry \in [Session -> Status] /\ rows \subseteq Session
  <2>1. run.pc # "idle"
    BY DEF RunnerStep, RunMirror, RunMirrorWrite, RunMirrorThrows, RunHydrate, RunDrop,
       RunStart, RunRehydrate, RunSetup, RunMember, RunSettles, RunAsks, RunParks,
       RunAborts, RunFinal, RunFinalWrite, RunFinalThrows, RunPrune, RunReturns
  <2>2. QED
    BY <2>1, ActiveWhileBusy, RunnerTypes DEF Grounds, Types, TypeOK
<1>2. kept \subseteq kept' /\ unclosed \subseteq unclosed'
  <2>1. CASE RunDrop \/ RunPrune
    BY <2>1, UnclosedGrows DEF RunDrop, RunPrune, DeleteRows
  <2>2. CASE ~RunDrop /\ ~RunPrune
    BY <2>2, UnclosedGrows DEF RunnerStep, RunMirror, RunMirrorWrite, RunMirrorThrows, RunHydrate,
       RunStart, RunRehydrate, RunSetup, RunMember, RunSettles, RunAsks, RunParks,
       RunAborts, RunFinal, RunFinalWrite, RunFinalThrows, RunReturns
  <2>3. QED
    BY <2>1, <2>2
\* A row whose reason is none of the run's goes on having it.
<1>3. ASSUME NEW s \in Session, HasReason(s), registry'[s] = registry[s],
             ~(s = active /\ run.pc \in {"final", "final.write", "prune"})
      PROVE  HasReason(s)'
  BY <1>1, <1>2, <1>3 DEF HasReason, ForeignLeftover
\* Before the run settles, no row is the active session's but a parked one's.
<1>4. ASSUME UNCHANGED registry, rows' \subseteq rows,
             run.pc \notin {"final", "final.write", "prune"}
      PROVE  RowsInv'
  BY <1>1, <1>3, <1>4 DEF RowsInv
<1>5. CASE RunMirror \/ RunMirrorWrite \/ RunMirrorThrows \/ RunHydrate \/ RunDrop
           \/ RunRehydrate \/ RunAsks \/ RunReturns
  <2>1. /\ registry' = registry /\ rows' \subseteq rows
        /\ run.pc \notin {"final", "final.write", "prune"}
    BY <1>5 DEF RunMirror, RunMirrorWrite, RunMirrorThrows, RunHydrate, RunDrop, DeleteRows,
       RunRehydrate, RunAsks, RunReturns, Return
  <2>2. QED
    BY <1>4, <2>1
\* Before and while it runs the active session is not parked; once it is settled,
\* or cancelled, its outcome is in the registry.
<1>6. ASSUME run.pc \in {"start", "setup", "flight", "persist"},
             \A s \in Session : s # active => registry'[s] = registry[s],
             rows' \subseteq rows \cup {active} \cup kept,
             active \in rows' \ rows =>
               run'.pc = "final" /\ active' = active /\ registry'[active] \in Closing,
             registry[active] = "cancelled" => registry'[active] = "cancelled"
      PROVE  RowsInv'
  <2>1. registry[active] # "parked"
    BY <1>6 DEF RunInv, RunAgrees
  <2>2. ASSUME NEW s \in rows' PROVE HasReason(s)'
    <3>1. CASE s \in rows /\ s # active
      BY <1>1, <1>3, <1>6, <3>1 DEF RowsInv
    <3>2. CASE s \in rows /\ s = active
      BY <1>1, <1>2, <1>6, <2>1, <3>2 DEF RowsInv, HasReason, ForeignLeftover
    <3>3. CASE s \in kept
      BY <1>2, <3>3 DEF HasReason
    <3>4. CASE s = active /\ s \notin rows
      BY <1>6, <2>2, <3>4 DEF HasReason
    <3>5. QED
      BY <1>6, <3>1, <3>2, <3>3, <3>4
  <2>3. QED
    BY <2>2 DEF RowsInv
<1>7. ASSUME NEW o \in {"succeeded", "failed", "parked"}, Settle(o)
      PROVE  /\ \A s \in Session : s # active => registry'[s] = registry[s]
             /\ registry[active] = "cancelled" => registry'[active] = "cancelled"
  BY <1>1, <1>7 DEF Settle, Finish
<1>8. CASE RunStart \/ RunSetup \/ RunSettles \/ RunAborts
  <2>1. rows' = rows /\ run.pc \in {"start", "setup", "flight", "persist"}
    BY <1>8 DEF RunStart, RunSetup, RunSettles, RunAborts
  <2>2. /\ \A s \in Session : s # active => registry'[s] = registry[s]
        /\ registry[active] = "cancelled" => registry'[active] = "cancelled"
    BY <1>1, <1>7, <1>8 DEF RunStart, Start, RunSetup, RunSettles, RunAborts, Cancel
  <2>3. QED
    BY <1>6, <2>1, <2>2
\* The run keeps its checkpoint under its own name, or under that of an original
\* whose drop failed.
<1>9. CASE RunParks
  <2>1. Lineage = active \/ Lineage \in kept
    BY <1>9 DEF RunParks, Linked, Lineage
  <2>2. rows' \subseteq rows \cup {Lineage} /\ Settle("parked") /\ run.pc = "persist"
    BY <1>9 DEF RunParks
  <2>3. run'.pc = "final" /\ active' = active
    BY <1>1, <2>2 DEF Settle, Finish, RunState
  <2>4. registry'[active] \in Closing
    BY <1>1, <2>2 DEF Settle, Finish, RunInv, RunAgrees, Closing
  <2>5. rows' \subseteq rows \cup {active} \cup kept
    BY <2>1, <2>2
  <2>6. QED
    BY <1>6, <1>7, <2>2, <2>3, <2>4, <2>5
<1>10. CASE RunMember
  <2>1. /\ UNCHANGED <<registry, rows, active, kept, unclosed>>
        /\ run'.pc = run.pc /\ run'.outcome = run.outcome
    BY <1>1, <1>10 DEF RunMember, RunState
  <2>2. QED
    BY <1>1, <2>1 DEF RowsInv, HasReason, ForeignLeftover
<1>11. CASE RunFinal
  <2>1. /\ UNCHANGED <<registry, rows, active, kept, unclosed>> /\ run.pc = "final"
        /\ \/ registry[active] \in Closing /\ run'.pc = "final.write" /\ run'.outcome = registry[active]
           \/ registry[active] \notin Closing
    BY <1>1, <1>11 DEF RunFinal, RunState
  <2>2. QED
    BY <1>1, <2>1 DEF RowsInv, HasReason, ForeignLeftover
<1>12. CASE RunFinalWrite
  <2>1. /\ UNCHANGED <<registry, rows, active, kept, unclosed>> /\ run.pc = "final.write"
        /\ run.outcome # "parked" => run'.pc = "prune"
    BY <1>1, <1>12 DEF RunFinalWrite, RunState
  <2>2. QED
    BY <1>1, <2>1 DEF RowsInv, HasReason, ForeignLeftover
<1>13. CASE RunPrune
  <2>1. registry' = registry /\ rows' \subseteq rows /\ (active \in rows' => active \in kept')
    BY <1>13 DEF RunPrune, DeleteRows
  <2>2. ASSUME NEW s \in rows' PROVE HasReason(s)'
    <3>1. CASE s = active
      BY <2>1, <2>2, <3>1 DEF HasReason
    <3>2. CASE s # active
      BY <1>1, <1>3, <2>1, <3>2 DEF RowsInv
    <3>3. QED
      BY <3>1, <3>2
  <2>3. QED
    BY <2>2 DEF RowsInv
\* A runner that rejects leaves its own rows behind, and is on record.
<1>14. CASE RunFinalThrows
  <2>1. registry' = registry /\ rows' = rows /\ active \in unclosed'
    BY <1>14 DEF RunFinalThrows, Reject
  <2>2. ASSUME NEW s \in rows' PROVE HasReason(s)'
    <3>1. CASE s = active
      BY <2>1, <3>1 DEF HasReason
    <3>2. CASE s # active
      BY <1>1, <1>3, <2>1, <3>2 DEF RowsInv
    <3>3. QED
      BY <3>1, <3>2
  <2>3. QED
    BY <2>2 DEF RowsInv
<1>15. QED
  BY <1>5, <1>8, <1>9, <1>10, <1>11, <1>12, <1>13, <1>14 DEF RunnerStep

CheckpointInv == Linked /\ RowsInv

LEMMA CheckpointInvHolds == LifecycleSteps => []CheckpointInv
<1>1. LifecycleInit => CheckpointInv
  BY DEF LifecycleInit, CheckpointInv, Linked, RowsInv, NoRun
<1>2. /\ Grounds /\ Grounds' /\ WaitingInv /\ RunInv /\ RunInv' /\ StoreInv /\ CheckpointInv
      /\ [LifecycleNext]_allVars
      => CheckpointInv'
  <2> SUFFICES ASSUME Grounds, Grounds', WaitingInv, RunInv, RunInv', StoreInv, CheckpointInv,
                      [LifecycleNext]_allVars
               PROVE  CheckpointInv'
    OBVIOUS
  <2> USE DEF CheckpointInv
  <2>1. CASE UNCHANGED allVars
    BY <2>1 DEF allVars, extra, vars, Linked, RowsInv, HasReason, ForeignLeftover
  <2>2. [Next]_vars
    BY StepsOfTheQueue DEF Grounds
  <2>3. CASE RunnerStep
    BY <2>2, <2>3, RunnerKeepsLinked, RunnerKeepsRows
  <2>4. ASSUME NEW c \in Client, ClientStep(c) PROVE CheckpointInv'
    BY <2>2, <2>4, ClientsKeepLinked, ClientsKeepRows
  <2>5. QED
    BY <2>1, <2>3, <2>4 DEF LifecycleNext, ClientStep
<1>3. QED
  BY <1>1, <1>2, GroundsHold, RunInvHolds, StoreInvHolds, WaitingInvHolds, PTL DEF LifecycleSteps

LEMMA GroundsAreTyped == Grounds => LifecycleTypeOK
BY DEF Grounds, Types, Busy, LifecycleTypeOK, Aggregate, RunState, RunPc, Request, ClientPc

\* The store and the registry agree on how each run ended and on who may be
\* resumed, for any tenant and whatever mirror, drop or read of the store fails: a
\* row no park accounts for was left by a drop that failed, or by a runner whose
\* terminal mirror did, or is another tenant's cancelled park.
THEOREM TheTwoBooksAgree == LifecycleSpec => []StoreAgrees
<1>1. Grounds /\ StoreInv /\ CheckpointInv => StoreAgrees
  <2> SUFFICES ASSUME Grounds, StoreInv, CheckpointInv PROVE OnlyParkedKeepRows
    BY GroundsAreTyped DEF StoreInv, StoreAgrees
  <2> SUFFICES ASSUME active = NoSession, \A c \in Client : client[c].pc \in {"idle", "done"},
                      NEW s \in rows
               PROVE  \/ registry[s] = "parked"
                      \/ s \in kept \cup unclosed
                      \/ ForeignLeftover(s)
    BY DEF OnlyParkedKeepRows, AtRest
  <2>1. s \in Session /\ s # active
    BY NoSessionFresh DEF Grounds, Types
  <2>2. QED
    BY <2>1 DEF CheckpointInv, RowsInv, HasReason
<1>2. QED
  BY <1>1, GroundsHold, StoreInvHolds, CheckpointInvHolds, PTL DEF LifecycleSpec, LifecycleSteps

\* Whatever the tenant, the types hold.
THEOREM LifecycleTypeCorrect == LifecycleSpec => []LifecycleTypeOK
BY GroundsHold, GroundsAreTyped, PTL DEF LifecycleSpec, LifecycleSteps

\* The daemon's runner is a runner as SessionQueue assumes it: every run of the
\* lifecycle is, step by step, a run of the queue (QueueIsImplemented without its
\* fairness), so what is proved of the queue holds of the daemon, runners that
\* reject under a failing store included.
THEOREM LifecycleRefinesQueue ==
  LifecycleSpec => /\ Init /\ [][Next]_vars
                   /\ [](NoLostWakeup /\ BypassBound /\ WireIsFaithful)
                   /\ SkipGuarantee
BY GroundsHold, NoLostWakeupHolds, BypassBoundHolds, WireIsFaithfulHolds,
   SkipGuaranteeHolds, PTL DEF LifecycleSpec, LifecycleSteps, Steps

\* A run that resumes resumes what should have gone: runSession hydrates the
\* checkpoint a follow-up is linked to after the daemon's runner, which hydrated it
\* first, has consumed the row.  Only a checkpoint that outlived the drop, because
\* the store failed under it, is there to be resumed.
THEOREM OnlyAFailedDropIsResumed ==
  LifecycleSpec => [](/\ run.pc \in {"setup", "flight", "persist"}
                           => run.resume \in kept \cup {NoSession}
                      /\ ~StoreMayFail => kept = {})
BY CheckpointInvHolds, PTL DEF LifecycleSpec, LifecycleSteps, CheckpointInv, Linked

=============================================================================
