---------------------------- MODULE SessionQueue ----------------------------
(***************************************************************************)
(* The serial worker of the daemon: src/bridge/SessionQueue.ts, with the   *)
(* statuses of src/tasks/taskRegistry.ts it reads.                         *)
(*                                                                         *)
(* Sessions wait in two FIFO lanes.  The pump takes one session at a time, *)
(* awaits the injected runner, reads the outcome from the registry, closes *)
(* the session on the wire and picks the next.  Node runs a handler to its *)
(* next await without interruption, so a call of declareSession, or the    *)
(* continuation after the runner's promise, with every turn of the pump    *)
(* loop that skips a cancelled session, is ONE action here.                *)
(*                                                                         *)
(* The runner is known only through what it may do to the registry:        *)
(* SessionLifecycle replaces it by the runner of src/server.ts.            *)
(***************************************************************************)
EXTENDS Naturals, Sequences

CONSTANTS
  Standard,        \* sessions declared to the standard lane
  Interactive,     \* sessions declared to the interactive lane
  MaxConsecutive,  \* MAX_CONSECUTIVE_INTERACTIVE
  StoreMayFail,    \* may the store fail under the runner?  Under its first
                   \* mirror it then returns before registry.start, under
                   \* its last one it rejects
  NoSession        \* "no session": the pump is idle

Session == Standard \cup Interactive

ASSUME LanesDisjoint == Standard \cap Interactive = {}
ASSUME BoundPositive == MaxConsecutive \in Nat \ {0}
ASSUME StoreFlag == StoreMayFail \in BOOLEAN
ASSUME NoSessionFresh == NoSession \notin Session

VARIABLES
  registry,     \* TaskRegistry: the status of each session
  standard,     \* the standard lane
  interactive,  \* the interactive lane
  consecutive,  \* consecutiveInteractive
  running,      \* the pump's re-entrancy flag
  active,       \* the session whose runner the pump awaits
  wire,         \* the session.* events emitted so far
  rejected,     \* history: a runner rejected, and the pump has not run since
  unclosed,     \* history: sessions the pump started and never closed
  bypassed      \* history: interactive runs begun over each waiting standard
                \* session since a standard session last began

vars == <<registry, standard, interactive, consecutive, running, active, wire,
          bypassed, rejected, unclosed>>

-----------------------------------------------------------------------------
Status == {"absent", "queued", "running", "parked", "succeeded", "failed",
           "cancelled"}
Closing == {"succeeded", "failed", "parked", "cancelled"}
Event == [type : {"queued", "started"} \cup Closing, session : Session]

On(type, s) == [type |-> type, session |-> s]

Init ==
  /\ registry = [s \in Session |-> "absent"]
  /\ standard = <<>>
  /\ interactive = <<>>
  /\ consecutive = 0
  /\ running = FALSE
  /\ active = NoSession
  /\ wire = <<>>
  /\ bypassed = [s \in Standard |-> 0]
  /\ rejected = FALSE
  /\ unclosed = {}

-----------------------------------------------------------------------------
(* The pump loop.                                                          *)

\* A session the pump skips: cancelled while it waited, or unknown.
Runnable(reg, s) == reg[s] \notin {"absent", "cancelled"}

\* Mutant: the bound lets one interactive run too many through.
InteractiveTurnTooLong(c) == c <= MaxConsecutive

\* The interactive lane may go first while its run of turns is short.
InteractiveTurn(c) == c < MaxConsecutive

\* The positions of lane the pump may run, and the one it reaches first.
Live(reg, lane) == {i \in DOMAIN lane : Runnable(reg, lane[i])}
IsFirstLive(reg, lane, i) ==
  i \in Live(reg, lane) /\ \A j \in Live(reg, lane) : i <= j

\* The lane once everything up to position i has been shifted off it.
After(lane, i) == SubSeq(lane, i + 1, Len(lane))

\* The turns of the loop from #next up to the next await or to the drained
\* return.  A lane whose turn comes first is emptied of cancelled sessions
\* before the other one is looked at; skipping changes neither the counter nor
\* which lane comes first.
BeginInteractive(reg, std, int, events) ==
  \E i \in DOMAIN int :
    /\ IsFirstLive(reg, int, i)
    /\ InteractiveTurn(consecutive) \/ Live(reg, std) = {}
    /\ standard' = IF InteractiveTurn(consecutive) THEN std ELSE <<>>
    /\ interactive' = After(int, i)
    /\ consecutive' = consecutive + 1
    /\ running' = TRUE
    /\ active' = int[i]
    /\ wire' = Append(events, On("started", int[i]))
    /\ bypassed' = [s \in Standard |->
                      IF \E j \in Live(reg, std) : std[j] = s
                      THEN bypassed[s] + 1 ELSE bypassed[s]]

\* Mutant: a standard run does not clear the counter of interactive ones.
BeginStandardKeepsDebt(reg, std, int, events) ==
  \E i \in DOMAIN std :
    /\ IsFirstLive(reg, std, i)
    /\ ~InteractiveTurn(consecutive) \/ Live(reg, int) = {}
    /\ standard' = After(std, i)
    /\ interactive' = IF InteractiveTurn(consecutive) THEN <<>> ELSE int
    /\ UNCHANGED consecutive
    /\ running' = TRUE
    /\ active' = std[i]
    /\ wire' = Append(events, On("started", std[i]))
    /\ bypassed' = [s \in Standard |-> 0]

BeginStandard(reg, std, int, events) ==
  \E i \in DOMAIN std :
    /\ IsFirstLive(reg, std, i)
    /\ ~InteractiveTurn(consecutive) \/ Live(reg, int) = {}
    /\ standard' = After(std, i)
    /\ interactive' = IF InteractiveTurn(consecutive) THEN <<>> ELSE int
    /\ consecutive' = 0
    /\ running' = TRUE
    /\ active' = std[i]
    /\ wire' = Append(events, On("started", std[i]))
    /\ bypassed' = [s \in Standard |-> 0]

Drained(reg, std, int, events) ==
  /\ Live(reg, std) = {} /\ Live(reg, int) = {}
  /\ standard' = <<>> /\ interactive' = <<>>
  /\ consecutive' = 0
  /\ running' = FALSE
  /\ active' = NoSession
  /\ wire' = events
  /\ UNCHANGED bypassed

PumpLoop(reg, std, int, events) ==
  /\ \/ BeginInteractive(reg, std, int, events)
     \/ BeginStandard(reg, std, int, events)
     \/ Drained(reg, std, int, events)
  /\ rejected' = FALSE

-----------------------------------------------------------------------------
(* The callers.                                                            *)

Push(lane, s) == Append(lane, s)

\* Mutant: declareSession enqueues but does not start the pump.
DeclareWithoutPump(s) ==
  /\ registry[s] = "absent"
  /\ registry' = [registry EXCEPT ![s] = "queued"]
  /\ standard' = IF s \in Standard THEN Push(standard, s) ELSE standard
  /\ interactive' = IF s \in Interactive THEN Push(interactive, s) ELSE interactive
  /\ wire' = Append(wire, On("queued", s))
  /\ UNCHANGED <<consecutive, running, active, bypassed, rejected, unclosed>>

\* registry.create and queue.declareSession, called in the same tick.
Declare(s) ==
  /\ registry[s] = "absent"
  /\ registry' = [registry EXCEPT ![s] = "queued"]
  /\ LET std == IF s \in Standard THEN Push(standard, s) ELSE standard
         int == IF s \in Interactive THEN Push(interactive, s) ELSE interactive
         events == Append(wire, On("queued", s))
     IN \/ /\ running
           /\ standard' = std /\ interactive' = int /\ wire' = events
           /\ UNCHANGED <<consecutive, running, active, bypassed, rejected, unclosed>>
        \/ /\ ~running
           /\ PumpLoop(registry', std, int, events)
           /\ UNCHANGED unclosed

\* registry.cancel: legal from queued, parked and running.
Cancel(s) ==
  /\ registry[s] \in {"queued", "parked", "running"}
  /\ registry' = [registry EXCEPT ![s] = "cancelled"]
  /\ UNCHANGED <<standard, interactive, consecutive, running, active, wire,
                 bypassed, rejected, unclosed>>

\* registry.start, called by the runner for the session it was given.
Start ==
  /\ active # NoSession
  /\ registry[active] = "queued"
  /\ registry' = [registry EXCEPT ![active] = "running"]
  /\ UNCHANGED <<standard, interactive, consecutive, running, active, wire,
                 bypassed, rejected, unclosed>>

\* registry.succeed, registry.fail and registry.park.
Finish(outcome) ==
  /\ active # NoSession
  /\ registry[active] = "running"
  /\ registry' = [registry EXCEPT ![active] = outcome]
  /\ UNCHANGED <<standard, interactive, consecutive, running, active, wire,
                 bypassed, rejected, unclosed>>

\* Mutant: a parked session is not closed on the wire.
CloseEventsButPark(s) ==
  IF registry[s] \in Closing \ {"parked"} THEN <<On(registry[s], s)>> ELSE <<>>

\* The event that closes the session: read from the registry, never guessed.
CloseEvents(s) ==
  IF registry[s] \in Closing THEN <<On(registry[s], s)>> ELSE <<>>

\* The runner's promise resolves and the pump goes on to the next session.  A
\* session whose runner came back before registry.start has nothing to close it.
Return ==
  /\ active # NoSession
  /\ \/ registry[active] \in Closing
     \/ StoreMayFail /\ registry[active] = "queued"
  /\ UNCHANGED registry
  /\ unclosed' = IF registry[active] \in Closing THEN unclosed ELSE unclosed \cup {active}
  /\ PumpLoop(registry, standard, interactive, wire \o CloseEvents(active))

\* The runner's promise rejects, once the outcome is in the registry: the pump
\* has a finally and no catch.  The flag is cleared, the session stays open on the
\* wire and the lanes stay as they are, until the next declareSession.
Reject ==
  /\ StoreMayFail
  /\ active # NoSession
  /\ registry[active] \in Closing
  /\ running' = FALSE
  /\ active' = NoSession
  /\ rejected' = TRUE
  /\ unclosed' = unclosed \cup {active}
  /\ UNCHANGED <<registry, standard, interactive, consecutive, wire, bypassed>>

Runner ==
  \/ Start
  \/ \E o \in {"succeeded", "failed", "parked"} : Finish(o)
  \/ Return
  \/ Reject

Next == (\E s \in Session : Declare(s) \/ Cancel(s)) \/ Runner

\* The event loop runs every ready continuation, and a provider call ends: no
\* promise the runner awaits stays pending for ever.
Fairness == WF_vars(Runner)

Spec == Init /\ [][Next]_vars /\ Fairness

-----------------------------------------------------------------------------
(* Properties.                                                             *)

\* The types, and the flag: the pump holds it exactly while it awaits a runner.
TypeOK ==
  /\ registry \in [Session -> Status]
  /\ standard \in Seq(Standard)
  /\ interactive \in Seq(Interactive)
  /\ consecutive \in Nat
  /\ active \in Session \cup {NoSession}
  /\ running = (active # NoSession)
  /\ wire \in Seq(Event)
  /\ bypassed \in [Standard -> Nat]
  /\ rejected \in BOOLEAN
  /\ unclosed \subseteq Session

Happened(type, s) == \E i \in DOMAIN wire : wire[i] = On(type, s)

Waits(s) ==
  \/ \E i \in DOMAIN standard : standard[i] = s
  \/ \E i \in DOMAIN interactive : interactive[i] = s

\* No lost wakeup: a queued session that has not started is in its lane, whatever
\* calls of declareSession met the pump's return and whatever runner rejected;
\* and the pump sleeps over a lane that is not empty only since a runner rejected.
NoLostWakeup ==
  /\ \A s \in Session :
       registry[s] = "queued" /\ ~Happened("started", s) => Waits(s)
  /\ ~running /\ ~rejected => standard = <<>> /\ interactive = <<>>

\* One at a time, on the wire: a second session never starts before the first
\* one was closed, a parked one included - unless the store failed under the
\* first one's runner, which by then is out of the way: the session has its
\* outcome, or waits in the registry with no runner.
SerialOnWire ==
  /\ \A i, j \in DOMAIN wire :
       /\ i < j
       /\ wire[i].type = "started"
       /\ wire[j].type = "started"
       => \/ \E k \in i + 1 .. j - 1 :
               wire[k].session = wire[i].session /\ wire[k].type \in Closing
          \/ wire[i].session \in unclosed
  /\ \A s \in unclosed : registry[s] \in Closing \cup {"queued"} /\ s # active
  /\ ~StoreMayFail => unclosed = {}

\* What the code says of its close-outs (SessionQueue.ts:99-100): a watcher of
\* the queue never sees a session running that is not.  It does not hold: a
\* start whose runner met a failing store is never closed.
NeverRunningForever ==
  \A i \in DOMAIN wire :
    wire[i].type = "started" /\ wire[i].session # active
      => \E k \in DOMAIN wire :
           k > i /\ wire[k].session = wire[i].session /\ wire[k].type \in Closing

QueuedBefore(s, t) ==
  \E i, j \in DOMAIN wire :
    i < j /\ wire[i] = On("queued", s) /\ wire[j] = On("queued", t)

\* FIFO within a lane: a session that started had no elder of its lane still
\* waiting; only a cancelled elder is passed over.
LaneFIFO ==
  \A lane \in {Standard, Interactive} : \A s, t \in lane :
    QueuedBefore(s, t) /\ Happened("started", t)
      => Happened("started", s) \/ registry[s] = "cancelled"

\* The fairness bound: while a standard session waits, at most MaxConsecutive
\* interactive sessions begin before a standard one does.
BypassBound ==
  \A i \in DOMAIN standard :
    Runnable(registry, standard[i]) => bypassed[standard[i]] <= MaxConsecutive

\* Terminal from registry: what the wire says of a session's end is what the
\* registry holds, then and ever after (a parked session may still be cancelled).
TerminalFromRegistry ==
  \A i \in DOMAIN wire :
    LET e == wire[i] IN
      /\ e.type \in {"succeeded", "failed", "cancelled"}
           => registry[e.session] = e.type
      /\ e.type = "parked" => registry[e.session] \in {"parked", "cancelled"}

\* A session cancelled while it waited is skipped, never run.
SkipGuarantee ==
  [][\A s \in Session :
       registry[s] = "cancelled" /\ ~Happened("started", s)
         => ~Happened("started", s)']_vars

\* What the wire shows is what happened: sessions come one at a time, in the
\* order of their lane, and end as the registry says they did.
WireIsFaithful == SerialOnWire /\ LaneFIFO /\ TerminalFromRegistry
=============================================================================
