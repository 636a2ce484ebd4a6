----------------------------- MODULE MCDashboard -----------------------------
(***************************************************************************)
(* Small instances of the dashboard's models.  They share no state: a      *)
(* behavior is one part's, and the others stay where they began.           *)
(***************************************************************************)
EXTENDS Integers, Sequences, TLC

CONSTANTS Session, Tab, c1, c2
CONSTANTS MaxBuffered, MaxReceipts, Faults, MaxNow, MaxReads, MaxDrops
CONSTANTS StorageFaults, MaxDrafts, MaxVersion, MaxPolls
CONSTANTS Mode, Window, MaxHeard, MaxFailures

VARIABLES
  part,
  now, status, turns, answered, wire, connected, drops, buffer, processed, rows, loading,
  answers, selected, saved, gone, receipts, posts,
  inTab, storage, drafts, loaded, made, roster, ticking, reading, polls,
  sessions, events, heard, onCanvas, mode, debouncedSessions, debouncedEvents,
  health, rendered, failures, wasHealthy, inFlight, timer, mounted

\* The frames of two sessions: a run with parallel calls and a stray result,
\* beside another whose creation and calls the same stream carries.  A decision is
\* named by its frame's number, or by a decisionId that may come again.
E(s, type, member, step) ==
  [sessionId |-> s, type |-> type, member |-> member, step |-> step, decisionId |-> -1]
Decided(id) == [E(c1, "decision.recorded", "", 0) EXCEPT !.decisionId = id]
Heard ==
  {E(c1, type, "", 0) : type \in {"created", "running", "succeeded"}}
  \cup {E(c1, "reasoning", "m1", 1), Decided(-1), Decided(1)}
  \cup {E(c1, "tool.called", m, 1) : m \in {"m1", "m2"}}
  \cup {E(c1, "tool.result", "m1", 1), E(c2, "created", "", 0), E(c2, "tool.called", "m1", 1)}

Home == INSTANCE HomePage
Over == INSTANCE Overlays WITH selected <- inTab, Faults <- StorageFaults
Canvas == INSTANCE Diagram WITH
  selected <- onCanvas, Session <- {c1, c2}, MaxBuffered <- Window
Health == INSTANCE Wake

home == <<now, status, turns, answered, wire, connected, drops, buffer, processed, rows, loading,
          answers, selected, saved, gone, receipts, posts>>
overlays == <<inTab, storage, drafts, loaded, made, roster, ticking, reading, polls>>
canvas == <<sessions, events, heard, onCanvas, mode, debouncedSessions, debouncedEvents>>
poll == <<health, rendered, failures, wasHealthy, inFlight, timer, mounted>>
vars == <<part, home, overlays, canvas, poll>>

ASSUME InputsAreKnown == Home!BoundsArePositive /\ Canvas!HeardKnown /\ Canvas!BufferHolds

Init ==
  /\ part \in {"home", "overlays", "canvas", "health"}
  /\ Home!Init /\ Over!Init /\ Canvas!Init /\ Health!Init
  /\ part # "home" =>
       selected = Home!None /\ saved = Home!None /\ status = [s \in Session |-> Home!None]
  /\ part # "canvas" => onCanvas = c1 /\ mode = "full"

Next ==
  \/ part = "home" /\ Home!Next /\ UNCHANGED <<part, overlays, canvas, poll>>
  \/ part = "overlays" /\ Over!Next /\ UNCHANGED <<part, home, canvas, poll>>
  \/ part = "canvas" /\ Canvas!Next /\ UNCHANGED <<part, home, overlays, poll>>
  \/ part = "health" /\ Health!Next /\ UNCHANGED <<part, home, overlays, canvas>>

Spec == Init /\ [][Next]_vars

Symmetric == Permutations(Session) \cup Permutations(Tab)

-----------------------------------------------------------------------------
\* HomePage: no frame takes a row of the list back.
RowsMoveForward == Home!RowsMoveForward

\* HomePage: a turn is ticked as delivered by its own echo or a later one.
NoInheritedDelivery == part = "home" => Home!NoInheritedDelivery

\* HomePage: it is, where no send the page keeps for the session has failed.
DeliveryIsItsOwn == part = "home" => Home!DeliveryIsItsOwn

\* Overlays: drafts stay with the session they were made for, and a slow read of
\* another room never lands on the roster.
TabsKeepTheirOwn == Over!TabsKeepTheirOwn

\* Diagram: the canvas draws one tree, of the selected session alone, and names two
\* nodes alike only where two decisions are.
TreeOfOneSession == part = "canvas" => Canvas!TreeOfOneSession

\* Wake: an open page never stops asking.
PollGoesOn == part = "health" => Health!PollGoesOn
=============================================================================
