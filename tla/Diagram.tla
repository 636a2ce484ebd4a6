------------------------------- MODULE Diagram -------------------------------
(***************************************************************************)
(* The society diagram of the selected session, as its canvas holds it:    *)
(*   dashboard/src/components/SocietyDiagram.tsx   what is fed, when        *)
(*   dashboard/src/lib/graph.ts                    the projection           *)
(*   dashboard/src/lib/sessionProjection.ts        the live overlay         *)
(*                                                                         *)
(* The canvas hears the bridge's stream over its own connection, which may *)
(* miss any frame, and keeps the last few; it reads the list once.  A node *)
(* is named by its session and what it stands for.  Placement is left out. *)
(***************************************************************************)
EXTENDS Integers, Sequences, FiniteSets, SequencesExt, FiniteSetsExt, Functions

CONSTANTS
  Session, Mode,
  Heard,        \* what the stream may carry: [sessionId, type, member, step, decisionId]
  MaxBuffered,  \* MAX_BUFFERED_EVENTS
  MaxHeard      \* bound: frames heard

VARIABLES
  sessions,           \* the list read: the sessions in it, with their status
  events,             \* the frames kept, each with its eventId
  heard,              \* how many there were
  selected, mode,
  debouncedSessions, debouncedEvents

vars == <<sessions, events, heard, selected, mode, debouncedSessions, debouncedEvents>>

Lifecycle == {"created", "running", "succeeded", "failed", "cancelled", "awaiting_input"}
Terminal == {"succeeded", "failed", "cancelled"}

HeardKnown ==
  \A e \in Heard :
    /\ e.sessionId \in Session
    /\ e.type \in Lifecycle \cup {"reasoning", "tool.called", "tool.result", "decision.recorded"}
    /\ e.step \in Nat /\ e.decisionId \in Int

\* It holds more than the frame it is given: one frame less is kept of the rest.
BufferHolds == MaxBuffered \in Nat \ {0, 1}

-----------------------------------------------------------------------------
(* sessionProjection.                                                      *)

Moves(s, evs) ==
  {i \in DOMAIN evs : evs[i].sessionId = s /\ evs[i].type \in Lifecycle \ {"created"}}
Creations(s, evs) == {i \in DOMAIN evs : evs[i].sessionId = s /\ evs[i].type = "created"}

\* A created session gets a row; every later frame moves the row it finds.
withLiveUpdates(rows, evs) ==
  [s \in DOMAIN rows \cup {x \in Session : Creations(x, evs) # {}} |->
    LET since == IF s \in DOMAIN rows THEN 0 ELSE Min(Creations(s, evs))
        later == {i \in Moves(s, evs) : i > since}
    IN IF later # {} THEN evs[Max(later)].type
       ELSE IF s \in DOMAIN rows THEN rows[s] ELSE "queued"]

-----------------------------------------------------------------------------
(* graph.ts: what each session's part of the diagram is made of.  Every    *)
(* session has a correlation of its own.                                   *)

\* Numbers in order: the k-th has k - 1 of them before it.
Ranked(numbers, k) == {i \in numbers : Cardinality({j \in numbers : j < i}) = k - 1}
InOrder(numbers) == [k \in 1..Cardinality(numbers) |-> CHOOSE i \in Ranked(numbers, k) : TRUE]

\* What is found at some places of a sequence.
At(places, all) == LET order == InOrder(places) IN [k \in DOMAIN order |-> all[order[k]]]

Of(s, evs) == At({i \in DOMAIN evs : evs[i].sessionId = s}, evs)
OfType(s, type, evs) ==
  At({i \in DOMAIN evs : evs[i].sessionId = s /\ evs[i].type = type}, evs)

\* Those that ran, as first seen.
membersFor(s, evs) ==
  LET own == Of(s, evs)
      first == {i \in DOMAIN own : own[i].member # "" /\ \A j \in 1..(i - 1) : own[j].member # own[i].member}
      order == InOrder(first)
  IN [k \in DOMAIN order |-> own[order[k]].member]

MemberNodes(s, evs) ==
  LET chain == membersFor(s, evs) IN [i \in DOMAIN chain |-> <<s, "member", chain[i]>>]

\* One node per step, in the order of the steps.
ReasoningNodes(s, evs) ==
  LET steps == InOrder({e.step : e \in Range(OfType(s, "reasoning", evs))})
  IN [i \in DOMAIN steps |-> <<s, "reasoning", steps[i]>>]

\* Calls, then the results whose call was not heard.
ToolPairs(s, evs) ==
  LET called == OfType(s, "tool.called", evs)
      results == OfType(s, "tool.result", evs)
      orphans == {i \in DOMAIN results : \A c \in Range(called) : c.step # results[i].step}
  IN called \o At(orphans, results)

\* Mutant: parallel calls of one tool share a name.
NoSuffix(pairs, i) == 0

\* A name that is taken gets the next suffix.
Suffix(pairs, i) ==
  Cardinality({j \in 1..(i - 1) :
                 pairs[j].member = pairs[i].member /\ pairs[j].step = pairs[i].step})

ToolNodes(s, evs) ==
  LET pairs == ToolPairs(s, evs)
  IN [i \in DOMAIN pairs |-> <<s, "tool", pairs[i].member, pairs[i].step, Suffix(pairs, i)>>]

\* Ids are numbers, which may be spelled alike; None is one a frame does not have,
\* Dec the "dec" of one that has neither (the bridge numbers every frame kept).
None == -1
Dec == -2
did(d) ==
  CASE d.decisionId # None -> d.decisionId
    [] d.decisionId = None /\ d.eventId # None -> d.eventId
    [] OTHER -> Dec

\* No suffix: decisions of one name are drawn as nodes of one id.
DecisionNodes(s, evs) ==
  LET ds == OfType(s, "decision.recorded", evs)
  IN [i \in DOMAIN ds |-> <<s, "decision", did(ds[i])>>]

LastNode(s, state) ==
  CASE state = "awaiting_input" -> <<<<s, "awaiting">>>>
    [] state \in Terminal -> <<<<s, "terminal">>>>
    [] OTHER -> <<>>

Extras(s, state, evs) ==
  ReasoningNodes(s, evs) \o ToolNodes(s, evs) \o DecisionNodes(s, evs) \o LastNode(s, state)

\* A session's nodes, each with the one its edge comes from: the first that an id was
\* hung under, however often it is drawn.
First(ids, i) == Min({j \in DOMAIN ids : ids[j] = ids[i]})
Chained(from, ids) ==
  [i \in DOMAIN ids |->
    [id |-> ids[i], from |-> IF First(ids, i) = 1 THEN from ELSE ids[First(ids, i) - 1]]]
FannedOut(from, ids) == [i \in DOMAIN ids |-> [id |-> ids[i], from |-> from]]

Atlas == <<"atlas">>
SessionNode(s) == [id |-> <<s, "session">>, from |-> Atlas]

Branch(s, state, evs, m) ==
  LET root == <<s, "session">>
      chain == MemberNodes(s, evs)
  IN <<SessionNode(s)>> \o
     CASE m = "fanout" -> FannedOut(root, chain)
       [] m = "chain" -> Chained(root, chain)
       [] OTHER -> Chained(root, chain \o Extras(s, state, evs))

\* Isolated after the overlay, so that no frame brings another session back.
Isolated(live, s) == Restrict(live, DOMAIN live \cap {s})

buildSocietyGraph(rows, evs, s, m) ==
  LET live == Isolated(withLiveUpdates(rows, evs), s)
      order == SetToSeq(DOMAIN live)
  IN <<[id |-> Atlas, from |-> Atlas]>> \o
     FlattenSeq([i \in DOMAIN order |-> Branch(order[i], live[order[i]], evs, m)])

-----------------------------------------------------------------------------
(* SocietyDiagram.                                                         *)

Shown == buildSocietyGraph(debouncedSessions, debouncedEvents, selected, mode)
filteredSessions == Restrict(sessions, DOMAIN sessions \cap {selected})
filteredEvents == Of(selected, events)

Load(rows) ==
  /\ sessions = <<>> /\ sessions' = rows
  /\ UNCHANGED <<events, heard, selected, mode, debouncedSessions, debouncedEvents>>

\* A frame with its id.
Framed(e, id) ==
  [sessionId |-> e.sessionId, type |-> e.type, member |-> e.member, step |-> e.step,
   decisionId |-> e.decisionId, eventId |-> id]

Hear(e) ==
  /\ heard < MaxHeard /\ heard' = heard + 1
  /\ LET frames == Append(events, Framed(e, heard))
     IN events' = SubSeq(frames, Max({1, Len(frames) - MaxBuffered + 1}), Len(frames))
  /\ UNCHANGED <<sessions, selected, mode, debouncedSessions, debouncedEvents>>

Debounced ==
  /\ debouncedSessions' = filteredSessions /\ debouncedEvents' = filteredEvents
  /\ UNCHANGED <<sessions, events, heard, selected, mode>>

\* The canvas is drawn for the new session before the debounce catches up.
Select(s) ==
  /\ s # selected /\ selected' = s
  /\ UNCHANGED <<sessions, events, heard, mode, debouncedSessions, debouncedEvents>>

-----------------------------------------------------------------------------
Init ==
  /\ sessions = <<>> /\ events = <<>> /\ heard = 0
  /\ selected \in Session /\ mode \in Mode
  /\ debouncedSessions = <<>> /\ debouncedEvents = <<>>

Next ==
  \/ \E S \in SUBSET Session \ {{}} :
       \E rows \in [S -> {"queued", "succeeded"}] : Load(rows)
  \/ \E e \in Heard : Hear(e)
  \/ Debounced
  \/ \E s \in Session : Select(s)

Spec == Init /\ [][Next]_vars

-----------------------------------------------------------------------------
(* Properties.                                                             *)

\* The ids of the decisions that share their name with another one kept.
Alike(s, evs) ==
  LET decisions == {i \in DOMAIN evs : evs[i].sessionId = s /\ evs[i].type = "decision.recorded"}
      shared == {i \in decisions : \E j \in decisions \ {i} : did(evs[j]) = did(evs[i])}
  IN {<<s, "decision", did(evs[i])>> : i \in shared}

\* Whatever frames were missed, repeated or evicted, and whichever sessions
\* they tell of, the canvas draws one tree under Atlas: every edge comes from a
\* node drawn before, nothing is drawn for a session other than the selected
\* one, and nodes that share an id are decisions whose frames share a name.
TreeOfOneSession ==
  LET graph == Shown IN
  /\ \A i, j \in DOMAIN graph :
       graph[i].id = graph[j].id => i = j \/ graph[i].id \in Alike(selected, debouncedEvents)
  /\ \A i \in 2..Len(graph) :
       /\ \E j \in 1..(i - 1) : graph[j].id = graph[i].from
       /\ graph[i].id[1] = selected

\* No two nodes share an id at all (graph.ts:162 "avoid collision via suffix", said
\* of tools).  Two decisions of one decisionId do.
NamesNothingTwice ==
  LET graph == Shown IN \A i, j \in DOMAIN graph : graph[i].id = graph[j].id => i = j
=============================================================================
