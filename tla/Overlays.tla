------------------------------- MODULE Overlays -------------------------------
(***************************************************************************)
(* What the home page lays over the selected session, in every tab:        *)
(*   dashboard/src/hooks/useDraftFlow.ts, lib/draftFlow.ts   draft agents   *)
(*     and links, kept in the browser's storage under the session           *)
(*   dashboard/src/hooks/useRoomPresence.ts   who is in the session's room  *)
(*   dashboard/src/app/HomeClient.tsx         the selection and its palette *)
(*                                                                         *)
(* A draft remembers, for the properties, the session it was made for, and *)
(* a roster the session it was read from.                                  *)
(***************************************************************************)
EXTENDS Integers, FiniteSets

CONSTANTS
  Tab, Session,
  Faults,       \* "full": a write to storage fails; "gone", "down": a roster read does
  MaxDrafts,    \* bound: drafts made
  MaxVersion,   \* bound: changes of one draft
  MaxPolls      \* bound: roster reads in flight in one tab

VARIABLES
  selected,   \* per tab
  storage,    \* localStorage: the drafts of each session
  drafts,     \* useDraftFlow's state, per tab
  loaded,     \* loadedSession, per tab
  made,       \* drafts made so far: draftCounter, and the clock in their ids
  roster,     \* useRoomPresence's members, per tab
  ticking,    \* its timer runs
  reading,    \* its inflight
  polls       \* roster reads not landed

vars == <<selected, storage, drafts, loaded, made, roster, ticking, reading, polls>>
draftFlow == <<storage, drafts, loaded, made>>
presence == <<roster, ticking, reading, polls>>

None == "none"
Nobody == [of |-> None]
Members(s) == [of |-> s]

-----------------------------------------------------------------------------
(* draftFlow.                                                              *)

loadDraftFlow(s) == IF s = None THEN {} ELSE storage[s]

\* A full or blocked store keeps what it had.
saveDraftFlow(s, state) ==
  \/ storage' = IF s = None THEN storage ELSE [storage EXCEPT ![s] = state]
  \/ "full" \in Faults /\ UNCHANGED storage

\* createDraftNode and createDraftEdge: dropped or tapped on the palette.
AddDraft(t) ==
  /\ made < MaxDrafts /\ made' = made + 1
  /\ LET state == drafts[t] \cup {[id |-> made, for |-> selected[t], version |-> 0]} IN
       /\ drafts' = [drafts EXCEPT ![t] = state]
       /\ saveDraftFlow(selected[t], state)
  /\ UNCHANGED <<selected, loaded, presence>>

\* applyDraftChanges and updateNodeConfig: moved or configured.
ChangeDraft(t) ==
  /\ \E d \in drafts[t] :
       /\ d.version < MaxVersion
       /\ LET state == (drafts[t] \ {d}) \cup {[d EXCEPT !.version = @ + 1]} IN
            /\ drafts' = [drafts EXCEPT ![t] = state]
            /\ saveDraftFlow(selected[t], state)
  /\ UNCHANGED <<selected, loaded, made, presence>>

-----------------------------------------------------------------------------
(* Selecting: the render that sees another session loads its drafts before *)
(* the effect saves them, and the roster's effect starts over.             *)

\* Mutant: the state is not reset when the session changes.
KeptOnSelect(t, s) == drafts[t]

ResetOnSelect(t, s) == IF s # loaded[t] THEN loadDraftFlow(s) ELSE drafts[t]

\* The first read of the room, unless there is none to read.
FirstRead(t, s, hidden) ==
  IF s = None \/ hidden THEN {} ELSE {[tab |-> t, of |-> s, cancelled |-> FALSE]}

Select(t, s) ==
  /\ s # selected[t]
  /\ selected' = [selected EXCEPT ![t] = s]
  /\ LET state == ResetOnSelect(t, s) IN
       /\ drafts' = [drafts EXCEPT ![t] = state]
       /\ saveDraftFlow(s, state)
  /\ loaded' = [loaded EXCEPT ![t] = s]
  /\ ticking' = [ticking EXCEPT ![t] = TRUE]
  /\ roster' = IF s = None THEN [roster EXCEPT ![t] = Nobody] ELSE roster
  /\ \E hidden \in BOOLEAN :
       /\ polls' = {IF p.tab = t THEN [p EXCEPT !.cancelled = TRUE] ELSE p : p \in polls}
                     \cup FirstRead(t, s, hidden)
       /\ reading' = [reading EXCEPT ![t] = FirstRead(t, s, hidden) # {}]
  /\ UNCHANGED made

-----------------------------------------------------------------------------
(* useRoomPresence.                                                        *)

\* The interval fires in a tab that is not hidden.
Poll(t) ==
  /\ ticking[t] /\ selected[t] # None /\ ~reading[t]
  /\ Cardinality({p \in polls : p.tab = t}) < MaxPolls
  /\ reading' = [reading EXCEPT ![t] = TRUE]
  /\ polls' = polls \cup {[tab |-> t, of |-> selected[t], cancelled |-> FALSE]}
  /\ UNCHANGED <<selected, draftFlow, roster, ticking>>

Speaks(p) == ~p.cancelled

Answers == {"members"} \cup (Faults \cap {"gone", "down"})

\* A read lands.  A session that is gone is not asked for again.
Land(p, answer) ==
  LET t == p.tab IN
  /\ p \in polls /\ polls' = polls \ {p}
  /\ roster' = IF ~Speaks(p) THEN roster
               ELSE [roster EXCEPT ![t] = IF answer = "members" THEN Members(p.of) ELSE Nobody]
  /\ ticking' = [ticking EXCEPT ![t] = @ /\ ~(answer = "gone" /\ ~p.cancelled)]
  /\ reading' = IF p.cancelled THEN reading ELSE [reading EXCEPT ![t] = FALSE]
  /\ UNCHANGED <<selected, draftFlow>>

-----------------------------------------------------------------------------
Init ==
  /\ selected = [t \in Tab |-> None]
  /\ storage = [s \in Session |-> {}]
  /\ drafts = [t \in Tab |-> {}] /\ loaded = [t \in Tab |-> None] /\ made = 0
  /\ roster = [t \in Tab |-> Nobody]
  /\ ticking = [t \in Tab |-> TRUE] /\ reading = [t \in Tab |-> FALSE] /\ polls = {}

\* The palette is shown with a session's diagram.
Next ==
  \/ \E t \in Tab : \E s \in Session \cup {None} : Select(t, s)
  \/ \E t \in Tab : selected[t] # None /\ (AddDraft(t) \/ ChangeDraft(t))
  \/ \E t \in Tab : Poll(t)
  \/ \E p \in polls, answer \in Answers : Land(p, answer)

Spec == Init /\ [][Next]_vars

-----------------------------------------------------------------------------
(* Properties.                                                             *)

\* "Reset overlay state when the session changes": no session is ever shown, or
\* stored with, a draft that was made on another's diagram.
DraftsStayTheirOwn ==
  /\ \A t \in Tab : \A d \in drafts[t] : d.for = selected[t]
  /\ \A s \in Session : \A d \in storage[s] : d.for = s

\* A tab shows and keeps what belongs to the session it is on: besides, a roster
\* that changes is that of the session then selected, so a slow read of another
\* room never lands on it, however the user has moved meanwhile.
TabsKeepTheirOwn ==
  [][/\ DraftsStayTheirOwn'
     /\ \A t \in Tab :
          roster'[t] # roster[t] => roster'[t].of \in {selected'[t], None}]_vars
=============================================================================
