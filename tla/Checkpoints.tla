----------------------------- MODULE Checkpoints -----------------------------
(***************************************************************************)
(* The rows of one run's checkpoint:                                       *)
(*   src/session/deltaChannel.ts     which row a save writes, and the      *)
(*                                   value a sequence of rows stands for    *)
(*   src/session/checkpointStore.ts  live mirror, persist, hydrate, drop   *)
(*   src/session/postgresBackend.ts  rows chained by step                  *)
(*                                                                         *)
(* A process keeps the live checkpoint and what it believes is stored; the *)
(* rows are shared by the processes that use the database.  A process runs *)
(* one operation at a time (the queue runs one session at a time and every *)
(* call is awaited); its run goes on changing the live value meanwhile.    *)
(* A value is its messages and the rest of it, `meta'.                     *)
(***************************************************************************)
EXTENDS Integers, Sequences, FiniteSets

CONSTANTS
  Process,        \* daemons over one database
  Message, Meta,  \* what a checkpoint is made of
  SnapshotEvery,  \* ATLASLINK_CHECKPOINT_SNAPSHOT_EVERY
  Faults,         \* "save", "drop": the call fails; "crash": the process dies
  MaxLength,      \* bound: messages in a checkpoint
  MaxChanges,     \* bound: changes to a live checkpoint
  MaxRows         \* bound: steps

CheckpointAssumption ==
  /\ SnapshotEvery \in Nat \ {0} /\ MaxRows \in Nat /\ MaxLength \in Nat /\ MaxChanges \in Nat
  /\ Faults \subseteq {"save", "drop", "crash"}
  /\ "none" \notin Meta /\ "nobody" \notin Process

VARIABLES
  live,     \* #live: the checkpoint each process holds
  channel,  \* #state of each process: the value last planned, deltas since a full row
  op,       \* the operation each process awaits
  rows,     \* run_checkpoints: step -> row
  changes,  \* bound: how often live values have changed
  planned,  \* history: the values rows were planned for
  last,     \* history: the value of the row stored last
  owner,    \* history: who stored it
  failed,   \* history: a planned row was not stored
  tainted   \* history: a row was stored that does not continue its writer's rows

vars == <<live, channel, op, rows, changes, planned, last, owner, failed, tainted>>
history == <<planned, last, owner, failed, tainted>>

Null == [messages |-> <<>>, meta |-> "none"]
Value == [messages : UNION {[1..n -> Message] : n \in 0..MaxLength}, meta : Meta]

NoState == [value |-> Null, deltas |-> 0]
Idle == [pc |-> "idle"]
Nobody == "nobody"

Init ==
  /\ live = [p \in Process |-> Null]
  /\ channel = [p \in Process |-> NoState]
  /\ op = [p \in Process |-> Idle]
  /\ rows = <<>>
  /\ changes = 0
  /\ planned = {Null} /\ last = Null /\ owner = Nobody
  /\ failed = FALSE /\ tainted = FALSE

-----------------------------------------------------------------------------
(* The delta channel.                                                      *)

IsPrefixOf(s, t) == Len(s) <= Len(t) /\ SubSeq(t, 1, Len(s)) = s

Full(next) == [kind |-> "full", value |-> next]
Delta(next, base) ==
  [kind |-> "delta", added |-> SubSeq(next.messages, base + 1, Len(next.messages)),
   baseCount |-> base, meta |-> next.meta]

\* Mutant: the prefix is compared by its length alone.
PlanByLength(state, next) ==
  LET base == Len(state.value.messages) IN
  IF state.value = Null THEN Full(next)
  ELSE IF Len(next.messages) < base \/ state.deltas >= SnapshotEvery THEN Full(next)
  ELSE Delta(next, base)

\* planWrite, for a value that differs from the last one planned: an append to
\* it is a delta, unless there have been enough; anything else is a full row.
planWrite(state, next) ==
  LET base == state.value.messages IN
  IF state.value = Null THEN Full(next)
  ELSE IF ~IsPrefixOf(base, next.messages) \/ state.deltas >= SnapshotEvery THEN Full(next)
  ELSE Delta(next, Len(base))

\* Mutant: only a base that is too long ends the replay.
OverlaySplicing(value, row) ==
  IF value = Null THEN [value |-> Null, done |-> TRUE]
  ELSE IF Len(value.messages) > row.baseCount THEN [value |-> value, done |-> TRUE]
  ELSE [value |-> [messages |-> value.messages \o row.added, meta |-> row.meta], done |-> FALSE]

\* A delta over a value, or over none; one computed against another length of
\* messages ends the replay.
Overlay(value, row) ==
  IF value = Null THEN [value |-> Null, done |-> TRUE]
  ELSE IF Len(value.messages) # row.baseCount THEN [value |-> value, done |-> TRUE]
  ELSE [value |-> [messages |-> value.messages \o row.added, meta |-> row.meta], done |-> FALSE]

\* What a row makes of what the rows before it stand for.
Follow(before, stored, n) ==
  IF before.done \/ n \notin DOMAIN stored THEN before
  ELSE IF stored[n].kind = "full" THEN [value |-> stored[n].value, done |-> FALSE]
  ELSE Overlay(before.value, stored[n])

\* The replay of the rows, in the order of their steps.
Replay(stored) ==
  LET upTo[n \in 0..MaxRows] ==
        IF n = 0 THEN [value |-> Null, done |-> FALSE] ELSE Follow(upTo[n - 1], stored, n - 1)
  IN upTo[MaxRows]

reconstructRows(stored) == Replay(stored).value

-----------------------------------------------------------------------------
(* The run, which changes its checkpoint in place.                         *)

Change(p) ==
  /\ changes < MaxChanges
  /\ \E next \in Value :
       /\ next # live[p]
       /\ live[p] = Null => next.messages = <<>>
       /\ \/ IsPrefixOf(live[p].messages, next.messages)
          \/ Len(next.messages) <= Len(live[p].messages)
       /\ live' = [live EXCEPT ![p] = next]
  /\ changes' = changes + 1
  /\ UNCHANGED <<channel, op, rows, history>>

-----------------------------------------------------------------------------
(* persist: plan, then read the next step and insert, three times at most. *)

\* persist, up to its first await.  The channel's state advances here.
Persist(p) ==
  /\ op[p] = Idle /\ live[p] # Null
  /\ live[p] # channel[p].value
  /\ LET row == planWrite(channel[p], live[p]) IN
     /\ op' = [op EXCEPT ![p] = [pc |-> "step", row |-> row, of |-> live[p], attempt |-> 1]]
     /\ channel' = [channel EXCEPT ![p] =
          [value |-> live[p], deltas |-> IF row.kind = "full" THEN 0 ELSE @.deltas + 1]]
  /\ planned' = planned \cup {live[p]}
  /\ UNCHANGED <<live, rows, changes, last, owner, failed, tainted>>

NextStep == IF rows = <<>> THEN 0 ELSE 1 + CHOOSE n \in DOMAIN rows : \A m \in DOMAIN rows : m <= n

ReadStep(p) ==
  /\ op[p].pc = "step" /\ NextStep < MaxRows
  /\ op' = [op EXCEPT ![p] = [pc |-> "insert", row |-> @.row, of |-> @.of,
                              attempt |-> @.attempt, step |-> NextStep]]
  /\ UNCHANGED <<live, channel, rows, changes, history>>

\* A delta over a row of somebody else, or a row below one that is there (its
\* step was read before the rows were deleted).
Discontinuous(p) ==
  \/ op[p].row.kind = "delta" /\ owner # p
  \/ \E n \in DOMAIN rows : n > op[p].step

Insert(p) ==
  /\ op[p].pc = "insert" /\ op[p].step \notin DOMAIN rows
  /\ rows' = [n \in DOMAIN rows \cup {op[p].step} |->
                IF n = op[p].step THEN op[p].row ELSE rows[n]]
  /\ last' = op[p].of /\ owner' = p
  /\ tainted' = (tainted \/ Discontinuous(p))
  /\ op' = [op EXCEPT ![p] = Idle]
  /\ UNCHANGED <<live, channel, changes, planned, failed>>

\* The save is given up; persist rejects and the park goes on without a row.
GiveUp(p) ==
  /\ op' = [op EXCEPT ![p] = Idle]
  /\ failed' = TRUE
  /\ tainted' = (tainted \/ op[p].row.kind = "full")
  /\ UNCHANGED <<live, channel, rows, changes, planned, last, owner>>

Collide(p) ==
  /\ op[p].pc = "insert" /\ op[p].step \in DOMAIN rows
  /\ IF op[p].attempt = 3 THEN GiveUp(p)
     ELSE /\ op' = [op EXCEPT ![p] = [pc |-> "step", row |-> @.row, of |-> @.of,
                                      attempt |-> @.attempt + 1]]
          /\ UNCHANGED <<live, channel, rows, changes, history>>

SaveFails(p) == "save" \in Faults /\ op[p].pc \in {"step", "insert"} /\ GiveUp(p)

-----------------------------------------------------------------------------
(* hydrate, drop, and the end of a process.                                *)

\* A live checkpoint is used as it is; otherwise the rows are read.
Hydrate(p) ==
  /\ op[p] = Idle /\ live[p] = Null
  /\ reconstructRows(rows) # Null
  /\ live' = [live EXCEPT ![p] = reconstructRows(rows)]
  /\ UNCHANGED <<channel, op, rows, changes, history>>

Drop(p) ==
  /\ op[p] = Idle
  /\ live' = [live EXCEPT ![p] = Null]
  /\ channel' = [channel EXCEPT ![p] = NoState]
  /\ op' = [op EXCEPT ![p] = [pc |-> "delete"]]
  /\ UNCHANGED <<rows, changes, history>>

DeleteRows(p) ==
  /\ op[p].pc = "delete"
  /\ rows' = <<>>
  /\ last' = Null /\ owner' = Nobody
  /\ op' = [op EXCEPT ![p] = Idle]
  /\ UNCHANGED <<live, channel, changes, planned, failed, tainted>>

DropFails(p) ==
  /\ "drop" \in Faults /\ op[p].pc = "delete"
  /\ op' = [op EXCEPT ![p] = Idle]
  /\ UNCHANGED <<live, channel, rows, changes, history>>

Crash(p) ==
  /\ "crash" \in Faults
  /\ live' = [live EXCEPT ![p] = Null]
  /\ channel' = [channel EXCEPT ![p] = NoState]
  /\ op' = [op EXCEPT ![p] = Idle]
  /\ UNCHANGED <<rows, changes, history>>

Next ==
  \E p \in Process :
    \/ Change(p)
    \/ Persist(p) \/ ReadStep(p) \/ Insert(p) \/ Collide(p) \/ SaveFails(p)
    \/ Hydrate(p)
    \/ Drop(p) \/ DeleteRows(p) \/ DropFails(p)
    \/ Crash(p)

Spec == Init /\ [][Next]_vars

-----------------------------------------------------------------------------
(* What is checked.                                                        *)

CheckpointTypeOK ==
  /\ live \in [Process -> Value \cup {Null}]
  /\ \A p \in Process :
       /\ channel[p].value \in Value \cup {Null} /\ channel[p].deltas \in 0..SnapshotEvery
       /\ op[p].pc \in {"idle", "step", "insert", "delete"}
       /\ op[p].pc \in {"step", "insert"} => op[p].attempt \in 1..3
  /\ DOMAIN rows \subseteq 0..MaxRows - 1
  /\ last \in Value \cup {Null} /\ planned \subseteq Value \cup {Null}

\* Whatever fails, a resume starts from a value the run was once saved with, not
\* from messages of two histories spliced together - as long as every delta
\* follows a row of its own writer and no full row was lost.
NeverSplices == ~tainted => reconstructRows(rows) \in planned

\* The rows are a chain of one history, whatever collides or fails.
ChainIsWhole == CheckpointTypeOK /\ NeverSplices

\* When no save failed either, it starts from the value stored last: collisions,
\* crashes, failed drops and re-anchoring lose nothing.
ServesTheLastRow == ~tainted /\ ~failed => reconstructRows(rows) = last

\* The comment of reconstructRows ("everything from the last full snapshot onward
\* must chain"): violated, a broken delta ends the replay before a later full row.
FullRowHeals ==
  \A n \in DOMAIN rows : rows[n].kind = "full" /\ (n + 1 \notin DOMAIN rows) =>
    reconstructRows(rows) = rows[n].value

\* "... rather than a silently spliced history": violated after a lost full row.
NeverSplicesAtAll == reconstructRows(rows) \in planned
=============================================================================
