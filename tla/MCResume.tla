------------------------------- MODULE MCResume -------------------------------
(***************************************************************************)
(* Small instances of what is found on return: the room a member joins     *)
(* (Room), and the checkpoint a run resumes from (Checkpoints).  They share *)
(* no state: a behavior is one part's, and the other stays where it began. *)
(***************************************************************************)
EXTENDS Room, TLC

CONSTANTS Process, Message, Meta, SnapshotEvery, Faults, MaxLength, MaxChanges, MaxRows

VARIABLES
  part,   \* the one that moves: "room" or "rows"
  live, channel, op, rows, changes, planned, last, owner, failed, tainted

checkpoint == <<live, channel, op, rows, changes, planned, last, owner, failed, tainted>>

Rows == INSTANCE Checkpoints

ASSUME RowsAssumption == Rows!CheckpointAssumption

MCInit == part \in {"room", "rows"} /\ Init /\ Rows!Init

\* A stranger's refusal changes nothing for the others: it comes first.
StrangersFirst == \A s \in Stranger : sock'[s].phase = "refused"

MCNext ==
  \/ part = "room" /\ Next /\ StrangersFirst /\ UNCHANGED <<part, checkpoint>>
  \/ part = "rows" /\ Rows!Next /\ UNCHANGED <<part, vars>>

MCSpec == MCInit /\ [][MCNext]_<<part, vars, checkpoint>>

Symmetric == Permutations(Message) \cup Permutations(Process)

-----------------------------------------------------------------------------
\* Checkpoints: the rows are a chain of one history, whatever collides or fails.
ChainIsWhole == part = "rows" => Rows!ChainIsWhole

\* Checkpoints: a resume starts from the value stored last, if no save failed.
ServesTheLastRow == part = "rows" => Rows!ServesTheLastRow
=============================================================================
