------------------------------ MODULE Aggregate ------------------------------
(***************************************************************************)
(* A session as it is rebuilt from its events: rehydrate and filterSessions *)
(* of src/session/sessionStore.ts, which every backend uses, over the      *)
(* vocabulary of src/session/types.ts.                                     *)
(*                                                                         *)
(* An event is known by its type, its time, the tenant and the project it  *)
(* carries; of the thread only who spoke and when is kept.                 *)
(***************************************************************************)
EXTENDS Naturals, Sequences, FiniteSets, TLC

CONSTANTS
  InteractionCap,  \* INTERACTION_CAP: turns kept of the thread
  MemberCap        \* memberEvents kept

ASSUME CapAssumption == InteractionCap \in Nat \ {0} /\ MemberCap \in Nat \ {0}

None == "none"

Event(type, at, tenant, project) ==
  [type |-> type, at |-> at, tenant |-> tenant, project |-> project]

\* Chat, steer, replies and mirrored member events leave the lifecycle where it is.
StatusPreserving == {"message", "steer", "user_reply", "member.event"}
StatusBearing == {"running", "succeeded", "failed", "cancelled", "awaiting_input"}

NoAggregate == [status |-> "absent", version |-> 0]

KeepLast(seq, n) == SubSeq(seq, IF Len(seq) > n THEN Len(seq) - n + 1 ELSE 1, Len(seq))
Only(events, types) == SelectSeq(events, LAMBDA e : e.type \in types)

\* The events of some types, and the last of them.
Places(events, types) == {k \in DOMAIN events : events[k].type \in types}
LastOf(events, types, default) ==
  LET places == Places(events, types)
  IN IF places = {} THEN default ELSE events[CHOOSE k \in places : \A j \in places : j <= k]

\* Who an event speaks for in the thread.
Speaker ==
  [type \in {"created", "user_reply", "message", "steer"} |-> "user"]
  @@ [type \in {"succeeded", "failed"} |-> "member"] @@ ("awaiting_input" :> "atlas")

\* The projection keeps the tail of a long thread, under a marker.
TrimThread(thread) ==
  LET cut == Len(thread) - InteractionCap
  IN IF cut <= 0 THEN thread
     ELSE <<[role |-> "trimmed", at |-> thread[cut].at]>> \o KeepLast(thread, InteractionCap)

Thread(events) ==
  LET spoken == Only(events, DOMAIN Speaker)
  IN TrimThread([k \in DOMAIN spoken |-> [role |-> Speaker[spoken[k].type], at |-> spoken[k].at]])

\* The loop over the events: an assignment is that of the last event to make it.
Build(id, events) ==
  LET created == LastOf(events, {"created"}, Head(events))
      status == LastOf(events, StatusBearing, created)
  IN [sessionId |-> id,
      status |-> IF status.type \in StatusBearing THEN status.type ELSE "queued",
      version |-> Len(events),
      tenant |-> created.tenant,
      project |-> IF created.project = None THEN Head(events).project ELSE created.project,
      createdAt |-> IF created.type = "created" THEN created.at ELSE 0,
      finishedAt |-> LastOf(events, {"succeeded", "failed", "cancelled"}, [at |-> 0]).at,
      parked |-> status.type = "awaiting_input",
      replies |-> Cardinality(Places(events, {"user_reply"})),
      thread |-> Thread(events),
      memberEvents |-> Len(KeepLast(Only(events, {"member.event"}), MemberCap))]

rehydrate(id, events) ==
  IF events = <<>> THEN NoAggregate
  ELSE CHOOSE a \in {Build(id, read) : read \in {events}} : TRUE

-----------------------------------------------------------------------------
(* The list filter.                                                        *)

Matches(session, filter) ==
  /\ filter.project \in {None, session.project}
  /\ filter.status \in {None, session.status}
  /\ session.createdAt >= filter.since

\* No two sessions are created at the same time.
NewestFirst(sessions) ==
  [k \in 1..Cardinality(sessions) |->
    CHOOSE s \in sessions : Cardinality({x \in sessions : x.createdAt > s.createdAt}) = k - 1]

Page(seq, filter) ==
  SubSeq(seq, filter.offset + 1,
         IF filter.offset + filter.limit < Len(seq) THEN filter.offset + filter.limit ELSE Len(seq))

filterSessions(sessions, filter) ==
  LET matched == NewestFirst({s \in sessions : Matches(s, filter)})
  IN [sessions |-> Page(matched, filter), total |-> Len(matched)]
=============================================================================
