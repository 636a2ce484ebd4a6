---------------------------- MODULE LossyContract ----------------------------
(***************************************************************************)
(* What is left of SessionContract over the bridge's event log             *)
(* (src/session/eventLogBackend.ts): a write that resolved may be lost,     *)
(* the oldest events leave with the log's lines, a deleted project's        *)
(* sessions are hidden and not deleted, and what is only in memory goes     *)
(* with the process.  A read may answer what the last one did for as long   *)
(* as nothing was written to the session.                                  *)
(***************************************************************************)
EXTENDS SessionContract

VARIABLES
  hidden,  \* the projects deleted since the process started
  last     \* the aggregate last read of each session, nothing written since

lossyVars == <<contractVars, hidden, last>>

LossyInit == Init /\ hidden = {} /\ last = [s \in Session |-> NoAggregate]

Shown(t, session) ==
  session # NoAggregate /\ session.tenant = t /\ session.project \notin hidden

\* The session has a new stream and must be read again, or nothing happened.
StoreOrLose(s, stream) ==
  \/ /\ streams' = [streams EXCEPT ![s] = stream]
     /\ last' = [last EXCEPT ![s] = NoAggregate]
  \/ UNCHANGED <<streams, last>>

Add(t, s, e) ==
  /\ streams[s] # <<>> => Owns(t, s)
  /\ Answered("ok")
  /\ StoreOrLose(s, Append(streams[s], [e EXCEPT !.tenant = t]))
  /\ UNCHANGED <<projects, hidden>>

\* A session that is hidden is written like any other.
CompareAndSet(t, s, expected, e) ==
  /\ IF Owns(t, s) /\ Len(streams[s]) = expected
     THEN Answered("ok") /\ StoreOrLose(s, Append(streams[s], [e EXCEPT !.tenant = t]))
     ELSE Answered("conflict") /\ UNCHANGED <<streams, last>>
  /\ UNCHANGED <<projects, hidden>>

Remove(t, s) ==
  /\ Answered("ok")
  /\ StoreOrLose(s, IF Owns(t, s) THEN <<>> ELSE streams[s])
  /\ UNCHANGED <<projects, hidden>>

Read(t, s) ==
  IF Shown(t, View(t, s))
  THEN Answered(View(t, s)) /\ last' = [last EXCEPT ![s] = View(t, s)]
  ELSE Answered(NoAggregate) /\ last' \in {last, [last EXCEPT ![s] = NoAggregate]}

ReadAgain(t, s) ==
  /\ last[s] # NoAggregate
  /\ Answered(IF Shown(t, last[s]) THEN last[s] ELSE NoAggregate)
  /\ UNCHANGED last

ReadOrRecall(t, s) ==
  /\ Read(t, s) \/ ReadAgain(t, s)
  /\ UNCHANGED <<streams, projects, hidden>>

ListShown(t, filter) ==
  /\ Answered(filterSessions({View(t, s) : s \in {x \in Session : Shown(t, View(t, x))}}, filter))
  /\ UNCHANGED <<streams, projects, hidden, last>>

HideProject(t, p) ==
  LET there == [id |-> p, tenant |-> t] \in projects IN
  /\ Answered(there)
  /\ projects' = projects \ {[id |-> p, tenant |-> t]}
  /\ hidden' = IF there THEN hidden \cup {p} ELSE hidden
  /\ last' = [s \in Session |->
       IF there /\ Shown(t, last[s]) /\ last[s].project = p THEN NoAggregate ELSE last[s]]
  /\ UNCHANGED streams

\* Of each session's events the oldest are gone; how many is the log's affair.
LoseOldest ==
  /\ \A s \in Session : \E n \in 0..Len(streams[s]) :
       streams'[s] = SubSeq(streams[s], n + 1, Len(streams[s]))
  /\ UNCHANGED <<projects, reply, hidden, last>>

\* The log is all that survives.
StartOver ==
  /\ projects' = {} /\ hidden' = {}
  /\ last' = [s \in Session |-> NoAggregate]
  /\ UNCHANGED <<streams, reply>>

ServeOrLose(c) ==
  CASE c[1] = "append" -> Add(c[2], c[3], c[4])
    [] c[1] = "get" -> ReadOrRecall(c[2], c[3])
    [] c[1] = "list" -> ListShown(c[2], c[3])
    [] c[1] = "write" -> CompareAndSet(c[2], c[3], c[4], c[5])
    [] c[1] = "delete" -> Remove(c[2], c[3])
    [] c[1] = "deleteProject" -> HideProject(c[2], c[3])
    [] OTHER -> Serve(c) /\ UNCHANGED <<hidden, last>>

LossyNext ==
  /\ UNCHANGED ranks
  /\ (call \in Calls /\ ServeOrLose(call)) \/ LoseOldest \/ StartOver

LossySpec == LossyInit /\ [][LossyNext]_lossyVars
=============================================================================
