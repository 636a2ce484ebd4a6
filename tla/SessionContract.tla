--------------------------- MODULE SessionContract ---------------------------
(***************************************************************************)
(* What a session backend promises its callers: the interface of           *)
(* src/session/sessionBackend.ts with the behaviour that                   *)
(* src/session/backendContract.ts asks of every implementation.  The       *)
(* backends of src/session are shown to implement this specification.      *)
(*                                                                         *)
(* A session is a stream of events that belongs to the tenant of its first *)
(* one.  Each call answers in one step, in `reply'.                         *)
(***************************************************************************)
EXTENDS Aggregate

CONSTANTS
  Tenant, Session, Project,
  Filters,  \* the filters a list is asked with
  Events    \* what may be written

VARIABLES
  streams,   \* the committed events of each session
  projects,  \* the projects there are, with the tenant of each
  ranks,     \* lists across projects are answered: not by the SQL backend on PostgreSQL
  reply      \* the answer to the last call

contractVars == <<streams, projects, ranks, reply>>

Answer(call, value) == [c \in {call} |-> value]

\* The call a step answers, and its answer.
call == CHOOSE c \in DOMAIN reply' : TRUE
Answered(value) == reply' = Answer(call, value)

Calls ==
  {"append"} \X Tenant \X Session \X Events
  \cup {"write"} \X Tenant \X Session \X Nat \X Events
  \cup ({"get", "delete"} \X Tenant \X Session)
  \cup ({"list"} \X Tenant \X Filters)
  \cup ({"project", "deleteProject"} \X Tenant \X Project)
  \cup {"projects"} \X Tenant

Empty == [sessions |-> <<>>, total |-> 0]

Owns(t, s) == streams[s] # <<>> /\ Head(streams[s]).tenant = t
View(t, s) == IF Owns(t, s) THEN rehydrate(s, streams[s]) ELSE NoAggregate

Init ==
  /\ streams = [s \in Session |-> <<>>]
  /\ projects = {} /\ ranks \in BOOLEAN
  /\ reply = Answer(<<>>, None)

Commit(s, e) == streams' = [streams EXCEPT ![s] = Append(@, e)]

AppendEvent(t, s, e) ==
  /\ IF streams[s] # <<>> /\ ~Owns(t, s)
     THEN Answered("conflict") /\ UNCHANGED streams
     ELSE Answered("ok") /\ Commit(s, [e EXCEPT !.tenant = t])
  /\ UNCHANGED projects

Get(t, s) ==
  /\ Answered(View(t, s))
  /\ UNCHANGED <<streams, projects>>

List(t, filter) ==
  /\ Answered(IF filter.project # None \/ ranks
              THEN filterSessions({View(t, s) : s \in {x \in Session : Owns(t, x)}}, filter)
              ELSE Empty)
  /\ UNCHANGED <<streams, projects>>

\* Only the holder of the current version commits.
ReadModifyWrite(t, s, expected, e) ==
  /\ IF Owns(t, s) /\ Len(streams[s]) = expected
     THEN Answered("ok") /\ Commit(s, [e EXCEPT !.tenant = t])
     ELSE Answered("conflict") /\ UNCHANGED streams
  /\ UNCHANGED projects

\* Another tenant's session is left alone.
DeleteSession(t, s) ==
  /\ Answered("ok")
  /\ streams' = IF Owns(t, s) THEN [streams EXCEPT ![s] = <<>>] ELSE streams
  /\ UNCHANGED projects

CreateProject(t, p) ==
  /\ Answered(p)
  /\ projects' = projects \cup {[id |-> p, tenant |-> t]}
  /\ UNCHANGED streams

ListProjects(t) ==
  /\ Answered({x.id : x \in {y \in projects : y.tenant = t}})
  /\ UNCHANGED <<streams, projects>>

\* A project goes with its sessions.
DeleteProject(t, p) ==
  LET there == [id |-> p, tenant |-> t] \in projects IN
  /\ Answered(there)
  /\ projects' = projects \ {[id |-> p, tenant |-> t]}
  /\ streams' = [s \in Session |->
       IF there /\ Owns(t, s) /\ View(t, s).project = p THEN <<>> ELSE streams[s]]

Serve(c) ==
  CASE c[1] = "append" -> AppendEvent(c[2], c[3], c[4])
    [] c[1] = "get" -> Get(c[2], c[3])
    [] c[1] = "list" -> List(c[2], c[3])
    [] c[1] = "write" -> ReadModifyWrite(c[2], c[3], c[4], c[5])
    [] c[1] = "delete" -> DeleteSession(c[2], c[3])
    [] c[1] = "project" -> CreateProject(c[2], c[3])
    [] c[1] = "projects" -> ListProjects(c[2])
    [] c[1] = "deleteProject" -> DeleteProject(c[2], c[3])

Next == call \in Calls /\ Serve(call) /\ UNCHANGED ranks

Spec == Init /\ [][Next]_contractVars
=============================================================================
