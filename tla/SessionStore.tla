----------------------------- MODULE SessionStore -----------------------------
(***************************************************************************)
(* The in-memory backend: class SessionStore of src/session/sessionStore.ts. *)
(* Its maps are shared by the tenants' views of it, `t' below being the     *)
(* tenant of the view that is called.                                      *)
(***************************************************************************)
EXTENDS Aggregate

CONSTANTS Tenant, Session, Project

VARIABLES
  events,     \* _events
  versions,   \* _versions (0: no entry)
  snapshots,  \* _snapshots
  projects,   \* _projects
  reply       \* the answer to the last call

vars == <<events, versions, snapshots, projects, reply>>

Answer(call, value) == [c \in {call} |-> value]
Replies(call, value) == reply' = Answer(call, value)

Init ==
  /\ events = [s \in Session |-> <<>>] /\ versions = [s \in Session |-> 0]
  /\ snapshots = [s \in Session |-> NoAggregate]
  /\ projects = {} /\ reply = Answer(<<>>, None)

\* Another tenant's session is refused.
Foreign(t, s) == events[s] # <<>> /\ Head(events[s]).tenant # t

\* Mutant: the snapshot outlives the append.
PushKeepingSnapshot(t, s, e) ==
  /\ events' = [events EXCEPT ![s] = Append(@, [e EXCEPT !.tenant = t])]
  /\ versions' = [versions EXCEPT ![s] = @]
  /\ UNCHANGED snapshots

Push(t, s, e) ==
  /\ events' = [events EXCEPT ![s] = Append(@, [e EXCEPT !.tenant = t])]
  /\ versions' = [versions EXCEPT ![s] = Len(events'[s])]
  /\ snapshots' = [snapshots EXCEPT ![s] = NoAggregate]

AppendEvent(t, s, e) ==
  /\ IF Foreign(t, s) THEN Replies(<<"append", t, s, e>>, "conflict") /\ UNCHANGED <<events, versions, snapshots>>
     ELSE Replies(<<"append", t, s, e>>, "ok") /\ Push(t, s, e)
  /\ UNCHANGED projects

\* The cached aggregate is served while its version is current.
Get(t, s) ==
  LET cached == snapshots[s]
      fresh == events[s] # <<>> /\ cached # NoAggregate /\ cached.version = versions[s]
      session == IF fresh THEN cached ELSE rehydrate(s, events[s])
      mine == events[s] # <<>> /\ session.tenant = t
  IN /\ Replies(<<"get", t, s>>, IF mine THEN session ELSE NoAggregate)
     /\ snapshots' = IF mine THEN [snapshots EXCEPT ![s] = session] ELSE snapshots
     /\ UNCHANGED <<events, versions, projects>>

List(t, filter) ==
  /\ Replies(<<"list", t, filter>>, filterSessions(
       {a \in {rehydrate(s, events[s]) : s \in {x \in Session : events[x] # <<>>}} : a.tenant = t},
       filter))
  /\ UNCHANGED <<events, versions, snapshots, projects>>

ReadModifyWrite(t, s, expected, e) ==
  /\ IF Foreign(t, s) \/ versions[s] # expected
     THEN Replies(<<"write", t, s, expected, e>>, "conflict") /\ UNCHANGED <<events, versions, snapshots>>
     ELSE Replies(<<"write", t, s, expected, e>>, "ok") /\ Push(t, s, e)
  /\ UNCHANGED projects

Forget(gone) ==
  /\ events' = [s \in Session |-> IF s \in gone THEN <<>> ELSE events[s]]
  /\ versions' = [s \in Session |-> IF s \in gone THEN 0 ELSE versions[s]]
  /\ snapshots' = [s \in Session |-> IF s \in gone THEN NoAggregate ELSE snapshots[s]]

DeleteSession(t, s) ==
  /\ Forget(IF Foreign(t, s) THEN {} ELSE {s})
  /\ Replies(<<"delete", t, s>>, "ok")
  /\ UNCHANGED projects

CreateProject(t, p) ==
  /\ projects' = projects \cup {[id |-> p, tenant |-> t]}
  /\ Replies(<<"project", t, p>>, p)
  /\ UNCHANGED <<events, versions, snapshots>>

ListProjects(t) ==
  /\ Replies(<<"projects", t>>, {x.id : x \in {y \in projects : y.tenant = t}})
  /\ UNCHANGED <<events, versions, snapshots, projects>>

DeleteProject(t, p) ==
  LET project == [id |-> p, tenant |-> t] IN
  /\ projects' = projects \ {project}
  /\ Forget({s \in Session : /\ project \in projects /\ events[s] # <<>>
                             /\ Head(events[s]).project = p /\ Head(events[s]).tenant = t})
  /\ Replies(<<"deleteProject", t, p>>, project \in projects)
=============================================================================
