--------------------------- MODULE EventLogBackend ---------------------------
(***************************************************************************)
(* The backend over the bridge's event log: src/session/eventLogBackend.ts. *)
(* Sessions are envelopes of the log, next to the queue's narration;       *)
(* a deletion is a tombstone envelope.  Projects and caches are in memory. *)
(*                                                                         *)
(* The log may drop a write without a word, loses its oldest lines to      *)
(* rotation (src/bridge/EventLogStore.ts, modelled in EventLog), and is    *)
(* all that survives a restart.                                            *)
(***************************************************************************)
EXTENDS Aggregate, FiniteSetsExt

CONSTANTS Tenant, Session, Project

VARIABLES
  log,        \* the envelopes that can be read, in the order of their ids
  snapshots,  \* _snapshots
  versions,   \* _versions (0: no entry)
  projects,   \* _projects
  deletedProjects,
  reply       \* the answer to the last call

memory == <<snapshots, versions, projects, deletedProjects>>
vars == <<log, memory, reply>>

Answer(call, value) == [c \in {call} |-> value]
Replies(call, value) == reply' = Answer(call, value)

Init ==
  /\ log = <<>>
  /\ snapshots = [s \in Session |-> NoAggregate] /\ versions = [s \in Session |-> 0]
  /\ projects = {} /\ deletedProjects = {}
  /\ reply = Answer(<<>>, None)

StoreEventTypes == {"created"} \cup StatusBearing \cup StatusPreserving

Envelope(s, e) == [session |-> s, event |-> e]

\* The write lands, or is swallowed.
Write(s, e) == log' = Append(log, Envelope(s, e))
Swallowed == UNCHANGED log

\* _deletedMarker: tombstones count for the tenant that wrote them.
Marker(t, s) ==
  LET tombstones == {k \in DOMAIN log : /\ log[k].session = s /\ log[k].event.type = "deleted"
                                        /\ log[k].event.tenant = t}
  IN IF tombstones = {} THEN 0 ELSE Max(tombstones)

\* The store events of a session in the log from a line on.
EventsFrom(first, s) ==
  LET mine == SelectSeq(SubSeq(log, first, Len(log)),
                        LAMBDA x : x.session = s /\ x.event.type \in StoreEventTypes)
  IN [k \in DOMAIN mine |-> mine[k].event]

\* Mutant: the tombstone hides nothing written before it.
AllSessionEvents(t, s) == EventsFrom(1, s)

\* _sessionEvents: the store events after the marker.
SessionEvents(t, s) == EventsFrom(Marker(t, s) + 1, s)

\* What an append that landed does to the caches.
Invalidate(s) ==
  /\ versions' = [versions EXCEPT ![s] = @ + 1]
  /\ snapshots' = [snapshots EXCEPT ![s] = NoAggregate]

AppendEvent(t, s, e) ==
  /\ \/ Write(s, [e EXCEPT !.tenant = t]) /\ Invalidate(s)
     \/ Swallowed /\ UNCHANGED <<versions, snapshots>>
  /\ Replies(<<"append", t, s, e>>, "ok")
  /\ UNCHANGED <<projects, deletedProjects>>

\* A session of another tenant, or of a deleted project, is not shown.
Shown(t, session) == session.tenant = t /\ session.project \notin deletedProjects

Get(t, s) == \E events \in {SessionEvents(t, s)}, cached \in {snapshots[s]} :
  LET hit == cached # NoAggregate /\ (cached.version = versions[s] \/ cached.version = Len(events))
  IN \E session \in {IF hit THEN cached ELSE rehydrate(s, events)} :
       LET shown == session # NoAggregate /\ Shown(t, session)
           dropped == ~hit /\ (session = NoAggregate
                               \/ (session.tenant = t /\ session.project \in deletedProjects))
       IN /\ Replies(<<"get", t, s>>, IF shown THEN session ELSE NoAggregate)
          /\ snapshots' = IF shown THEN [snapshots EXCEPT ![s] = session]
                          ELSE IF dropped THEN [snapshots EXCEPT ![s] = NoAggregate]
                          ELSE snapshots
          /\ versions' = IF shown /\ ~hit THEN [versions EXCEPT ![s] = Len(events)] ELSE versions
          /\ UNCHANGED <<log, projects, deletedProjects>>

List(t, filter) ==
  LET sessions == {rehydrate(s, SessionEvents(t, s)) : s \in Session} \ {NoAggregate}
  IN /\ Replies(<<"list", t, filter>>, filterSessions({a \in sessions : Shown(t, a)}, filter))
     /\ UNCHANGED <<log, memory>>

\* The version is counted in the log, not taken from the caches.
ReadModifyWrite(t, s, expected, e) == \E events \in {SessionEvents(t, s)} :
  /\ IF (events # <<>> /\ Head(events).tenant # t) \/ Len(events) # expected
     THEN Replies(<<"write", t, s, expected, e>>, "conflict") /\ UNCHANGED <<log, versions, snapshots>>
     ELSE /\ Replies(<<"write", t, s, expected, e>>, "ok")
          /\ \/ Write(s, [e EXCEPT !.tenant = t]) /\ Invalidate(s)
             \/ Swallowed /\ UNCHANGED <<versions, snapshots>>
  /\ UNCHANGED <<projects, deletedProjects>>

DeleteSession(t, s) ==
  /\ \/ /\ Write(s, Event("deleted", 0, t, None))
        /\ snapshots' = [snapshots EXCEPT ![s] = NoAggregate]
        /\ versions' = [versions EXCEPT ![s] = 0]
     \/ Swallowed /\ UNCHANGED <<versions, snapshots>>
  /\ Replies(<<"delete", t, s>>, "ok")
  /\ UNCHANGED <<projects, deletedProjects>>

CreateProject(t, p) ==
  /\ projects' = projects \cup {[id |-> p, tenant |-> t]}
  /\ Replies(<<"project", t, p>>, p)
  /\ UNCHANGED <<log, snapshots, versions, deletedProjects>>

ListProjects(t) ==
  /\ Replies(<<"projects", t>>, {x.id : x \in {y \in projects : y.tenant = t}})
  /\ UNCHANGED <<log, memory>>

\* The project's sessions stay in the log; they are not shown any more.
DeleteProject(t, p) ==
  LET project == [id |-> p, tenant |-> t]
      cachedUnder == {s \in Session : /\ project \in projects /\ snapshots[s] # NoAggregate
                                      /\ snapshots[s].project = p /\ snapshots[s].tenant = t}
  IN /\ projects' = projects \ {project}
     /\ deletedProjects' = IF project \in projects THEN deletedProjects \cup {p} ELSE deletedProjects
     /\ snapshots' = [s \in Session |-> IF s \in cachedUnder THEN NoAggregate ELSE snapshots[s]]
     /\ versions' = [s \in Session |-> IF s \in cachedUnder THEN 0 ELSE versions[s]]
     /\ Replies(<<"deleteProject", t, p>>, project \in projects)
     /\ UNCHANGED log

-----------------------------------------------------------------------------
(* What happens to the log behind the backend's back.                      *)

\* The queue's narration goes to the same log.
Narrate(s) ==
  /\ Write(s, Event("queued", 0, None, None))
  /\ UNCHANGED <<memory, reply>>

\* The oldest lines leave, those of sessions in use with them; the caches stay.
Rotate(n) ==
  /\ n \in DOMAIN log
  /\ log' = SubSeq(log, n + 1, Len(log))
  /\ UNCHANGED <<memory, reply>>

Restart ==
  /\ snapshots' = [s \in Session |-> NoAggregate] /\ versions' = [s \in Session |-> 0]
  /\ projects' = {} /\ deletedProjects' = {}
  /\ UNCHANGED <<log, reply>>

-----------------------------------------------------------------------------
\* "the cache is keyed per-session and invalidated on each append": a cached
\* version is the one the log would give, and a write can be made with.  Rotation
\* moves the log's under it.
CachedVersionsHold ==
  \A s \in Session : snapshots[s] # NoAggregate =>
    snapshots[s].version = Len(SessionEvents(snapshots[s].tenant, s))
=============================================================================
