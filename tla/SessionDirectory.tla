--------------------------- MODULE SessionDirectory ---------------------------
(***************************************************************************)
(* Lists, projects and deletions of the SQL backend,                       *)
(* src/session/postgresBackend.ts: the sessions table is a projection of   *)
(* the events, kept up with every commit, that project listings read; the  *)
(* other listings rank the event rows themselves.                          *)
(*                                                                         *)
(* Each call is one transaction or one query here.  How they interleave,   *)
(* and the snapshot cache, are the subject of PostgresBackend.             *)
(***************************************************************************)
EXTENDS Aggregate

CONSTANTS
  Tenant, Session, Project

VARIABLES
  rows,      \* session_events of each tenant and session, by version
  sessions,  \* the directory: a record per session with a project
  projects,  \* the projects table
  dialect,   \* of the database: "sqlite" or "postgres"
  reply      \* the answer to the last call

vars == <<rows, sessions, projects, dialect, reply>>

Answer(call, value) == [c \in {call} |-> value]
Replies(call, value) == reply' = Answer(call, value)
NoRecord == [project |-> None, status |-> "absent", createdAt |-> 0]

Init ==
  /\ rows = [t \in Tenant |-> [s \in Session |-> <<>>]]
  /\ sessions = [t \in Tenant |-> [s \in Session |-> NoRecord]]
  /\ projects = {} /\ dialect \in {"sqlite", "postgres"} /\ reply = Answer(<<>>, None)

\* Mutant: a parked session keeps its status.
ProjectMissingPark(record, e) ==
  IF e.type = "created" /\ e.project # None
  THEN [project |-> e.project, status |-> "queued", createdAt |-> e.at]
  ELSE IF record # NoRecord /\ e.type \in StatusBearing \ {"awaiting_input"}
  THEN [record EXCEPT !.status = e.type]
  ELSE record

\* projectDirectory: a session without a project has no record to update.
ProjectEvent(record, e) ==
  IF e.type = "created" /\ e.project # None
  THEN IF record = NoRecord
       THEN [project |-> e.project, status |-> "queued", createdAt |-> e.at]
       ELSE [record EXCEPT !.project = e.project]
  ELSE IF record # NoRecord /\ e.type \in StatusBearing
  THEN [record EXCEPT !.status = e.type]
  ELSE record

Insert(t, s, e) ==
  /\ rows' = [rows EXCEPT ![t][s] = Append(@, [e EXCEPT !.tenant = t])]
  /\ sessions' = [sessions EXCEPT ![t][s] = ProjectEvent(@, e)]

AppendEvent(t, s, e) ==
  /\ Insert(t, s, e)
  /\ Replies(<<"append", t, s, e>>, "ok")
  /\ UNCHANGED <<projects, dialect>>

ReadModifyWrite(t, s, expected, e) ==
  /\ IF Len(rows[t][s]) = expected
     THEN Insert(t, s, e) /\ Replies(<<"write", t, s, expected, e>>, "ok")
     ELSE Replies(<<"write", t, s, expected, e>>, "conflict") /\ UNCHANGED <<rows, sessions>>
  /\ UNCHANGED <<projects, dialect>>

Get(t, s) ==
  /\ Replies(<<"get", t, s>>, rehydrate(s, rows[t][s]))
  /\ UNCHANGED <<rows, sessions, projects, dialect>>

\* fetchAndRehydrate: the page's sessions, sorted again.
Fetched(t, ids) == NewestFirst({rehydrate(s, rows[t][s]) : s \in ids})

\* Both listings page over ids in the database, newest first.
Listed(t, created, filter) ==
  LET newest == NewestFirst({[id |-> s, createdAt |-> created[s]] : s \in DOMAIN created})
      page == Page(newest, filter)
  IN [sessions |-> Fetched(t, {page[k].id : k \in DOMAIN page}), total |-> Len(newest)]

ListByProject(t, filter) ==
  LET matched == {s \in Session : /\ sessions[t][s].project = filter.project
                                  /\ filter.status \in {None, sessions[t][s].status}
                                  /\ sessions[t][s].createdAt >= filter.since}
  IN Listed(t, [s \in matched |-> sessions[t][s].createdAt], filter)

\* event->>'$.type' names a key no event has, and NULL is in no list.
jsonExtract(value) == IF dialect = "postgres" THEN "NULL" ELSE value
RanksInto(e) == jsonExtract(e.type) \notin StatusPreserving \cup {"NULL"}

\* rankedSessionCte: the latest event that bears a status.
Ranked(t) ==
  [s \in {x \in Session : \E k \in DOMAIN rows[t][x] : RanksInto(rows[t][x][k])} |->
     rows[t][s][CHOOSE k \in DOMAIN rows[t][s] :
       /\ RanksInto(rows[t][s][k])
       /\ \A j \in DOMAIN rows[t][s] : RanksInto(rows[t][s][j]) => j <= k]]

StatusOf(type) == IF type = "created" THEN "queued" ELSE type

ListAll(t, filter) ==
  LET ranked == Ranked(t)
      matched == {s \in DOMAIN ranked : /\ filter.status \in {None, StatusOf(ranked[s].type)}
                                        /\ Head(rows[t][s]).at >= filter.since}
  IN Listed(t, [s \in matched |-> Head(rows[t][s]).at], filter)

List(t, filter) ==
  /\ Replies(<<"list", t, filter>>,
             IF filter.project = None THEN ListAll(t, filter) ELSE ListByProject(t, filter))
  /\ UNCHANGED <<rows, sessions, projects, dialect>>

Delete(t, gone) ==
  /\ rows' = [rows EXCEPT ![t] = [s \in Session |-> IF s \in gone THEN <<>> ELSE @[s]]]
  /\ sessions' = [sessions EXCEPT ![t] = [s \in Session |-> IF s \in gone THEN NoRecord ELSE @[s]]]

DeleteSession(t, s) ==
  /\ Delete(t, {s})
  /\ Replies(<<"delete", t, s>>, "ok")
  /\ UNCHANGED <<projects, dialect>>

CreateProject(t, p) ==
  /\ projects' = projects \cup {[id |-> p, tenant |-> t]}
  /\ Replies(<<"project", t, p>>, p)
  /\ UNCHANGED <<rows, sessions, dialect>>

ListProjects(t) ==
  /\ Replies(<<"projects", t>>, {x.id : x \in {y \in projects : y.tenant = t}})
  /\ UNCHANGED <<rows, sessions, projects, dialect>>

\* The sessions of a project are those the directory has under it.
DeleteProject(t, p) ==
  LET project == [id |-> p, tenant |-> t] IN
  /\ projects' = projects \ {project}
  /\ Delete(t, {s \in Session : project \in projects /\ sessions[t][s].project = p})
  /\ Replies(<<"deleteProject", t, p>>, project \in projects)
  /\ UNCHANGED dialect
=============================================================================
