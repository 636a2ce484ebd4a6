------------------------------ MODULE MCBackends ------------------------------
(***************************************************************************)
(* The three backends of src/session driven as backendContract.ts drives   *)
(* them, each against SessionContract: a behavior is one backend's.        *)
(*                                                                         *)
(* The calls are those the program and the contract's tests make: a        *)
(* session is created once, under a project its tenant has, and again only *)
(* after it was deleted by itself, its tombstone written; everything later *)
(* is a compare-and-set with a version somebody may have read.             *)
(*                                                                         *)
(* A behavior of "schema" is a database that daemons boot on (Migrations);  *)
(* one of "ledger" is the calls Ledger describes.                           *)
(***************************************************************************)
EXTENDS Aggregate

CONSTANTS
  Tenant, Session, Project, Types, Filters,
  MaxEvents,   \* bound: writes asked for
  MaxLogged,   \* the same, over the log
  MaxMishaps   \* bound: lost writes, narration, rotations and restarts
CONSTANTS Daemon, Channel, Envs, MaxBoots, MaxWrites
CONSTANTS Row, Day, Agent, Model, Tokens, MaxCalls

VARIABLES
  backend,   \* the one under test
  now,       \* writes asked for so far: the events' times
  owner,     \* who created each session
  live,      \* the sessions created, and not deleted since
  founder,   \* who created each project
  retired,   \* the projects deleted
  mishaps,   \* how many there were
  events, mVersions, mSnapshots, mProjects, mReply,
  log, snapshots, versions, projects, deletedProjects, lReply,
  rows, directory, sProjects, sReply,
  seen,      \* what the log and the tables hold of each session
  dialect, database, boot, boots, writes,
  checkpoints, costUsage, run_checkpoints, daily_cost_buckets, driver, calls

callers == <<now, owner, live, founder, retired>>
memory == <<events, mVersions, mSnapshots, mProjects, mReply>>
logged == <<log, snapshots, versions, projects, deletedProjects, lReply>>
sql == <<rows, directory, sProjects, sReply>>
schema == <<dialect, database, boot, boots, writes>>
ledger == <<checkpoints, costUsage, run_checkpoints, daily_cost_buckets, driver, calls>>
vars == <<backend, callers, mishaps, memory, logged, sql, seen, schema, ledger>>

\* Answers are no part of what the next call sees.
MCView == <<backend, callers, mishaps, events, mVersions, mSnapshots, mProjects, log, snapshots,
            versions, projects, deletedProjects, rows, directory, sProjects, seen, schema,
            ledger>>

Memory == INSTANCE SessionStore WITH
  versions <- mVersions, snapshots <- mSnapshots, projects <- mProjects, reply <- mReply
Logged == INSTANCE EventLogBackend WITH reply <- lReply
Sql == INSTANCE SessionDirectory WITH
  sessions <- directory, projects <- sProjects, reply <- sReply
Schema == INSTANCE Migrations
Books == INSTANCE Ledger

ASSUME InputsOfBooks == Books!InputsKnown

\* What is asked for: no tenant and no project has the name that stands for none of them.
ASSUME CallsKnown ==
  /\ MaxEvents \in Nat /\ MaxLogged \in Nat /\ IsFiniteSet(Session)
  /\ None \notin Tenant \cup Project
  /\ Types \subseteq StatusBearing \cup StatusPreserving
  /\ \A filter \in Filters :
       filter.project \in Project \cup {None} /\ filter.offset \in Nat /\ filter.limit \in Nat

\* What the log, after the tombstone, and the tables hold for the session's creator.
Streams ==
  [s \in Session |->
    CASE owner[s] = None -> <<>>
      [] backend = "log" -> Logged!EventsFrom(Logged!Marker(owner[s], s) + 1, s)
      [] OTHER -> IF backend = "sql" THEN rows[owner[s]][s] ELSE <<>>]

Init ==
  /\ backend \in {"memory", "log", "sql", "schema", "ledger"}
  /\ now = 0 /\ mishaps = 0 /\ retired = {}
  /\ owner = [s \in Session |-> None] /\ live = [s \in Session |-> FALSE]
  /\ founder = [p \in Project |-> None]
  /\ Memory!Init /\ Logged!Init /\ Sql!Init /\ Schema!Init /\ Books!Init
  /\ backend # "schema" => database = Schema!Left(0)
  /\ backend \notin {"schema", "sql"} => dialect = "sqlite"
  /\ backend # "ledger" => driver = "sqlite"
  /\ seen = [s \in Session |-> <<>>]

Mishap == mishaps < MaxMishaps /\ mishaps' = mishaps + 1
Tick == now < (IF backend = "log" THEN MaxLogged ELSE MaxEvents) /\ now' = now + 1

\* One backend takes the call.
Of(name, step, others) == backend = name /\ step /\ UNCHANGED others
OnMemory(step) == Of("memory", step, <<logged, sql, mishaps>>)
OnSql(step) == Of("sql", step, <<memory, logged, mishaps>>)
OnLog(step) == Of("log", step, <<memory, sql>>)
ReadLog(step) == OnLog(step) /\ UNCHANGED mishaps
Refused == \E c \in DOMAIN lReply' : lReply'[c] = "conflict"
WriteLog(step) ==
  /\ OnLog(step)
  /\ IF log' = log /\ ~Refused THEN Mishap ELSE UNCHANGED mishaps

Create(t, s, p) ==
  LET e == Event("created", now + 1, t, p) IN
  /\ Tick
  /\ live[s] = FALSE /\ owner[s] \in {None, t}
  /\ p # None => founder[p] = t /\ p \notin retired
  /\ owner' = [owner EXCEPT ![s] = t] /\ live' = [live EXCEPT ![s] = TRUE]
  /\ UNCHANGED <<founder, retired>>
  /\ \/ OnMemory(Memory!AppendEvent(t, s, e))
     \/ WriteLog(Logged!AppendEvent(t, s, e))
     \/ OnSql(Sql!AppendEvent(t, s, e))

Update(t, s, expected, type) ==
  LET e == Event(type, now + 1, t, None) IN
  /\ Tick /\ UNCHANGED <<owner, live, founder, retired>>
  /\ \/ OnMemory(Memory!ReadModifyWrite(t, s, expected, e))
     \/ WriteLog(Logged!ReadModifyWrite(t, s, expected, e))
     \/ OnSql(Sql!ReadModifyWrite(t, s, expected, e))

Get(t, s) ==
  /\ UNCHANGED callers
  /\ OnMemory(Memory!Get(t, s)) \/ ReadLog(Logged!Get(t, s)) \/ OnSql(Sql!Get(t, s))

List(t, filter) ==
  /\ UNCHANGED callers
  /\ OnMemory(Memory!List(t, filter)) \/ ReadLog(Logged!List(t, filter)) \/ OnSql(Sql!List(t, filter))

Delete(t, s) ==
  /\ live[s]
  /\ Tick
  /\ UNCHANGED <<owner, founder, retired>>
  /\ \/ OnMemory(Memory!DeleteSession(t, s))
     \/ WriteLog(Logged!DeleteSession(t, s))
     \/ OnSql(Sql!DeleteSession(t, s))
  /\ live' = [live EXCEPT ![s] = owner[s] # t \/ (backend = "log" /\ log' = log)]

NewProject(t, p) ==
  /\ founder[p] = None
  /\ founder' = [founder EXCEPT ![p] = t]
  /\ UNCHANGED <<now, owner, live, retired>>
  /\ \/ OnMemory(Memory!CreateProject(t, p))
     \/ ReadLog(Logged!CreateProject(t, p))
     \/ OnSql(Sql!CreateProject(t, p))

Projects(t) ==
  /\ UNCHANGED callers
  /\ OnMemory(Memory!ListProjects(t)) \/ ReadLog(Logged!ListProjects(t)) \/ OnSql(Sql!ListProjects(t))

DropProject(t, p) ==
  /\ founder[p] # None
  /\ retired' = IF founder[p] = t THEN retired \cup {p} ELSE retired
  /\ UNCHANGED <<now, owner, live, founder>>
  /\ \/ OnMemory(Memory!DeleteProject(t, p))
     \/ ReadLog(Logged!DeleteProject(t, p))
     \/ OnSql(Sql!DeleteProject(t, p))

BehindTheLog ==
  /\ OnLog(\/ \E s \in Session : owner[s] # None /\ Logged!Narrate(s)
           \/ \E n \in 1..MaxEvents : Logged!Rotate(n)
           \/ Logged!Restart)
  /\ Mishap
  /\ UNCHANGED callers

Call ==
  \/ \E t \in Tenant, s \in Session :
       \/ \E p \in Project \cup {None} : Create(t, s, p)
       \/ \E n \in 1..MaxEvents, type \in Types : Update(t, s, n, type)
       \/ Get(t, s) \/ Delete(t, s)
  \/ \E t \in Tenant, filter \in Filters : List(t, filter)
  \/ \E t \in Tenant, p \in Project : NewProject(t, p) \/ DropProject(t, p)
  \/ \E t \in Tenant : Projects(t)
  \/ BehindTheLog

Next ==
  /\ \/ Call /\ UNCHANGED <<schema, ledger>>
     \/ backend = "schema" /\ Schema!Next /\ UNCHANGED <<callers, mishaps, memory, logged, sql, ledger>>
     \/ backend = "ledger" /\ Books!Next /\ UNCHANGED <<callers, mishaps, memory, logged, sql, schema>>
  /\ UNCHANGED backend
  /\ seen' = Streams'

Spec == Init /\ [][Next]_vars

-----------------------------------------------------------------------------
(* The refinements.                                                        *)

Written == [type : Types \cup {"created"}, at : 1..MaxEvents, tenant : Tenant, project : Project \cup {None}]
Nothing == [s \in Session |-> <<>>]

MemoryContract == INSTANCE SessionContract WITH
  streams <- events, projects <- mProjects, reply <- mReply,
  Events <- Written, ranks <- TRUE

SqlContract == INSTANCE SessionContract WITH
  streams <- IF backend = "sql" THEN seen ELSE Nothing,
  projects <- sProjects, reply <- sReply,
  Events <- Written, ranks <- dialect # "postgres"

WholeContract == INSTANCE SessionContract WITH
  streams <- IF backend = "sql" THEN seen ELSE Nothing,
  projects <- sProjects, reply <- sReply,
  Events <- Written, ranks <- TRUE

LogContract == INSTANCE LossyContract WITH
  streams <- IF backend = "log" THEN seen ELSE Nothing, reply <- lReply,
  hidden <- deletedProjects, last <- snapshots,
  Events <- Written, ranks <- TRUE

\* The in-memory backend answers every call as the contract does: its snapshot
\* cache and its version map never show.
MemoryHonoursContract == MemoryContract!Spec

\* The backend over the log keeps what LossyContract leaves of the contract under
\* lost writes, rotation of any lines, restarts at any time, narration, tombstones
\* and deleted projects: its markers, its two caches and its counting never show.
LogHonoursContract == LogContract!LossySpec

\* So does the SQL backend on SQLite, where the directory and the ranking of the
\* event rows list what rebuilding every session and filtering would; on PostgreSQL
\* too, but that a list across projects is empty.
SqlHonoursContract == SqlContract!Spec

\* The contract as its tests state it, which the SQL backend does not keep on
\* PostgreSQL: a list across projects has the sessions there are.
SqlListsEverything == WholeContract!Spec

\* Migrations: the record describes the tables, every statement fits, and no rows
\* go but those a daemon was told to drop.
MigratesSafely == Schema!MigratesSafely

\* Ledger: two stores given the same calls keep the same books, a total being a text
\* for one driver.
StoresKeepTheSameBooks == backend = "ledger" => Books!StoresKeepTheSameBooks

Symmetric == Permutations(Tenant) \cup Permutations(Session) \cup Permutations(Daemon)

\* A plain start in production, rollbacks in development, one allowed and one
\* refused in production, a blank and a negative target.
Env(raw, prod, allow) == [down |-> raw, production |-> prod, allowDown |-> allow]
MCEnvs ==
  {Env("", TRUE, FALSE), Env("6", FALSE, FALSE), Env("4", TRUE, TRUE),
   Env("5", TRUE, FALSE), Env(" ", FALSE, FALSE), Env("-1", FALSE, FALSE)}

\* Full rows of two lengths, a delta that chains to one of them and one to the other.
MCRow ==
  {[kind |-> "full", baseCount |-> 0, data |-> <<>>],
   [kind |-> "full", baseCount |-> 0, data |-> <<"m">>],
   [kind |-> "delta", baseCount |-> 0, data |-> <<"m">>],
   [kind |-> "delta", baseCount |-> 1, data |-> <<"n">>]}
MCModel == {<<"llama3">>, <<"llama3", "8b">>}
MCAgent == {<<"builder">>}

MCFilters == {
  [project |-> None, status |-> "queued", since |-> 0, offset |-> 0, limit |-> 9],
  [project |-> None, status |-> "awaiting_input", since |-> 2, offset |-> 0, limit |-> 9],
  [project |-> CHOOSE p \in Project : TRUE, status |-> "awaiting_input", since |-> 0, offset |-> 0, limit |-> 1],
  [project |-> CHOOSE p \in Project : TRUE, status |-> None, since |-> 0, offset |-> 1, limit |-> 1]}
=============================================================================
