------------------------------ MODULE Migrations ------------------------------
(***************************************************************************)
(* How a daemon brings its database to the schema it was built for:        *)
(*   src/session/backendFactory.ts    migrate, then perhaps roll back       *)
(*   src/session/migrations.ts        the list and its runner, Postgres     *)
(*   src/session/sqliteMigrations.ts  the same list for SQLite              *)
(*   src/session/db.ts, sqliteDb.ts   the transaction a run is in           *)
(*                                                                         *)
(* A run of migrations is one transaction: it works on a copy, `work', that *)
(* nobody sees until it commits.  Daemons that serve already go on writing  *)
(* to the tables the copy does not touch.                                   *)
(***************************************************************************)
EXTENDS Integers, Sequences, TLC

CONSTANTS
  Daemon,
  Channel,      \* checkpoint ids
  Envs,         \* environments a daemon starts in: SESSION_MIGRATE_DOWN_TO, see
                \* Parsed; NODE_ENV = production; SESSION_MIGRATE_ALLOW_DOWN = 1
  MaxBoots,     \* bound: daemons started
  MaxWrites     \* bound: rows written

VARIABLES
  dialect,   \* "postgres" or "sqlite"
  database,  \* what is committed: the versions recorded, the tables' rows
  boot,      \* where each daemon is
  boots,     \* bound: daemons started so far
  writes     \* bound: rows written so far

vars == <<dialect, database, boot, boots, writes>>

-----------------------------------------------------------------------------
(* The list.                                                               *)

Versions == 1..7
Unset == -1
Refused == -2  \* not a number, not an integer, or below 0
Absent == {[id |-> "no table"]}

\* The tables a version creates; the seventh reshapes the fifth's.  The list for
\* SQLite has the same versions, tables and keys, and other column types.
Creates ==
  <<{"session_events"}, {"projects"}, {"sessions"}, {"users", "api_keys"},
    {"run_checkpoints"}, {"daily_cost_buckets"}, {}>>
Tables == UNION {Creates[n] : n \in Versions}
Touched(n) == IF n = 7 THEN {"run_checkpoints"} ELSE Creates[n]

Best(steps) == CHOOSE n \in steps : \A m \in steps : m <= n

\* Mutant: a row per channel becomes a delta on nothing.
ChainedAsDelta(legacy) == {[id |-> r.id, kind |-> "delta", step |-> 0, data |-> r.data] : r \in legacy}

\* A row per channel becomes its full row of step 0.
Chained(legacy) == {[id |-> r.id, kind |-> "full", step |-> 0, data |-> r.data] : r \in legacy}

Fulls(chain, id) == {r \in chain : r.id = id /\ r.kind = "full"}

\* Postgres: the first row of each channel, its full rows in descending order.
DistinctOn(chain) ==
  {r \in chain : r \in Fulls(chain, r.id) /\ \A q \in Fulls(chain, r.id) : r.step >= q.step}

\* SQLite: the full rows whose step is the channel's greatest full one.
WithMaxStep(chain) ==
  {r \in chain : r.kind = "full" /\ r.step = Best({q.step : q \in Fulls(chain, r.id)})}

\* The last full row of a channel becomes its row; deltas are lost.
Folded(chain) ==
  {[id |-> r.id, data |-> r.data] :
     r \in IF dialect = "postgres" THEN DistinctOn(chain) ELSE WithMaxStep(chain)}

\* A statement fails when a table to create is there or one to drop is not.
Fits(n, way, db) ==
  \A t \in Touched(n) : (way = "up" /\ n # 7) <=> db.rows[t] = Absent

Up(n, db) ==
  [applied |-> db.applied \cup {n},
   rows |-> [t \in Tables |->
     IF t \notin Touched(n) THEN db.rows[t] ELSE IF n = 7 THEN Chained(db.rows[t]) ELSE {}]]

Down(n, db) ==
  [applied |-> db.applied \ {n},
   rows |-> [t \in Tables |->
     IF t \notin Touched(n) THEN db.rows[t] ELSE IF n = 7 THEN Folded(db.rows[t]) ELSE Absent]]

-----------------------------------------------------------------------------
(* A boot.                                                                 *)

Off == [pc |-> "off"]
Ends == {"serving", "busy", "refused", "error"}
InTx(d) == boot[d].pc \in {"read", "step"}
Wrote(d) == boot[d].pc = "step" /\ boot[d].dirty # {}

\* Databases older releases left: the first versions, with a row per channel; and
\* one of this build, with two full rows and their deltas.
Chain(c) == {[id |-> c, kind |-> IF n \in {0, 2} THEN "full" ELSE "delta", step |-> n, data |-> 0 - n] :
               n \in 0..3}
Left(n) ==
  [applied |-> 1..n,
   rows |-> [t \in Tables |->
     IF \A v \in 1..n : t \notin Creates[v] THEN Absent
     ELSE IF t # "run_checkpoints" THEN {}
     ELSE IF n = 7 THEN UNION {Chain(c) : c \in Channel}
     ELSE {[id |-> c, data |-> 0] : c \in Channel}]]

Init ==
  /\ dialect \in {"postgres", "sqlite"}
  /\ database \in {Left(n) : n \in {0, 4, 6, 7}}
  /\ boot = [d \in Daemon |-> Off]
  /\ boots = 0 /\ writes = 0

Start(d, env) ==
  /\ boot[d].pc \in {"off"} \cup Ends /\ boots < MaxBoots
  /\ boot' = [boot EXCEPT ![d] = [pc |-> "begin", way |-> "up", env |-> env]]
  /\ boots' = boots + 1
  /\ UNCHANGED <<dialect, database, writes>>

\* BEGIN; on Postgres the transaction then waits for the advisory lock.
Begin(d) ==
  /\ boot[d].pc = "begin"
  /\ dialect = "postgres" => \A e \in Daemon : ~InTx(e)
  /\ boot' = [boot EXCEPT ![d] = [pc |-> "read", way |-> @.way, env |-> @.env]]
  /\ UNCHANGED <<dialect, database, boots, writes>>

\* Number(raw), but for a variable that is unset or empty; a blank is 0.
Parsed(raw) ==
  IF raw = "" THEN Unset
  ELSE ((" " :> 0) @@ ("0" :> 0) @@ ("4" :> 4) @@ ("5" :> 5) @@ ("6" :> 6) @@ ("-1" :> Refused))[raw]

\* The migrations the run is to apply, or to roll back; the list is in the order
\* of the versions.
Plan(way, target, applied) ==
  IF way = "up" THEN Versions \ applied ELSE {n \in applied : n > target}
NextOf(way, todo) ==
  CHOOSE n \in todo : \A m \in todo : IF way = "up" THEN n <= m ELSE m <= n

Stepping(b, work, dirty, todo) ==
  [pc |-> "step", way |-> b.way, env |-> b.env, work |-> work, dirty |-> dirty, todo |-> todo]

ReadApplied(d) ==
  /\ boot[d].pc = "read"
  /\ boot' = [boot EXCEPT ![d] =
       Stepping(@, database, {}, Plan(@.way, Parsed(@.env.down), database.applied))]
  /\ UNCHANGED <<dialect, database, boots, writes>>

Stop(d, why) == boot' = [boot EXCEPT ![d] = [pc |-> why]]

\* Somebody else's transaction holds what this one is to write: a table on
\* Postgres, the file on SQLite.
Holds(e, tables) ==
  Wrote(e) /\ (dialect = "postgres" => boot[e].dirty \cap tables # {})
Blocked(d, tables) == \E e \in Daemon \ {d} : Holds(e, tables)

\* What the transaction sees of the tables it has not touched.
Seen(d) ==
  [boot[d].work EXCEPT !.rows = [t \in Tables |->
     IF t \in boot[d].dirty \/ dialect = "sqlite" THEN @[t] ELSE database.rows[t]]]

\* The next migration of the plan and its record.
Migrate(d) ==
  /\ boot[d].pc = "step" /\ boot[d].todo # {}
  /\ LET way == boot[d].way
         n == NextOf(way, boot[d].todo)
         work == IF way = "up" THEN Up(n, Seen(d)) ELSE Down(n, Seen(d))
     IN /\ ~Blocked(d, Touched(n))
        /\ IF Fits(n, way, Seen(d)) /\ (way = "up" => n \notin database.applied)
           THEN boot' = [boot EXCEPT ![d] =
                  Stepping(@, work, @.dirty \cup Touched(n), @.todo \ {n})]
           ELSE Stop(d, "error")
  /\ UNCHANGED <<dialect, database, boots, writes>>

\* SQLite: two transactions read, one writes; the other's first write fails, and
\* the writer's commit does if the reader outlasts the driver's patience.
Busy(d) ==
  /\ dialect = "sqlite" /\ boot[d].pc = "step"
  /\ \/ boot[d].todo # {} /\ Blocked(d, {})
     \/ boot[d].todo = {} /\ Wrote(d) /\ \E e \in Daemon \ {d} : boot[e].pc = "step"
  /\ Stop(d, "busy")
  /\ UNCHANGED <<dialect, database, boots, writes>>

\* What resolveRollbackTarget makes of the environment, and the boot of it: the
\* migrations are in by then.
AfterUp(env) ==
  IF Parsed(env.down) = Unset THEN [pc |-> "serving"]
  ELSE IF Parsed(env.down) \notin Nat \/ (env.production /\ ~env.allowDown) THEN [pc |-> "refused"]
  ELSE [pc |-> "begin", way |-> "down", env |-> env]

Commit(d) ==
  /\ boot[d].pc = "step" /\ boot[d].todo = {}
  /\ (dialect = "sqlite" /\ Wrote(d)) => \A e \in Daemon \ {d} : boot[e].pc # "step"
  /\ database' = [applied |-> IF Wrote(d) THEN boot[d].work.applied ELSE database.applied,
                  rows |-> [t \in Tables |->
                    IF t \in boot[d].dirty THEN boot[d].work.rows[t] ELSE database.rows[t]]]
  /\ boot' = [boot EXCEPT ![d] =
       IF @.way = "up" THEN AfterUp(@.env) ELSE [pc |-> "serving"]]
  /\ UNCHANGED <<dialect, boots, writes>>

\* The process dies, or its connection does; the server rolls back.
Crash(d) ==
  /\ boot[d].pc \in {"begin", "read", "step", "serving"}
  /\ Stop(d, "off")
  /\ UNCHANGED <<dialect, database, boots, writes>>

-----------------------------------------------------------------------------
(* A daemon that serves, on whatever schema there is.                      *)

NextStep(c) ==
  LET steps == {r.step : r \in {q \in database.rows["run_checkpoints"] : q.id = c}}
  IN IF steps = {} THEN 0 ELSE Best(steps) + 1

\* A reader of the SQLite file keeps a writer from committing.
Locked(d, t) == Blocked(d, {t}) \/ (dialect = "sqlite" /\ \E e \in Daemon : boot[e].pc = "step")

Filled(t, content) == [database EXCEPT !.rows = [@ EXCEPT ![t] = content]]

\* A row of each table, in the shape this build writes; against another schema
\* the statement fails.
Write(d) ==
  /\ boot[d].pc = "serving" /\ writes < MaxWrites
  /\ writes' = writes + 1
  /\ \E t \in Tables \ {"users", "api_keys"} :
       /\ database.rows[t] # Absent /\ ~Locked(d, t)
       /\ IF t # "run_checkpoints" THEN database' = Filled(t, {[id |-> "row"]})
          ELSE /\ 7 \in database.applied
               /\ \E c \in Channel, kind \in {"full", "delta"} :
                    /\ NextStep(c) = 0 => kind = "full"
                    /\ database' = Filled(t, database.rows[t] \cup
                         {[id |-> c, kind |-> kind, step |-> NextStep(c), data |-> writes']})
  /\ UNCHANGED <<dialect, boot, boots>>

Next ==
  \E d \in Daemon :
    \/ \E env \in Envs : Start(d, env)
    \/ Begin(d) \/ ReadApplied(d) \/ Migrate(d) \/ Busy(d) \/ Commit(d) \/ Crash(d)
    \/ Write(d)

Spec == Init /\ [][Next]_vars

-----------------------------------------------------------------------------
(* What is checked.                                                        *)

\* The record of applied versions says what tables there are: no crash, race or
\* rollback leaves a version recorded without its tables, or rows of another shape.
RecordMatchesTables ==
  \A t \in Tables :
    /\ (database.rows[t] # Absent) <=> \E n \in database.applied : t \in Creates[n]
    /\ database.rows[t] # Absent =>
         \A r \in database.rows[t] :
           "kind" \in DOMAIN r <=> (t = "run_checkpoints" /\ 7 \in database.applied)

\* Whatever daemons start together, and whatever they roll back, no migration
\* meets a schema it does not fit.
NoStatementFails == \A d \in Daemon : boot[d].pc # "error"

\* The last full checkpoint of a channel, in either shape.
LatestFull(db, c) ==
  LET mine == {r \in db.rows["run_checkpoints"] : r.id = c}
      fulls == {r \in mine : 7 \in db.applied => r.kind = "full"}
  IN {r \in fulls : 7 \in db.applied => r.step = Best({q.step : q \in fulls})}

\* The schema is sound at any time, and every daemon finds it so.
SchemaIsSound == RecordMatchesTables /\ NoStatementFails

\* A migration or rollback that keeps the checkpoint table keeps, for every
\* channel, the data of its last full row.
LastFullRowSurvives ==
  [][database'.applied # database.applied /\ 5 \in database.applied /\ 5 \in database'.applied =>
       \A c \in Channel :
         {r.data : r \in LatestFull(database, c)} = {r.data : r \in LatestFull(database', c)}]_vars

\* A table that goes is one above the target some daemon was started with.
OnlyAboveTheTarget ==
  [][\A n \in database.applied \ database'.applied :
       \E d \in Daemon : boot[d].pc = "step" /\ boot[d].way = "down" /\ n > Parsed(boot[d].env.down)]_vars

\* Nothing is lost by migrating but what a daemon was told to roll back.
DataSurvives == LastFullRowSurvives /\ OnlyAboveTheTarget

\* Whichever daemons boot together, roll back or die half-way, the record
\* describes the tables, every statement finds what it needs, and no rows go but
\* those a daemon was told to drop.
MigratesSafely == []SchemaIsSound /\ DataSurvives
=============================================================================
