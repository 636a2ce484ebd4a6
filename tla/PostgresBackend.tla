--------------------------- MODULE PostgresBackend ---------------------------
(***************************************************************************)
(* The session store over a SQL database: src/session/postgresBackend.ts,  *)
(* on Postgres (src/session/db.ts) or on SQLite (src/session/sqliteDb.ts), *)
(* for ONE session.                                                        *)
(*                                                                         *)
(* The rows are the truth: the versions present in session_events.  Every  *)
(* backend object keeps a snapshot of the aggregate and a count of the     *)
(* commits it knows of; a read is served from memory when the two agree.   *)
(* Requests read and write around their awaits: a read that missed the     *)
(* cache installs what its query returned in a later step, and a writer    *)
(* drops the cached snapshot in the step after its commit.                 *)
(*                                                                         *)
(* An aggregate is known here by the set of versions it was rebuilt from.  *)
(* A statement outside a transaction that runs while SQLite's only         *)
(* connection has one open reads its uncommitted insert; that is the read  *)
(* between Insert and Invalidate here, as no insert of these is undone.    *)
(***************************************************************************)
EXTENDS Naturals, FiniteSets, FiniteSetsExt

CONSTANTS
  Instance,    \* backend objects over one database: processes, or tenants' copies
  Caller,      \* requests: each caller makes one
  Ops,         \* the kinds of request the callers make
  Dialects,    \* the databases the process may be started on
  Durabilities \* the values ATLASLINK_DURABILITY may have at start

RequestsKnown ==
  /\ Ops \subseteq {"create", "read", "update", "mirror", "delete"}
  /\ Dialects \subseteq {"postgres", "sqlite"}
  /\ Durabilities \subseteq {"sync", "async", "exit"}
  /\ "none" \notin Instance

VARIABLES
  dialect,    \* the database this process was started on
  durability, \* the mode this process was started in
  rows,       \* session_events: the versions present
  snapshots,  \* #snapshots of each instance: what its aggregate was rebuilt from
  versions,   \* #versions of each instance (0: no entry)
  buffered,   \* #exitBuffers of each instance: events held back
  caller,     \* the request each caller makes
  commits     \* history: each committed write with the rows its decision saw

vars == <<dialect, durability, rows, snapshots, versions, buffered, caller, commits>>

-----------------------------------------------------------------------------
NoRequest == [op |-> "none", pc |-> "idle", at |-> "none", read |-> {},
              expected |-> 0, seen |-> 0, try |-> 1, rival |-> FALSE,
              code |-> "none"]

Init ==
  /\ dialect \in Dialects
  /\ durability \in Durabilities
  /\ rows = {}
  /\ snapshots = [i \in Instance |-> {}]
  /\ versions = [i \in Instance |-> 0]
  /\ buffered = [i \in Instance |-> 0]
  /\ caller = [c \in Caller |-> NoRequest]
  /\ commits = {}

\* SELECT version ... ORDER BY version DESC LIMIT 1.
LatestVersion(set) == IF set = {} THEN 0 ELSE Max(set)

\* SQLite: transactions run one at a time, and a query takes no time.
Serialized == dialect = "sqlite"

\* #cachedSnapshot: served only when the count agrees with the snapshot.
Hit(i) == versions[i] # 0 /\ snapshots[i] # {} /\ Cardinality(snapshots[i]) = versions[i]

\* A transaction between its SELECT ... FOR UPDATE and its INSERT.  Two of them
\* may hold the same version on Postgres (the lock of the last row says nothing
\* of the next): the UNIQUE constraint then refuses the second insert.
InTransaction(c) == caller[c].pc \in {"insert", "append.insert"}
MayBegin == Serialized => \A c \in Caller : ~InTransaction(c)

\* What c commits is a rival's commit to everyone else in flight.
RivalsOf(c, next) ==
  [d \in Caller |-> IF d = c \/ next[d].pc \in {"idle", "done"} THEN next[d]
                    ELSE [next[d] EXCEPT !.rival = TRUE]]

Done(r, code) == [r EXCEPT !.pc = "done", !.code = code]

-----------------------------------------------------------------------------
(* get.                                                                    *)

\* What a request does with the aggregate it got; nothing was found if it was
\* rebuilt from no row.  Its length is the version the request will expect.
Got(r, aggregate) ==
  LET got == [r EXCEPT !.read = aggregate, !.expected = Cardinality(aggregate)]
  IN IF aggregate = {} THEN Done(got, IF r.op = "mirror" THEN "skipped" ELSE "404")
     ELSE IF r.op = "read" THEN Done(got, "200")
     ELSE [got EXCEPT !.pc = "select"]

GetHit(c) ==
  /\ caller[c].pc = "get"
  /\ Hit(caller[c].at)
  /\ caller' = [caller EXCEPT ![c] = Got(@, snapshots[caller[c].at])]
  /\ UNCHANGED <<dialect, durability, rows, snapshots, versions, buffered, commits>>

\* The rows come back and are installed; an up-to-date snapshot is kept.
Install(c, aggregate) ==
  LET i == caller[c].at IN
  /\ snapshots' = IF aggregate = {} \/ Cardinality(snapshots[i]) = Cardinality(aggregate)
                  THEN snapshots ELSE [snapshots EXCEPT ![i] = aggregate]
  /\ versions' = IF aggregate = {} THEN versions
                 ELSE [versions EXCEPT ![i] = Cardinality(aggregate)]
  /\ caller' = [caller EXCEPT ![c] = Got(@, IF aggregate = {} THEN {} ELSE snapshots'[i])]

\* On SQLite the query answers at once: its continuation runs before any
\* transaction can commit and drop the snapshot.
GetSync(c) ==
  /\ Serialized
  /\ caller[c].pc = "get"
  /\ ~Hit(caller[c].at)
  /\ Install(c, rows)
  /\ UNCHANGED <<dialect, durability, rows, buffered, commits>>

GetQuery(c) ==
  /\ ~Serialized
  /\ caller[c].pc = "get"
  /\ ~Hit(caller[c].at)
  /\ caller' = [caller EXCEPT ![c].pc = "install", ![c].read = rows]
  /\ UNCHANGED <<dialect, durability, rows, snapshots, versions, buffered, commits>>

GetInstall(c) ==
  /\ caller[c].pc = "install"
  /\ Install(c, caller[c].read)
  /\ UNCHANGED <<dialect, durability, rows, buffered, commits>>

-----------------------------------------------------------------------------
(* readModifyWrite.                                                        *)

\* A conflict: an update reads afresh once, a mirror drops its event.
Rejected(r) ==
  IF r.op = "mirror" THEN Done(r, "dropped")
  ELSE IF r.try = 1 THEN [r EXCEPT !.pc = "get", !.try = 2]
  ELSE Done(r, "409")

\* Mutant: the version is not compared.
SelectBlind(c) ==
  /\ caller[c].pc = "select"
  /\ MayBegin
  /\ caller' = [caller EXCEPT ![c].pc = "insert", ![c].seen = LatestVersion(rows)]
  /\ UNCHANGED <<dialect, durability, rows, snapshots, versions, buffered, commits>>

Select(c) ==
  LET r == caller[c] IN
  /\ r.pc = "select"
  /\ MayBegin
  /\ caller' = [caller EXCEPT ![c] =
       IF r.expected = LatestVersion(rows)
       THEN [r EXCEPT !.pc = "insert", !.seen = LatestVersion(rows)]
       ELSE Rejected(r)]
  /\ UNCHANGED <<dialect, durability, rows, snapshots, versions, buffered, commits>>

\* The insert commits, unless the version was taken meanwhile.
Insert(c) ==
  LET r == caller[c]
      next == r.seen + 1
  IN
  /\ r.pc = "insert"
  /\ \/ /\ next \notin rows
        /\ rows' = rows \cup {next}
        /\ commits' = commits \cup {[version |-> next, saw |-> r.read]}
        /\ caller' = RivalsOf(c, [caller EXCEPT ![c].pc = "invalidate"])
     \/ /\ next \in rows
        /\ caller' = [caller EXCEPT ![c] = Rejected(r)]
        /\ UNCHANGED <<rows, commits>>
  /\ UNCHANGED <<dialect, durability, snapshots, versions, buffered>>

\* Mutant: the snapshot outlives the commit.
InvalidateNothing(c) ==
  /\ caller[c].pc = "invalidate"
  /\ caller' = [caller EXCEPT ![c] = Done(@, "201")]
  /\ UNCHANGED <<dialect, durability, rows, snapshots, versions, buffered, commits>>

Invalidate(c) ==
  LET i == caller[c].at IN
  /\ caller[c].pc = "invalidate"
  /\ snapshots' = [snapshots EXCEPT ![i] = {}]
  /\ versions' = [versions EXCEPT ![i] = 0]
  /\ caller' = [caller EXCEPT ![c] = Done(@, "201")]
  /\ UNCHANGED <<dialect, durability, rows, buffered, commits>>

-----------------------------------------------------------------------------
(* append: session.created, the first event of the stream.                 *)

\* In exit mode the event stays in memory until a terminal one is appended.
AppendBuffers(c) ==
  /\ caller[c].pc = "append"
  /\ durability = "exit"
  /\ buffered' = [buffered EXCEPT ![caller[c].at] = @ + 1]
  /\ caller' = [caller EXCEPT ![c] = Done(@, "201")]
  /\ UNCHANGED <<dialect, durability, rows, snapshots, versions, commits>>

\* The append's share of the cache: the snapshot goes, the count moves.
Counted(i) ==
  /\ snapshots' = [snapshots EXCEPT ![i] = {}]
  /\ versions' = [versions EXCEPT ![i] = @ + 1]

AppendSelect(c) ==
  LET r == caller[c] IN
  /\ r.pc = "append"
  /\ durability # "exit"
  /\ MayBegin
  /\ caller' = [caller EXCEPT ![c].pc = "append.insert", ![c].seen = LatestVersion(rows),
                              ![c].code = IF durability = "async" THEN "201" ELSE "none"]
  /\ IF durability = "async" THEN Counted(r.at) ELSE UNCHANGED <<snapshots, versions>>
  /\ UNCHANGED <<dialect, durability, rows, buffered, commits>>

AppendInsert(c) ==
  LET r == caller[c]
      next == r.seen + 1
  IN
  /\ r.pc = "append.insert"
  /\ next \notin rows
  /\ rows' = rows \cup {next}
  /\ commits' = commits \cup {[version |-> next, saw |-> rows]}
  /\ caller' = RivalsOf(c, [caller EXCEPT ![c] =
       IF durability = "async" THEN Done(r, "201") ELSE [r EXCEPT !.pc = "count"]])
  /\ UNCHANGED <<dialect, durability, snapshots, versions, buffered>>

AppendCounts(c) ==
  /\ caller[c].pc = "count"
  /\ Counted(caller[c].at)
  /\ caller' = [caller EXCEPT ![c] = Done(@, "201")]
  /\ UNCHANGED <<dialect, durability, rows, buffered, commits>>

-----------------------------------------------------------------------------
(* deleteProject: the session's rows go with its project.                  *)

\* The DELETE sees the rows committed when it starts ...
DeleteStarts(c) ==
  /\ caller[c].pc = "delete"
  /\ MayBegin
  /\ caller' = [caller EXCEPT ![c].pc = "delete.rows", ![c].read = rows]
  /\ UNCHANGED <<dialect, durability, rows, snapshots, versions, buffered, commits>>

\* ... waits for the row lock of a writer, and removes those; the cached
\* snapshots are not touched.
DeleteCommits(c) ==
  /\ caller[c].pc = "delete.rows"
  /\ \A d \in Caller : ~InTransaction(d)
  /\ rows' = rows \ (IF Serialized THEN rows ELSE caller[c].read)
  /\ caller' = RivalsOf(c, [caller EXCEPT ![c] = Done(@, "200")])
  /\ UNCHANGED <<dialect, durability, snapshots, versions, buffered, commits>>

-----------------------------------------------------------------------------
\* The session is created once, and known to the other callers from then on.
Created == \E c \in Caller : caller[c].op = "create" /\ caller[c].code = "201"

\* Somebody has committed and not yet dropped the cached snapshot.
Unsettled == \E c \in Caller : caller[c].pc \in {"invalidate", "count"}

Arrive(c, op, i) ==
  /\ caller[c].pc = "idle"
  /\ op \in Ops
  /\ Serialized => \A d \in Caller : caller[d].at \in {"none", i}  \* one process
  /\ IF op = "create" THEN \A d \in Caller : caller[d].op # "create" ELSE Created
  /\ op = "delete" => \A d \in Caller : caller[d].op # "delete"
  /\ caller' = [caller EXCEPT ![c] =
       [NoRequest EXCEPT !.op = op, !.at = i, !.rival = Unsettled,
                         !.pc = CASE op = "create" -> "append"
                                  [] op = "delete" -> "delete"
                                  [] OTHER -> "get"]]
  /\ UNCHANGED <<dialect, durability, rows, snapshots, versions, buffered, commits>>

Next ==
  \E c \in Caller :
    \/ \E op \in Ops, i \in Instance : Arrive(c, op, i)
    \/ GetHit(c) \/ GetSync(c) \/ GetQuery(c) \/ GetInstall(c)
    \/ Select(c) \/ Insert(c) \/ Invalidate(c)
    \/ AppendBuffers(c) \/ AppendSelect(c) \/ AppendInsert(c) \/ AppendCounts(c)
    \/ DeleteStarts(c) \/ DeleteCommits(c)

Spec == Init /\ [][Next]_vars

-----------------------------------------------------------------------------
(* Properties.                                                             *)

TypeOK ==
  /\ dialect \in Dialects /\ durability \in Durabilities /\ rows \subseteq Nat
  /\ \A i \in Instance : snapshots[i] \subseteq Nat /\ versions[i] \in Nat
                         /\ buffered[i] \in Nat
  /\ \A c \in Caller :
       /\ caller[c].pc \in {"idle", "get", "install", "select", "insert",
            "invalidate", "append", "append.insert", "count", "delete",
            "delete.rows", "done"}
       /\ caller[c].read \subseteq Nat /\ caller[c].try \in {1, 2}
       /\ caller[c].code # "none" => caller[c].pc \in {"append.insert", "done"}

\* Optimistic concurrency: a write commits version n only on a decision taken
\* from exactly the events 1 .. n-1, however stale the cache that served it.
CommitsOnWhatItSaw ==
  \A w \in commits : w.saw = 1 .. w.version - 1

Deleted == \E c \in Caller : caller[c].op = "delete" /\ caller[c].pc = "done"

\* On SQLite, and short of its project's delete, the cache serves the rows,
\* except to those who read while a writer has committed and not yet dropped
\* the snapshot.
CacheServesTheRows ==
  \A i \in Instance :
    Serialized /\ ~Deleted /\ Hit(i) => \/ snapshots[i] = rows
              \/ \E c \in Caller : caller[c].pc = "invalidate" /\ caller[c].at = i

\* A request is refused with a conflict only if another one committed while it
\* was in flight, or was still to drop the snapshot when it arrived: a cache
\* left stale for good is never the reason.
ConflictNeedsARival ==
  \A c \in Caller : caller[c].code \in {"409", "dropped"} => caller[c].rival

\* The same where the code can keep it: on SQLite, short of a delete.
SqliteConflictNeedsARival == Serialized /\ ~Deleted => ConflictNeedsARival

\* On SQLite the cache is no hazard: it serves the rows, and a request that is
\* refused had a rival.
CacheKeepsUp == TypeOK /\ CacheServesTheRows /\ SqliteConflictNeedsARival

\* A session deleted with its project is gone: no later read is served it.
DeletedIsGone ==
  Deleted => \A i \in Instance : ~Hit(i)

\* A deleted project leaves no event behind.
DeleteLeavesNoRows ==
  Deleted => rows = {}

\* A session that was created is in the database once its run has been
\* mirrored.
ExitPersists ==
  \A c \in Caller : caller[c].op = "mirror" /\ caller[c].pc = "done" => rows # {}
=============================================================================
