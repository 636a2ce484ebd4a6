------------------------------- MODULE MCBridge -------------------------------
(***************************************************************************)
(* Small instances of the event log (EventLog), the filtered streams        *)
(* (Feeds), the compare-and-set of the SQL backend (PostgresBackend) and    *)
(* the report on the traces (Insights).                                     *)
(* They share no state: a behavior is one part's, and the others stay       *)
(* where they began.                                                        *)
(***************************************************************************)
EXTENDS EventLog

CONSTANTS Session, Project, Reader, ListLimit, MaxFrames, MaxAsked
CONSTANTS Instance, Caller, Ops, Dialects, Durabilities
CONSTANTS Shown, MaxLines
CONSTANT MaxAsync   \* bound: callers in durability async

VARIABLES
  part,   \* the one that moves: "log", "feeds", "sql" or "traces"
  stored, log, stream, lastId, asked, stopping,
  dialect, durability, rows, snapshots, versions, buffered, caller, commits,
  traces

feeds == <<stored, log, stream, lastId, asked, stopping>>
sql == <<dialect, durability, rows, snapshots, versions, buffered, caller, commits>>

\* Every session is of the first project but one; the readers follow that
\* project and a session of it.
MCProjectOf ==
  LET p == CHOOSE q \in Project : TRUE
      other == CHOOSE s \in Session : TRUE
  IN [s \in Session |-> IF s = other /\ Cardinality(Project) > 1
                        THEN CHOOSE q \in Project : q # p ELSE p]
MCWantOf ==
  LET p == CHOOSE q \in Project : TRUE
      own == CHOOSE s \in Session : MCProjectOf[s] = p
      first == CHOOSE r \in Reader : TRUE
  IN [r \in Reader |-> IF r = first THEN p ELSE own]

\* Members and models with and without a name, costs that tie, times that cross.
MCEnvelope ==
  LET Trace(member, model, at, cost, in, out, util) ==
        [member |-> member, model |-> model, status |-> IF cost = 0 THEN "error" ELSE "success",
         timestamp |-> at, input |-> in, output |-> out, cost |-> cost, util |-> util]
  IN {Trace("a", "x", 1, 3, 4, 1, 50), Trace("a", "", 2, 0, 0, 0, -1), Trace("b", "x", 1, 1, 2, 1, 20),
      Trace("b", "y", 2, 2, 2, 4, 90), Trace("", "y", 1, 2, 1, 0, 20), Trace("c", "x", 1, 4, 10, 1, 10)}

Streams == INSTANCE Feeds WITH ProjectOf <- MCProjectOf, WantOf <- MCWantOf
Store == INSTANCE PostgresBackend
Report == INSTANCE Insights WITH Envelope <- MCEnvelope

ASSUME InputsKnown == Streams!InputsKnown /\ Store!RequestsKnown /\ Report!InputsDivide

MCInit ==
  /\ part \in {"log", "feeds", "sql", "traces"}
  /\ Init /\ Streams!Init /\ Store!Init /\ Report!Init
  /\ part # "sql" => /\ dialect = CHOOSE d \in Dialects : TRUE
                     /\ durability = CHOOSE d \in Durabilities : TRUE

\* Callers are interchangeable, and so are instances: callers come by number,
\* the first to the first instance.  With writes that answer before they commit
\* there are MaxAsync of them.
InTurn ==
  /\ \A c \in Caller \ {1} : caller'[c].pc # "idle" => caller[c - 1].pc # "idle"
  /\ caller'[1].at \in {"none", CHOOSE i \in Instance : TRUE}
  /\ durability = "async" => \A c \in Caller : c > MaxAsync => caller'[c].pc = "idle"

MCNext ==
  \/ part = "log" /\ Next /\ UNCHANGED <<part, feeds, sql, traces>>
  \/ part = "feeds" /\ Streams!Next /\ UNCHANGED <<part, vars, sql, traces>>
  \/ part = "sql" /\ Store!Next /\ InTurn /\ UNCHANGED <<part, vars, feeds, traces>>
  \/ part = "traces" /\ Report!Next /\ UNCHANGED <<part, vars, feeds, sql>>

MCSpec == MCInit /\ [][MCNext]_<<part, vars, feeds, sql, traces>>

\* Feeds: whatever was emitted while a route read the store, an open stream has
\* every event of the sessions promised to it, once and in order.
StreamsCarryTheirSessions == part = "feeds" => Streams!StreamsCarryTheirSessions

\* PostgresBackend: a write commits only on the events it was decided from.
CommitsOnWhatItSaw == part = "sql" => Store!CommitsOnWhatItSaw

\* PostgresBackend: on SQLite the cache serves the rows, and only a rival's
\* commit refuses a write.
CacheKeepsUp == part = "sql" => Store!CacheKeepsUp

\* Insights: a report accounts for every readable run once, whatever lines are torn.
ReportAddsUp == part = "traces" => Report!ReportAddsUp
=============================================================================
