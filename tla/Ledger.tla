------------------------------- MODULE Ledger -------------------------------
(***************************************************************************)
(* What a store keeps besides sessions - checkpoint rows and the daily cost *)
(* counter - in memory (src/session/sessionStore.ts) and in tables          *)
(* (src/session/postgresBackend.ts), given the same calls one after the    *)
(* other, as src/session/backendContract.ts does.                           *)
(*                                                                         *)
(* A name is the sequence of its parts between colons: the memory store    *)
(* joins the names of a bucket into one key.  Tenants and days have no     *)
(* colon, the agents here none either, models do ("llama3:8b").  A          *)
(* checkpoint's messages are a sequence, and an id's saves come from one    *)
(* session.                                                                *)
(***************************************************************************)
EXTENDS Integers, Sequences, FiniteSets, FiniteSetsExt, SequencesExt

CONSTANTS
  Tenant, Channel,
  Row,            \* the rows saves write: full, or deltas to some length
  Day,            \* a set of numbers: days compare as their strings do
  Agent, Model,
  Tokens,         \* what a call may have used
  MaxCalls        \* bound: calls that change something

VARIABLES
  checkpoints, costUsage,              \* the memory store's maps
  run_checkpoints, daily_cost_buckets, \* the tables
  driver,                              \* what the tables are read through: "sqlite", "pglite", "pg"
  calls                                \* history: the calls made, in order

memory == <<checkpoints, costUsage>>
tables == <<run_checkpoints, daily_cost_buckets, driver>>
vars == <<memory, tables, calls>>

InputsKnown ==
  /\ \A row \in Row : row = [kind |-> row.kind, baseCount |-> row.baseCount, data |-> row.data]
  /\ Day \subseteq Nat /\ Tokens \subseteq Nat
  /\ \A agent \in Agent : agent \in Seq(STRING) /\ Len(agent) = 1
  /\ \A model \in Model : model \in Seq(STRING)

Unset == -1
Window == (Day \cup {Unset}) \X (Day \cup {Unset})
InWindow(day, w) == (w[1] = Unset \/ day >= w[1]) /\ (w[2] = Unset \/ day <= w[2])

-----------------------------------------------------------------------------
(* The replay of an id's rows.                                             *)

reconstructRows(rows) ==
  LET step(acc, row) ==
        IF acc.done THEN acc
        ELSE IF row.kind = "full" THEN [acc EXCEPT !.value = row.data]
        ELSE IF acc.value = "none" THEN [acc EXCEPT !.done = TRUE]
        ELSE IF Len(acc.value) # row.baseCount THEN [acc EXCEPT !.done = TRUE]
        ELSE [acc EXCEPT !.value = @ \o row.data]
  IN FoldLeft(step, [value |-> "none", done |-> FALSE], rows).value

History(rows) == [i \in DOMAIN rows |-> [kind |-> rows[i].kind, step |-> rows[i].step]]

-----------------------------------------------------------------------------
(* The memory store: maps under joined keys.                               *)

set(map, key, value) == [k \in DOMAIN map \cup {key} |-> IF k = key THEN value ELSE map[k]]

Stepped(row, step) ==
  [kind |-> row.kind, baseCount |-> row.baseCount, data |-> row.data, step |-> step]

RowsOf(t, id) == IF <<t, id>> \in DOMAIN checkpoints THEN checkpoints[<<t, id>>] ELSE <<>>

appendCheckpointRow(t, id, row) ==
  checkpoints' = set(checkpoints, <<t, id>>,
                     Append(RowsOf(t, id), Stepped(row, Len(RowsOf(t, id)))))

MemoryDelete(t, id) ==
  checkpoints' = [k \in DOMAIN checkpoints \ {<<t, id>>} |-> checkpoints[k]]

Bucket(t, u) ==
  [tenant |-> t, day |-> u.day, agent |-> u.agent, model |-> u.model, tokens |-> u.tokens]
Key(t, u) == <<t, u.day>> \o u.agent \o u.model

MemoryRecord(t, u) ==
  LET key == Key(t, u)
      row == IF key \in DOMAIN costUsage THEN [costUsage[key] EXCEPT !.tokens = @ + u.tokens]
             ELSE Bucket(t, u)
  IN costUsage' = set(costUsage, key, row)

MemoryDailyCost(t, w) ==
  {[day |-> r.day, agent |-> r.agent, model |-> r.model, tokens |-> r.tokens] :
     r \in {costUsage[k] : k \in {x \in DOMAIN costUsage :
              costUsage[x].tenant = t /\ InWindow(costUsage[x].day, w)}}}

-----------------------------------------------------------------------------
(* The tables.                                                             *)

OfId(t, id) == {r \in run_checkpoints : r.tenant = t /\ r.id = id}
StepsOf(t, id) == {r.step : r \in OfId(t, id)}

Line(t, id, row) ==
  [tenant |-> t, id |-> id, kind |-> row.kind, baseCount |-> row.baseCount,
   data |-> row.data, step |-> row.step]

\* The columns a query selects, the two others being what it selects by.
Selected(r) == Stepped(r, r.step)

\* ORDER BY step ASC.
InOrder(t, id) ==
  [n \in 1..Cardinality(OfId(t, id)) |->
    Selected(CHOOSE r \in OfId(t, id) :
      Cardinality({q \in OfId(t, id) : q.step < r.step}) = n - 1)]

\* The step that follows the highest there is; nobody else writes the id.
insertCheckpointRow(t, id, row) ==
  run_checkpoints' = run_checkpoints \cup
    {Line(t, id, Stepped(row, Max(StepsOf(t, id) \cup {-1}) + 1))}

TablesDelete(t, id) == run_checkpoints' = run_checkpoints \ OfId(t, id)

\* Mutant: the conflicting row is replaced, not added to.
Replaced(r, u) == [r EXCEPT !.tokens = u.tokens]

\* DO UPDATE SET.
Added(r, u) == [r EXCEPT !.tokens = @ + u.tokens]

TablesRecord(t, u) ==
  LET at == {r \in daily_cost_buckets :
               r.tenant = t /\ r.day = u.day /\ r.agent = u.agent /\ r.model = u.model}
  IN daily_cost_buckets' = (daily_cost_buckets \ at)
       \cup (IF at = {} THEN {Bucket(t, u)} ELSE {Added(r, u) : r \in at})

\* A BIGINT column as the driver returns it: node-postgres answers a text.
Column(n) == [type |-> IF driver = "pg" THEN "string" ELSE "number", value |-> n]

TablesDailyCost(t, w) ==
  {[day |-> r.day, agent |-> r.agent, model |-> r.model, tokens |-> Column(r.tokens)] :
     r \in {x \in daily_cost_buckets : x.tenant = t /\ InWindow(x.day, w)}}

-----------------------------------------------------------------------------
Usage == [day : Day, agent : Agent, model : Model, tokens : Tokens]

Init ==
  /\ checkpoints = <<>> /\ costUsage = <<>>
  /\ run_checkpoints = {} /\ daily_cost_buckets = {} /\ driver \in {"sqlite", "pglite", "pg"}
  /\ calls = <<>>

Made(call) == Len(calls) < MaxCalls /\ calls' = Append(calls, call)

\* saveCheckpoint and saveCheckpointDelta.
Save(t, id, row) ==
  /\ Made([op |-> "save", tenant |-> t, id |-> id, row |-> row])
  /\ appendCheckpointRow(t, id, row) /\ insertCheckpointRow(t, id, row)
  /\ UNCHANGED <<costUsage, daily_cost_buckets, driver>>

Delete(t, id) ==
  /\ Made([op |-> "delete", tenant |-> t, id |-> id])
  /\ MemoryDelete(t, id) /\ TablesDelete(t, id)
  /\ UNCHANGED <<costUsage, daily_cost_buckets, driver>>

Record(t, u) ==
  /\ Made([op |-> "record", tenant |-> t, usage |-> u])
  /\ MemoryRecord(t, u) /\ TablesRecord(t, u)
  /\ UNCHANGED <<checkpoints, run_checkpoints, driver>>

Next ==
  \E t \in Tenant :
    \/ \E id \in Channel : \E row \in Row : Save(t, id, row)
    \/ \E id \in Channel : Delete(t, id)
    \/ \E u \in Usage : Record(t, u)

Spec == Init /\ [][Next]_vars

-----------------------------------------------------------------------------
(* What the contract's tests expect, of the calls made.                    *)

\* The rows saved under an id since it was last deleted.
Nth(S, n) == CHOOSE i \in S : Cardinality({j \in S : j < i}) = n - 1

SavedSince(t, id) ==
  LET mine == {i \in DOMAIN calls :
                 calls[i].op # "record" /\ calls[i].tenant = t /\ calls[i].id = id}
      kept == {i \in mine : \A j \in mine : calls[j].op = "delete" => j < i}
  IN [n \in 1..Cardinality(kept) |-> Stepped(calls[Nth(kept, n)].row, n - 1)]

\* What was recorded in a window, every token of it, per day, agent and model.
Totals(t, w) ==
  LET mine == {i \in DOMAIN calls : calls[i].op = "record" /\ calls[i].tenant = t
                                      /\ InWindow(calls[i].usage.day, w)}
      Same(i) == {j \in mine : [calls[j].usage EXCEPT !.tokens = 0]
                                 = [calls[i].usage EXCEPT !.tokens = 0]}
      Used(i) == UNION {{j} \X (1..calls[j].usage.tokens) : j \in Same(i)}
  IN {[calls[i].usage EXCEPT !.tokens = Cardinality(Used(i))] : i \in mine}

\* The same buckets as the tables answer them.
Columns(buckets) == {[u EXCEPT !.tokens = Column(u.tokens)] : u \in buckets}

\* Every legal sequence of calls is answered by the memory store as the contract's
\* tests expect, and by the tables too but for the type of a total: no tenant sees
\* or feeds another's rows, a deleted checkpoint starts over, and each bucket holds
\* what was recorded in it - as a number, or through node-postgres as its text.
StoresKeepTheSameBooks ==
  \A t \in Tenant :
    /\ \A id \in Channel :
         LET saved == SavedSince(t, id) IN
         /\ reconstructRows(RowsOf(t, id)) = reconstructRows(saved)
         /\ reconstructRows(InOrder(t, id)) = reconstructRows(saved)
         /\ History(RowsOf(t, id)) = History(saved)
         /\ History(InOrder(t, id)) = History(saved)
    /\ \A w \in Window :
         /\ MemoryDailyCost(t, w) = Totals(t, w)
         /\ TablesDailyCost(t, w) = Columns(Totals(t, w))

\* What the contract's tests also ask of every store, and node-postgres does not
\* answer: a total is a number.
TotalsAreNumbers ==
  \A t \in Tenant : \A w \in Window :
    \A bucket \in TablesDailyCost(t, w) : bucket.tokens.type = "number"
=============================================================================
