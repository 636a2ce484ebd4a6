------------------------------ MODULE Insights ------------------------------
(***************************************************************************)
(* What runs cost and weigh, from the traces members leave behind:         *)
(*   src/bridge/insights.ts               the report                       *)
(*   src/subgraphs/insights/resolvers.ts  its answer on the graph          *)
(*                                                                         *)
(* The trace store is a file of lines that another program appends to: an  *)
(* envelope, or a line that does not parse.  Envelopes come in the order   *)
(* runs end, which is not that of their timestamps.  Ratios are kept in     *)
(* hundredths.                                                             *)
(***************************************************************************)
EXTENDS Integers, Sequences, FiniteSetsExt, SequencesExt

CONSTANTS
  Envelope,   \* [member, model, status, timestamp, input, output, cost, util]
  Shown,      \* how many a ranking shows
  MaxLines    \* bound: lines of the trace store

VARIABLE traces

Torn == <<>>
Absent == -1        \* no context utilization on an envelope
Infinity == <<>>    \* no number of hundredths: null on the graph
Null == <<>>

InputsDivide == \A e \in Envelope : e.input > 0 => 100 % e.input = 0

Init == traces = <<>>

-----------------------------------------------------------------------------
(* The report.                                                             *)

readTraceEnvelopes == SelectSeq(traces, LAMBDA line : line # Torn)

\* A stable sort.
Ordered(es) ==
  LET times == SetToSortSeq({e.timestamp : e \in ToSet(es)}, <)
  IN FlattenSeq([n \in DOMAIN times |-> SelectSeq(es, LAMBDA e : e.timestamp = times[n])])

Total(es, field) == FoldLeft(LAMBDA sum, e : sum + e[field], 0, es)

Group(es) ==
  [runs |-> Len(es), errors |-> Len(SelectSeq(es, LAMBDA e : e.status = "error")),
   input |-> Total(es, "input"), output |-> Total(es, "output"), cost |-> Total(es, "cost")]

NameOf(e, field) == IF e[field] = "" THEN "unknown" ELSE e[field]
Of(es, field, name) == SelectSeq(es, LAMBDA e : NameOf(e, field) = name)

\* For mutation: envelopes without a name are passed over.
BucketsOfNamed(es, field) ==
  [name \in {NameOf(e, field) : e \in ToSet(es)} \ {"unknown"} |-> Group(Of(es, field, name))]

Buckets(es, field) ==
  [name \in {NameOf(e, field) : e \in ToSet(es)} |-> Group(Of(es, field, name))]

percentile(sorted, p) ==
  LET at == (p * Len(sorted)) \div 100 IN
  IF sorted = <<>> THEN 0 ELSE sorted[IF at = 0 THEN 1 ELSE at]

Round(n, d) == (2 * n + d) \div (2 * d)
Ratios(es) == SelectSeq(es, LAMBDA e : e.output > 0 /\ e.input > 0)
RatioOf(es) ==
  IF es = <<>> THEN 0
  ELSE Round(FoldLeft(LAMBDA sum, e : sum + (100 * e.output) \div e.input, 0, es), Len(es))

\* Members by falling weight, equals as they first appeared.
Ranking(es, weight) ==
  LET First(m) == CHOOSE i \in DOMAIN es :
        NameOf(es[i], "member") = m /\ \A j \in 1..(i - 1) : NameOf(es[j], "member") # m
      Above(m, n) == \/ weight[m] > weight[n]
                     \/ weight[m] = weight[n] /\ First(m) < First(n)
      ranked == SetToSortSeq(DOMAIN weight, Above)
  IN SubSeq(ranked, 1, IF Len(ranked) < Shown THEN Len(ranked) ELSE Shown)

costTrend(es) ==
  LET mid == Len(es) \div 2
      first == Total(SubSeq(es, 1, mid), "cost")
      second == Total(SubSeq(es, mid + 1, Len(es)), "cost")
  IN IF Len(es) < 2 THEN Null
     ELSE <<[first |-> first, second |-> second,
             changePct |-> IF first > 0 THEN <<Round(100 * (second - first), first)>>
                           ELSE IF second > 0 THEN Infinity ELSE <<0>>]>>

buildInsightsReport(envelopes) ==
  LET es == Ordered(envelopes)
      members == Buckets(es, "member")
      MaxInput(m) == LET ins == {e.input : e \in ToSet(Of(es, "member", m))}
                     IN CHOOSE n \in ins : \A k \in ins : k <= n
      Ratio(m) == RatioOf(Ratios(Of(es, "member", m)))
      Cost(m) == members[m].cost
      reported == SelectSeq(es, LAMBDA e : e.util # Absent)
      util == SortSeq([i \in DOMAIN reported |-> reported[i].util], <)
  IN [count |-> Len(es), total |-> Group(es),
      byMember |-> members, byModel |-> Buckets(es, "model"),
      topCost |-> Ranking(es, [m \in {n \in DOMAIN members : Cost(n) > 0} |-> Cost(m)]),
      topContext |-> Ranking(es, [m \in DOMAIN members |-> MaxInput(m)]),
      highestOutputRatio |-> Ranking(Ratios(es), [m \in {n \in DOMAIN members : Ratio(n) > 0} |-> Ratio(m)]),
      contextUtil |-> IF util = <<>> THEN Null
                      ELSE <<percentile(util, 50), percentile(util, 90), percentile(util, 99)>>,
      costTrend |-> costTrend(es)]

\* The answer of the insights query.
insights == buildInsightsReport(readTraceEnvelopes)

-----------------------------------------------------------------------------
(* The trace store.                                                        *)

Record(e) == Len(traces) < MaxLines /\ traces' = Append(traces, e)
Tear == Len(traces) < MaxLines /\ traces' = Append(traces, Torn)

Next == (\E e \in Envelope : Record(e)) \/ Tear

Spec == Init /\ [][Next]_traces

-----------------------------------------------------------------------------

\* Whatever lines are torn and however timestamps are out of order, a report
\* accounts for every readable run once: its groups add up to its total by
\* member and by model; its halves add up to its cost, the first being that of
\* the earliest runs; its percentiles rise through reported values; and the cost
\* ranking leaves out nobody heavier than one it shows.
ReportAddsUp ==
  LET es == readTraceEnvelopes
      r == insights
      Sum(groups, f) == MapThenSumSet(LAMBDA k : groups[k][f], DOMAIN groups)
  IN /\ r.count = Len(es)
     /\ \A f \in {"input", "output", "cost"} : r.total[f] = Total(es, f)
     /\ \A f \in DOMAIN r.total :
          Sum(r.byMember, f) = r.total[f] /\ Sum(r.byModel, f) = r.total[f]
     /\ r.costTrend # Null =>
          /\ r.costTrend[1].first + r.costTrend[1].second = r.total.cost
          /\ \E early \in kSubset(Len(es) \div 2, DOMAIN es) :
               /\ \A i \in early, j \in DOMAIN es \ early : es[i].timestamp <= es[j].timestamp
               /\ r.costTrend[1].first = MapThenSumSet(LAMBDA i : es[i].cost, early)
     /\ r.contextUtil # Null =>
          /\ r.contextUtil[1] <= r.contextUtil[2] /\ r.contextUtil[2] <= r.contextUtil[3]
          /\ ToSet(r.contextUtil) \subseteq {e.util : e \in ToSet(es)} \ {Absent}
     /\ \A m \in ToSet(r.topCost), n \in DOMAIN r.byMember \ ToSet(r.topCost) :
          r.byMember[m].cost >= r.byMember[n].cost
=============================================================================
