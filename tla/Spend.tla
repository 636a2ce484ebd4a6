-------------------------------- MODULE Spend --------------------------------
(***************************************************************************)
(* What LLM calls cost, and the page that shows it:                        *)
(*   src/server.ts (the member-event chain)     mirrors and counts a call   *)
(*   src/session/costUsage.ts, src/api/cost.ts  one-shot backfill, history  *)
(*   dashboard/src/hooks/useCostHistory.ts      load, poll and refresh      *)
(*   dashboard/src/app/cost/aggregation.ts      rollups of what is shown    *)
(* for one tenant, one run at a time and one page.                          *)
(*                                                                         *)
(* A reasoning event is appended to its session's aggregate, which keeps   *)
(* the last `Tail300' of them, and is counted afterwards, also when the    *)
(* append lost its compare-and-set and was dropped.  The events from       *)
(* before there was a counter are counted by a backfill that every history *)
(* request awaits; the history it then reads is a window of days.          *)
(***************************************************************************)
EXTENDS Integers, Sequences, FiniteSets, FiniteSetsExt, SequencesExt

CONSTANTS
  Call,          \* reasoning events with usage
  Legacy,        \* those mirrored before the counter, oldest first
  Tail300,       \* memberEvents an aggregate keeps
  DayOf, AgentOf, CostOf,  \* what a call is counted under, and for how much
  MonthOf,       \* the calendar: the first day of a day's month
  LegendSize,    \* MAX_LEGEND_AGENTS
  WindowDays,    \* HISTORY_WINDOW_DAYS
  Today,         \* the day it is at first
  MaxTries,      \* attempts of the page's first load
  MaxMidnights,  \* bound: days that end
  MaxFailures    \* bound: store calls that fail

ASSUME SpendAssumption ==
  /\ IsFiniteSet(Call)
  /\ Legacy \in Seq(Call) /\ Len(Legacy) <= Tail300 /\ IsInjective(Legacy)
  /\ DayOf \in [Call -> Nat] /\ CostOf \in [Call -> Nat] /\ DOMAIN AgentOf = Call
  /\ MonthOf \in [Range(DayOf) -> Nat]
  /\ Tail300 \in Nat \ {0} /\ MaxTries \in Nat \ {0}
  /\ WindowDays \in Nat \ {0} /\ Today \in Nat
  /\ LegendSize \in Nat /\ MaxFailures \in Nat /\ MaxMidnights \in Nat

VARIABLES
  emitted,   \* the calls made
  chain,     \* calls still to be mirrored and counted, in order
  halfway,   \* the head of the chain has been mirrored, or dropped
  mirrored,  \* the aggregate's memberEvents
  counter,   \* daily_cost_buckets: how often each call is counted
  fill,      \* the backfill in flight
  request,   \* the page's fetches: on load, by the interval, by hand
  tries,     \* attempts of the load so far
  shown,     \* the rows on the page
  hidden,    \* document.hidden
  today,     \* the daemon's day, in UTC
  failures,  \* bound: store calls that failed
  raced,     \* history: what the backfill listed that the chain counts as well
  left       \* history: what a backfill had listed and not yet written when it failed

daemon == <<emitted, chain, halfway, mirrored>>
store == <<counter, fill>>
page == <<request, tries, shown, hidden>>
history == <<raced, left>>
vars == <<daemon, store, page, today, failures, history>>

Fetch == {"load", "tick", "refresh"}
NoFill == [pc |-> "none", todo |-> <<>>]
Uncounted == [c \in Call |-> 0]
Asleep == [pc |-> "none", day |-> 0, rows |-> Uncounted]

Init ==
  /\ emitted = Range(Legacy) /\ chain = <<>> /\ halfway = FALSE /\ mirrored = Legacy
  /\ counter = Uncounted /\ fill = NoFill
  /\ request = [f \in Fetch |-> IF f = "load" THEN [Asleep EXCEPT !.pc = "sent"] ELSE Asleep]
  /\ tries = 0 /\ shown = Uncounted /\ hidden = FALSE
  /\ today = Today /\ failures = 0 /\ raced = {} /\ left = {}

Fails == failures < MaxFailures /\ failures' = failures + 1
Succeeds == UNCHANGED failures

-----------------------------------------------------------------------------
(* The run: each event is mirrored, then counted, on one chain.            *)

Emit(c) ==
  /\ c \notin emitted
  /\ emitted' = emitted \cup {c}
  /\ chain' = Append(chain, c)
  /\ UNCHANGED <<halfway, mirrored, store, page, today, failures, history>>

\* The append commits, or loses to another write of the session and is dropped.
Mirror ==
  /\ chain # <<>> /\ ~halfway
  /\ halfway' = TRUE
  /\ \/ LET all == Append(mirrored, Head(chain))
        IN mirrored' = SubSeq(all, Max({1, Len(all) - Tail300 + 1}), Len(all))
     \/ UNCHANGED mirrored
  /\ UNCHANGED <<emitted, chain, store, page, today, failures, history>>

\* A store that fails under it rejects the link, and the call is not counted.
MirrorFails ==
  /\ chain # <<>> /\ ~halfway /\ Fails
  /\ chain' = Tail(chain)
  /\ UNCHANGED <<emitted, halfway, mirrored, store, page, today, history>>

\* recordCostUsage, whose failure is swallowed.
Count ==
  /\ chain # <<>> /\ halfway
  /\ halfway' = FALSE /\ chain' = Tail(chain)
  /\ \/ counter' = [counter EXCEPT ![Head(chain)] = @ + 1] /\ Succeeds
     \/ Fails /\ UNCHANGED counter
  /\ UNCHANGED <<emitted, mirrored, fill, page, today, history>>

-----------------------------------------------------------------------------
(* GET /cost/history.                                                      *)

\* Mutant: every request starts a backfill of its own.
ArriveAlone(f) ==
  /\ request[f].pc = "sent"
  /\ request' = [request EXCEPT ![f] = [@ EXCEPT !.pc = "waiting", !.day = today]]
  /\ fill' = [pc |-> "check", todo |-> fill.todo]
  /\ UNCHANGED <<daemon, counter, tries, shown, hidden, today, failures, history>>

\* The window is fixed, by the day it is; then ensureCostBackfill: one backfill at a
\* time, shared by the requests that find it.
Arrive(f) ==
  /\ request[f].pc = "sent"
  /\ request' = [request EXCEPT ![f] = [@ EXCEPT !.pc = "waiting", !.day = today]]
  /\ fill' = IF fill = NoFill THEN [fill EXCEPT !.pc = "check"] ELSE fill
  /\ UNCHANGED <<daemon, counter, tries, shown, hidden, today, failures, history>>

\* The backfill settles: it is forgotten, and its requests go on or fail.
Settle(pc) ==
  /\ fill' = NoFill
  /\ request' = [f \in Fetch |->
       IF request[f].pc = "waiting" THEN [request[f] EXCEPT !.pc = pc] ELSE request[f]]

\* A counter that has rows is never touched.
FillCheck ==
  /\ fill.pc = "check"
  /\ IF counter # Uncounted THEN Settle("reading")
     ELSE fill' = [fill EXCEPT !.pc = "list"] /\ UNCHANGED request
  /\ UNCHANGED <<daemon, counter, tries, shown, hidden, today, failures, history>>

FillList ==
  /\ fill.pc = "list"
  /\ fill' = [pc |-> "write", todo |-> mirrored]
  /\ raced' = {c \in Range(mirrored) : c \in Range(chain) \/ counter[c] > 0}
  /\ left' = {}
  /\ UNCHANGED <<daemon, counter, page, today, failures>>

FillWrite ==
  /\ fill.pc = "write"
  /\ IF fill.todo = <<>> THEN Settle("reading") /\ UNCHANGED counter
     ELSE /\ counter' = [counter EXCEPT ![Head(fill.todo)] = @ + 1]
          /\ fill' = [fill EXCEPT !.todo = Tail(@)]
          /\ UNCHANGED request
  /\ UNCHANGED <<daemon, tries, shown, hidden, today, failures, history>>

\* A failing call ends it; what it has written stays.
FillFails ==
  /\ fill.pc \in {"check", "list", "write"} /\ Fails
  /\ Settle("failed")
  /\ left' = IF fill.pc = "write" THEN Range(fill.todo) ELSE left
  /\ UNCHANGED <<daemon, counter, tries, shown, hidden, today, raced>>

\* The page asks for no dates, and gets the last WindowDays days.
InWindow(c, day) == DayOf[c] \in day - (WindowDays - 1) .. day
Window(rows, day) == [c \in Call |-> IF InWindow(c, day) THEN rows[c] ELSE 0]

ReadRows(f) ==
  /\ request[f].pc = "reading"
  /\ \/ /\ request' = [request EXCEPT ![f] = [@ EXCEPT !.pc = "answered",
                                                      !.rows = Window(counter, request[f].day)]]
        /\ Succeeds
     \/ request' = [request EXCEPT ![f].pc = "failed"] /\ Fails
  /\ UNCHANGED <<daemon, store, tries, shown, hidden, today, history>>

-----------------------------------------------------------------------------
(* The page.                                                               *)

Show(f) ==
  /\ request[f].pc = "answered"
  /\ shown' = request[f].rows
  /\ request' = [request EXCEPT ![f] = Asleep]
  /\ UNCHANGED <<daemon, store, tries, hidden, today, failures, history>>

\* The load is tried again after a while, the others wait for their next turn.
KeepLastGood(f) ==
  /\ request[f].pc = "failed"
  /\ IF f = "load" /\ tries < MaxTries - 1
     THEN /\ request' = [request EXCEPT ![f].pc = "sent"]
          /\ tries' = tries + 1
     ELSE /\ request' = [request EXCEPT ![f] = Asleep]
          /\ UNCHANGED tries
  /\ UNCHANGED <<daemon, store, shown, hidden, today, failures, history>>

\* Mutant: a page that failed to load does not poll.
PollOnceLoaded ==
  /\ request["tick"] = Asleep /\ ~hidden
  /\ tries < MaxTries - 1
  /\ request' = [request EXCEPT !["tick"].pc = "sent"]
  /\ UNCHANGED <<daemon, store, tries, shown, hidden, today, failures, history>>

\* The interval: not while hidden, and not over a fetch of its own.
Poll ==
  /\ request["tick"] = Asleep /\ ~hidden
  /\ request' = [request EXCEPT !["tick"].pc = "sent"]
  /\ UNCHANGED <<daemon, store, tries, shown, hidden, today, failures, history>>

Refresh ==
  /\ request["refresh"] = Asleep
  /\ request' = [request EXCEPT !["refresh"].pc = "sent"]
  /\ UNCHANGED <<daemon, store, tries, shown, hidden, today, failures, history>>

Hide ==
  /\ hidden' = ~hidden
  /\ UNCHANGED <<daemon, store, request, tries, shown, today, failures, history>>

Midnight ==
  /\ today < Today + MaxMidnights
  /\ today' = today + 1
  /\ UNCHANGED <<daemon, store, page, failures, history>>

Next ==
  \/ \E c \in Call : Emit(c)
  \/ Mirror \/ MirrorFails \/ Count
  \/ FillCheck \/ FillList \/ FillWrite \/ FillFails
  \/ \E f \in Fetch : Arrive(f) \/ ReadRows(f) \/ Show(f) \/ KeepLastGood(f)
  \/ Poll \/ Refresh \/ Hide \/ Midnight

\* The daemon goes on, the store answers, a visible page polls.
Fairness ==
  /\ WF_vars(Mirror) /\ WF_vars(Count)
  /\ WF_vars(FillCheck \/ FillList \/ FillWrite)
  /\ \A f \in Fetch : WF_vars(Arrive(f) \/ ReadRows(f) \/ Show(f) \/ KeepLastGood(f))
  /\ WF_vars(Poll)

Spec == Init /\ [][Next]_vars /\ Fairness

-----------------------------------------------------------------------------
(* Rollups of the rows: a row is a day's spend of an agent.                 *)

\* bucketRows: per day and agent.
SpendOf(rows, day, agent) ==
  SumFunction([c \in {x \in Call : DayOf[x] = day /\ AgentOf[x] = agent} |->
                 rows[c] * CostOf[c]])

bucketRows(rows) ==
  [d \in {DayOf[c] : c \in {x \in Call : rows[x] > 0}} |->
    [a \in {AgentOf[c] : c \in {x \in Call : rows[x] > 0 /\ DayOf[x] = d}} |->
      SpendOf(rows, d, a)]]

\* Days are counted from the epoch, a Thursday; weeks begin on Monday.
weekStartOf(day) == day - ((day + 3) % 7)

KeyOf(granularity, day) ==
  CASE granularity = "daily" -> day
    [] granularity = "weekly" -> weekStartOf(day)
    [] granularity = "monthly" -> MonthOf[day]

\* Mutant: a bucket takes an agent's last day instead of their sum.
AggregateLast(buckets, granularity) ==
  LET days(k) == {d \in DOMAIN buckets : KeyOf(granularity, d) = k} IN
  [k \in {KeyOf(granularity, d) : d \in DOMAIN buckets} |->
    [a \in UNION {DOMAIN buckets[d] : d \in days(k)} |->
      LET last == Max({d \in days(k) : a \in DOMAIN buckets[d]}) IN buckets[last][a]]]

aggregateBuckets(buckets, granularity) ==
  LET days(k) == {d \in DOMAIN buckets : KeyOf(granularity, d) = k} IN
  [k \in {KeyOf(granularity, d) : d \in DOMAIN buckets} |->
    [a \in UNION {DOMAIN buckets[d] : d \in days(k)} |->
      SumFunction([d \in {x \in days(k) : a \in DOMAIN buckets[x]} |-> buckets[d][a]])]]

AgentTotal(buckets, a) ==
  SumFunction([d \in {x \in DOMAIN buckets : a \in DOMAIN buckets[x]} |-> buckets[d][a]])

\* rankAgents and splitLegend: the dearest LegendSize agents, the rest in one sum.
splitLegend(buckets) ==
  LET agents == UNION {DOMAIN buckets[d] : d \in DOMAIN buckets}
      visible == CHOOSE top \in kSubset(Min({LegendSize, Cardinality(agents)}), agents) :
        \A a \in top, b \in agents \ top : AgentTotal(buckets, a) >= AgentTotal(buckets, b)
  IN [visible |-> visible,
      overflow |-> SumFunction([a \in agents \ visible |-> AgentTotal(buckets, a)])]

-----------------------------------------------------------------------------
(* What is checked.                                                        *)

SpendTypeOK ==
  /\ emitted \subseteq Call /\ chain \in Seq(Call) /\ halfway \in BOOLEAN
  /\ mirrored \in Seq(Call) /\ Len(mirrored) <= Tail300
  /\ counter \in [Call -> 0..2] /\ fill.todo \in Seq(Call)
  /\ \A f \in Fetch : request[f].pc \in
       {"none", "sent", "waiting", "reading", "answered", "failed"}
  /\ tries \in 0..MaxTries - 1 /\ today \in Nat

\* Live increments and the backfill of the same table count a call once, but for
\* what the one backfill that writes found mirrored and the chain counts as well:
\* the call then between its mirror and its count, and those counted since the check.
CountedOnce == \A c \in Call : counter[c] > 1 => c \in raced

\* The header of backfillDailyCost ("can never double-count"): violated by a call
\* that is mirrored before the backfill lists and counted after.
NeverCountedTwice == \A c \in Call : counter[c] <= 1

Early == Range(Legacy)

\* A later call made the first row, so that no backfill was ever made.
Forestalled ==
  /\ \E c \in Call \ Early : counter[c] > 0
  /\ \A c \in Early : counter[c] = 0

\* What an answered history lacks of the earlier events that the store still holds
\* and its window takes: those that a failed backfill had not come to, for good if it
\* had written any; or all of them, if a run of this daemon was counted before the
\* first history was asked for.  Nobody is answered while a backfill is half-way.
HistoryIsComplete ==
  \A f \in Fetch, c \in Early \cap Range(mirrored) :
    /\ request[f].pc = "answered" /\ InWindow(c, request[f].day)
    /\ request[f].rows[c] = 0
    => c \in left \/ Forestalled

\* What the handler says of its table (cost.ts:142-143, "the table is exact"):
\* violated on either way out of HistoryIsComplete.
TableIsExact ==
  \A f \in Fetch, c \in Early \cap Range(mirrored) :
    request[f].pc = "answered" /\ InWindow(c, request[f].day) => request[f].rows[c] = 1

\* What a history has more than once, and what it has not at all, are known.
HistoryIsTrue == SpendTypeOK /\ CountedOnce /\ HistoryIsComplete

\* No rollup of what is shown gains or loses spend, whatever the granularity and
\* however the legend is cut.
SpendIsConserved ==
  LET buckets == bucketRows(shown)
      total == SumFunction([c \in Call |-> shown[c] * CostOf[c]])
  IN \A g \in {"daily", "weekly", "monthly"} :
       LET rolled == aggregateBuckets(buckets, g)
           legend == splitLegend(rolled)
       IN total = legend.overflow
                  + SumFunction([a \in legend.visible |-> AgentTotal(rolled, a)])

\* A page that stays visible comes to show the counter's last days, whatever
\* failed, and however its three fetches overtake one another and midnight.
PageCatchesUp == <>[]~hidden => <>[](shown = Window(counter, today))
=============================================================================
