------------------------------ MODULE SpendProofs ------------------------------
(***************************************************************************)
(* The cost counter, for any calls, any number of them from before the     *)
(* counter, and any interleaving of the run, the backfill and the page.    *)
(***************************************************************************)
EXTENDS Spend, FiniteSetTheorems, TLAPS

-----------------------------------------------------------------------------
(* Sequences that hold nothing twice.                                      *)

LEMMA AppendDistinct ==
  ASSUME NEW S, NEW s \in Seq(S), IsInjective(s), NEW x \in S, x \notin Range(s)
  PROVE  /\ Append(s, x) \in Seq(S) /\ IsInjective(Append(s, x))
         /\ Range(Append(s, x)) = Range(s) \cup {x}
<1> DEFINE t == Append(s, x)
           n == Len(s)
<1>1. /\ t \in Seq(S) /\ n \in Nat /\ Len(t) = n + 1 /\ t[n + 1] = x
      /\ \A i \in 1 .. n : t[i] = s[i]
  OBVIOUS
<1>2. DOMAIN t = 1 .. n + 1 /\ DOMAIN s = 1 .. n
  OBVIOUS
<1> HIDE DEF t, n
<1>3. \A i \in 1 .. n : s[i] # x
  BY <1>2 DEF Range
<1>4. IsInjective(t)
  <2> SUFFICES ASSUME NEW i \in 1 .. n + 1, NEW j \in 1 .. n + 1, t[i] = t[j] PROVE i = j
    BY <1>2 DEF IsInjective
  <2>1. CASE i \in 1 .. n /\ j \in 1 .. n
    <3>1. s[i] = s[j]
      BY <1>1, <2>1
    <3> QED
      BY <1>2, <2>1, <3>1 DEF IsInjective
  <2>2. CASE i = n + 1 \/ j = n + 1
    BY <1>1, <1>3, <2>2
  <2> QED
    BY <1>1, <2>1, <2>2
<1>5. Range(t) = Range(s) \cup {x}
  <2>1. ASSUME NEW y \in Range(t) PROVE y \in Range(s) \cup {x}
    <3>1. PICK i \in 1 .. n + 1 : y = t[i]
      BY <1>2 DEF Range
    <3>2. i = n + 1 \/ i \in 1 .. n
      BY <1>1
    <3> QED
      BY <1>1, <1>2, <3>1, <3>2 DEF Range
  <2>2. ASSUME NEW y \in Range(s) PROVE y \in Range(t)
    <3>1. PICK i \in 1 .. n : y = s[i]
      BY <1>2 DEF Range
    <3>2. y = t[i] /\ i \in 1 .. n + 1
      BY <1>1, <3>1
    <3> QED
      BY <1>2, <3>2 DEF Range
  <2>3. x \in Range(t)
    BY <1>1, <1>2 DEF Range
  <2> QED
    BY <2>1, <2>2, <2>3
<1> QED
  BY <1>1, <1>4, <1>5 DEF t

LEMMA TailDistinct ==
  ASSUME NEW S, NEW s \in Seq(S), IsInjective(s), s # <<>>
  PROVE  /\ Tail(s) \in Seq(S) /\ IsInjective(Tail(s)) /\ Head(s) \in S /\ Head(s) \in Range(s)
         /\ Range(Tail(s)) = Range(s) \ {Head(s)} /\ Len(Tail(s)) = Len(s) - 1
<1> DEFINE t == Tail(s)
           n == Len(s)
           h == Head(s)
<1>1. /\ t \in Seq(S) /\ n \in Nat \ {0} /\ Len(t) = n - 1 /\ h = s[1] /\ h \in S
      /\ \A i \in 1 .. n - 1 : t[i] = s[i + 1]
  OBVIOUS
<1>2. DOMAIN t = 1 .. n - 1 /\ DOMAIN s = 1 .. n
  OBVIOUS
<1> HIDE DEF t, n, h
<1>3. \A i, j \in 1 .. n : s[i] = s[j] => i = j
  BY <1>2 DEF IsInjective
<1>4. IsInjective(t)
  <2> SUFFICES ASSUME NEW i \in 1 .. n - 1, NEW j \in 1 .. n - 1, t[i] = t[j] PROVE i = j
    BY <1>2 DEF IsInjective
  <2>1. i + 1 \in 1 .. n /\ j + 1 \in 1 .. n /\ s[i + 1] = s[j + 1]
    BY <1>1
  <2> QED
    BY <1>3, <2>1
<1>5. Range(t) = Range(s) \ {h}
  <2>1. ASSUME NEW y \in Range(t) PROVE y \in Range(s) \ {h}
    <3>1. PICK i \in 1 .. n - 1 : y = t[i]
      BY <1>2 DEF Range
    <3>2. y = s[i + 1] /\ i + 1 \in 1 .. n /\ 1 \in 1 .. n /\ i + 1 # 1
      BY <1>1, <3>1
    <3>3. y # h
      BY <1>1, <1>3, <3>2
    <3> QED
      BY <1>2, <3>2, <3>3 DEF Range
  <2>2. ASSUME NEW y \in Range(s) \ {h} PROVE y \in Range(t)
    <3>1. PICK i \in 1 .. n : y = s[i]
      BY <1>2 DEF Range
    <3>2. i # 1
      BY <1>1, <3>1
    <3>3. i - 1 \in 1 .. n - 1 /\ (i - 1) + 1 = i
      BY <1>1, <3>2
    <3>4. y = t[i - 1]
      BY <1>1, <3>1, <3>3
    <3> QED
      BY <1>2, <3>3, <3>4 DEF Range
  <2> QED
    BY <2>1, <2>2
<1>6. h \in Range(s)
  BY <1>1, <1>2 DEF Range
<1> QED
  BY <1>1, <1>4, <1>5, <1>6 DEF t, h, n

LEMMA SuffixDistinct ==
  ASSUME NEW S, NEW s \in Seq(S), IsInjective(s), NEW k \in 1 .. Len(s)
  PROVE  LET t == SubSeq(s, k, Len(s)) IN
         /\ t \in Seq(S) /\ IsInjective(t) /\ Range(t) \subseteq Range(s)
         /\ Len(t) = Len(s) - k + 1
<1> DEFINE t == SubSeq(s, k, Len(s))
           n == Len(s)
           m == n - k + 1
<1>1. /\ t \in Seq(S) /\ n \in Nat /\ k \in 1 .. n /\ Len(t) = m
      /\ \A i \in 1 .. m : t[i] = s[k + i - 1]
  OBVIOUS
<1>2. DOMAIN t = 1 .. m /\ DOMAIN s = 1 .. n
  BY <1>1
<1> HIDE DEF t, n
<1>3. \A i \in 1 .. m : k + i - 1 \in 1 .. n
  BY <1>1
<1>4. IsInjective(t)
  <2> SUFFICES ASSUME NEW i \in 1 .. m, NEW j \in 1 .. m, t[i] = t[j] PROVE i = j
    BY <1>2 DEF IsInjective
  <2>1. s[k + i - 1] = s[k + j - 1] /\ k + i - 1 \in 1 .. n /\ k + j - 1 \in 1 .. n
    BY <1>1, <1>3
  <2>2. k + i - 1 = k + j - 1
    BY <1>2, <2>1 DEF IsInjective
  <2> QED
    BY <1>1, <2>2
<1>5. Range(t) \subseteq Range(s)
  <2> SUFFICES ASSUME NEW y \in Range(t) PROVE y \in Range(s)
    OBVIOUS
  <2>1. PICK i \in 1 .. m : y = t[i]
    BY <1>2 DEF Range
  <2>2. y = s[k + i - 1] /\ k + i - 1 \in DOMAIN s
    BY <1>1, <1>2, <1>3, <2>1
  <2> QED
    BY <2>2 DEF Range
<1> QED
  BY <1>1, <1>4, <1>5 DEF t, n

LEMMA MaxOfTwo ==
  ASSUME NEW a \in Int, NEW b \in Int
  PROVE  Max({a, b}) \in {a, b} /\ Max({a, b}) >= a /\ Max({a, b}) >= b
<1>1. \E x \in {a, b} : \A y \in {a, b} : x >= y
  OBVIOUS
<1> QED
  BY <1>1 DEF Max

-----------------------------------------------------------------------------
(* The invariant.                                                          *)

Request == [pc : {"none", "sent", "waiting", "reading", "answered", "failed"},
            day : Nat, rows : [Call -> 0 .. 2]]

Types ==
  /\ emitted \subseteq Call /\ chain \in Seq(Call) /\ halfway \in BOOLEAN
  /\ mirrored \in Seq(Call) /\ Len(mirrored) <= Tail300
  /\ counter \in [Call -> 0 .. 2]
  /\ fill \in [pc : {"none", "check", "list", "write"}, todo : Seq(Call)]
  /\ fill.pc # "write" => fill.todo = <<>>
  /\ request \in [Fetch -> Request]
  /\ tries \in 0 .. MaxTries - 1 /\ today \in Nat

\* A call is emitted once, mirrored once and counted live once, in that order.
Unmirrored == IF halfway THEN Tail(chain) ELSE chain

Passage ==
  /\ Early \subseteq emitted /\ Range(chain) \subseteq emitted /\ Range(mirrored) \subseteq emitted
  /\ Range(fill.todo) \subseteq emitted
  /\ IsInjective(chain) /\ IsInjective(mirrored) /\ IsInjective(fill.todo)
  /\ halfway => chain # <<>>
  /\ Early \cap Range(chain) = {}
  /\ Range(Unmirrored) \cap Range(mirrored) = {}

\* How often a call is counted by then: twice only if the one list that is written
\* met it in the chain or counted, and not before it has left the chain and the list.
Counted(c) ==
  /\ counter[c] > 1 => c \in raced
  /\ c \notin emitted => counter[c] = 0
  /\ c \in Range(chain) => counter[c] <= 1 /\ (counter[c] = 1 => c \in raced)
  /\ fill.pc = "list" => counter[c] <= 1 /\ (c \in Range(chain) => counter[c] = 0)
  /\ c \in Range(fill.todo) =>
       /\ counter[c] <= 1
       /\ counter[c] = 1 \/ c \in Range(chain) => c \in raced
       /\ c \in Range(chain) => counter[c] = 0

Counts == \A c \in Call : Counted(c)

Held == Early \cap Range(mirrored)
Known(c) == c \in left \/ Forestalled

\* What the backfill has done for the calls from before, and what a request that is
\* past it can rely on: its rows, if it has any, will not be added to under its hands.
Filled ==
  /\ fill.pc \in {"none", "check"} =>
       counter = Uncounted \/ \A c \in Held : counter[c] > 0 \/ Known(c)
  /\ fill.pc = "list" => \A c \in Early : counter[c] = 0
  /\ fill.pc = "write" => \A c \in Held : counter[c] > 0 \/ c \in Range(fill.todo)
  /\ \A f \in Fetch : request[f].pc \in {"reading", "answered"} =>
       Held = {} \/ (counter # Uncounted /\ fill.pc \in {"none", "check"})

Answered(r) ==
  r.pc = "answered" =>
    \A c \in Held : InWindow(c, r.day) => r.rows[c] > 0 \/ Known(c)

Answers == \A f \in Fetch : Answered(request[f])

HistoryInv == Types /\ Passage /\ Counts /\ Filled /\ Answers

-----------------------------------------------------------------------------
(* Requests of the page.                                                   *)

With(r, pc) == [r EXCEPT !.pc = pc]
Asked(r, d) == [r EXCEPT !.pc = "waiting", !.day = d]
Answer(r, rows) == [r EXCEPT !.pc = "answered", !.rows = rows]
Becomes(f, r) == request' = [request EXCEPT ![f] = r]

LEMMA WithIs ==
  ASSUME NEW r \in Request, NEW pc \in {"none", "sent", "waiting", "reading", "answered", "failed"}
  PROVE  /\ With(r, pc) \in Request /\ With(r, pc).pc = pc
         /\ With(r, pc).day = r.day /\ With(r, pc).rows = r.rows
BY DEF With, Request

LEMMA AskedIs ==
  ASSUME NEW r \in Request, NEW d \in Nat PROVE Asked(r, d) \in Request /\ Asked(r, d).pc = "waiting"
BY DEF Asked, Request

LEMMA AnswerIs ==
  ASSUME NEW r \in Request, NEW rows \in [Call -> 0 .. 2]
  PROVE  /\ Answer(r, rows) \in Request /\ Answer(r, rows).pc = "answered"
         /\ Answer(r, rows).day = r.day /\ Answer(r, rows).rows = rows
BY DEF Answer, Request

LEMMA WindowIs ==
  ASSUME NEW rows \in [Call -> 0 .. 2], NEW d
  PROVE  /\ Window(rows, d) \in [Call -> 0 .. 2]
         /\ \A c \in Call : InWindow(c, d) => Window(rows, d)[c] = rows[c]
BY DEF Window

LEMMA AsleepIs ==
  /\ Uncounted \in [Call -> 0 .. 2] /\ \A c \in Call : Uncounted[c] = 0
  /\ Asleep \in Request /\ Asleep.pc = "none"
BY DEF Uncounted, Asleep, Request

LEMMA RequestBecomes ==
  ASSUME Types, NEW f \in Fetch, NEW r \in Request, Becomes(f, r)
  PROVE  /\ request' \in [Fetch -> Request] /\ request'[f] = r
         /\ \A g \in Fetch : g # f => request'[g] = request[g]
<1>1. request \in [Fetch -> Request]
  BY DEF Types
<1> QED
  BY <1>1 DEF Becomes

LEMMA SettleIs ==
  ASSUME Types, NEW pc \in {"reading", "failed"}, Settle(pc)
  PROVE  /\ fill' = NoFill /\ request' \in [Fetch -> Request]
         /\ \A f \in Fetch :
              /\ request'[f].pc = "reading" => request[f].pc = "reading" \/ pc = "reading"
              /\ request'[f].pc = "answered" => request'[f] = request[f]
<1> DEFINE After(f) == IF request[f].pc = "waiting" THEN With(request[f], pc) ELSE request[f]
<1>1. request' = [f \in Fetch |-> After(f)] /\ fill' = NoFill
  BY DEF Settle, With
<1>2. request \in [Fetch -> Request]
  BY DEF Types
<1>3. ASSUME NEW f \in Fetch
      PROVE  /\ After(f) \in Request
             /\ After(f).pc = "reading" => request[f].pc = "reading" \/ pc = "reading"
             /\ After(f).pc = "answered" => After(f) = request[f]
  <2>1. request[f] \in Request
    BY <1>2
  <2>2. CASE request[f].pc = "waiting"
    <3>1. After(f) = With(request[f], pc)
      BY <2>2
    <3>2. After(f) \in Request /\ After(f).pc = pc
      BY <2>1, <3>1, WithIs
    <3> QED
      BY <3>2
  <2>3. CASE request[f].pc # "waiting"
    <3>1. After(f) = request[f]
      BY <2>3
    <3> HIDE DEF After
    <3> QED
      BY <2>1, <3>1
  <2> QED
    BY <2>2, <2>3
<1> HIDE DEF After
<1>4. request' \in [Fetch -> Request]
  BY <1>1, <1>3
<1>5. \A f \in Fetch : request'[f] = After(f)
  BY <1>1
<1> QED
  BY <1>1, <1>3, <1>4, <1>5

\* An answer that was given stays good while a call from before cannot be added.
LEMMA AnswersStay ==
  ASSUME Answers, Held' \subseteq Held, Held' # {} => left \subseteq left',
         Held' # {} /\ Forestalled => Forestalled',
         \A f \in Fetch : request'[f].pc = "answered" => request'[f] = request[f]
  PROVE  Answers'
<1> SUFFICES ASSUME NEW f \in Fetch, request'[f].pc = "answered" PROVE Answered(request[f])'
  BY DEF Answers, Answered
<1>1. request'[f] = request[f] /\ Answered(request[f])
  BY DEF Answers
<1> QED
  BY <1>1 DEF Answered, Known, InWindow

\* A step of the page alone: an answer is a window of the counter's rows.
LEMMA PageStep ==
  ASSUME HistoryInv, UNCHANGED <<daemon, store, history>>, today' \in Nat,
         request' \in [Fetch -> Request], tries' \in 0 .. MaxTries - 1,
         \A f \in Fetch :
           /\ request'[f].pc = "reading" => request[f].pc = "reading"
           /\ request'[f].pc = "answered" =>
                \/ request'[f] = request[f]
                \/ request[f].pc = "reading" /\ request'[f] = Answer(request[f], Window(counter, request[f].day))
  PROVE  HistoryInv'
<1>1. UNCHANGED <<emitted, chain, halfway, mirrored, counter, fill, raced, left>>
  BY DEF daemon, store, history
<1>2. Types'
  BY <1>1 DEF HistoryInv, Types
<1>3. Passage' /\ Counts'
  BY <1>1 DEF HistoryInv, Passage, Counts, Counted, Unmirrored
<1>4. Held' = Held /\ Forestalled' = Forestalled /\ \A c : Known(c)' = Known(c)
  BY <1>1 DEF Held, Forestalled, Known
<1>5. Filled'
  <2>1. ASSUME NEW f \in Fetch, request'[f].pc \in {"reading", "answered"}
        PROVE  Held = {} \/ (counter # Uncounted /\ fill.pc \in {"none", "check"})
    <3>1. request[f].pc \in {"reading", "answered"}
      BY <2>1
    <3> QED
      BY <3>1 DEF HistoryInv, Filled
  <2> QED
    BY <1>1, <1>4, <2>1 DEF HistoryInv, Filled
<1>6. Answers'
  <2> SUFFICES ASSUME NEW f \in Fetch, request'[f].pc = "answered", NEW c \in Held,
                      InWindow(c, request'[f].day)
               PROVE  request'[f].rows[c] > 0 \/ Known(c)
    BY <1>4 DEF Answers, Answered, InWindow
  <2>1. CASE request'[f] = request[f]
    BY <2>1 DEF HistoryInv, Answers, Answered
  <2>2. CASE /\ request[f].pc = "reading"
             /\ request'[f] = Answer(request[f], Window(counter, request[f].day))
    <3>1. request[f] \in Request /\ counter \in [Call -> 0 .. 2] /\ c \in Call
      BY DEF HistoryInv, Types, Passage, Held
    <3>2. /\ request'[f].rows = Window(counter, request[f].day)
          /\ request'[f].day = request[f].day
      BY <2>2, <3>1, AnswerIs, WindowIs
    <3>3. request'[f].rows[c] = counter[c]
      BY <3>1, <3>2, WindowIs
    <3>4. counter[c] > 0 \/ Known(c)
      BY <2>2 DEF HistoryInv, Filled
    <3> QED
      BY <3>3, <3>4
  <2> QED
    BY <2>1, <2>2
<1> QED
  BY <1>2, <1>3, <1>5, <1>6 DEF HistoryInv

-----------------------------------------------------------------------------
(* The page.                                                               *)

LEMMA ReadRowsHolds ==
  ASSUME HistoryInv, NEW f \in Fetch, ReadRows(f) PROVE HistoryInv'
<1>1. Types /\ request[f] \in Request /\ counter \in [Call -> 0 .. 2]
  BY DEF HistoryInv, Types
<1>2. request[f].pc = "reading" /\ UNCHANGED <<daemon, store, history, tries, today>>
  BY DEF ReadRows
<1> DEFINE rows == Window(counter, request[f].day)
<1>3. CASE request' = [request EXCEPT ![f] = [@ EXCEPT !.pc = "answered", !.rows = rows]]
  <2> DEFINE r == Answer(request[f], rows)
  <2>1. Becomes(f, r)
    BY <1>3 DEF Becomes, Answer
  <2>2. r \in Request
    BY <1>1, AnswerIs, WindowIs
  <2>3. r = Answer(request[f], Window(counter, request[f].day))
    OBVIOUS
  <2> HIDE DEF r, rows
  <2>4. /\ request' \in [Fetch -> Request] /\ request'[f] = r
        /\ \A g \in Fetch : g # f => request'[g] = request[g]
    BY <1>1, <2>1, <2>2, RequestBecomes
  <2>5. r.pc = "answered"
    BY <1>1, <2>3, AnswerIs, WindowIs
  <2> QED
    BY <1>1, <1>2, <2>3, <2>4, <2>5, PageStep DEF Types
<1>4. CASE request' = [request EXCEPT ![f].pc = "failed"]
  <2> DEFINE r == With(request[f], "failed")
  <2>1. Becomes(f, r)
    BY <1>4 DEF Becomes, With
  <2>2. r \in Request /\ r.pc = "failed"
    BY <1>1, WithIs
  <2> HIDE DEF r
  <2>3. /\ request' \in [Fetch -> Request] /\ request'[f] = r
        /\ \A g \in Fetch : g # f => request'[g] = request[g]
    BY <1>1, <2>1, <2>2, RequestBecomes
  <2> QED
    BY <1>1, <1>2, <2>2, <2>3, PageStep DEF Types
<1> QED
  BY <1>3, <1>4 DEF ReadRows

\* A fetch that is sent, or forgotten.
LEMMA FetchRests ==
  ASSUME HistoryInv, NEW f \in Fetch, NEW r \in Request, r.pc \in {"none", "sent"}, Becomes(f, r),
         tries' \in 0 .. MaxTries - 1, UNCHANGED <<daemon, store, history, today>>
  PROVE  HistoryInv'
<1>1. /\ request' \in [Fetch -> Request] /\ request'[f] = r
      /\ \A g \in Fetch : g # f => request'[g] = request[g]
  BY RequestBecomes DEF HistoryInv
<1>2. today' \in Nat
  BY DEF HistoryInv, Types
<1> QED
  BY <1>1, <1>2, PageStep

LEMMA ShowHolds ==
  ASSUME HistoryInv, NEW f \in Fetch, Show(f) PROVE HistoryInv'
<1>1. Becomes(f, Asleep) /\ UNCHANGED <<daemon, store, history, tries, today>>
  BY DEF Show, Becomes
<1> QED
  BY <1>1, AsleepIs, FetchRests DEF HistoryInv, Types

LEMMA KeepLastGoodHolds ==
  ASSUME SpendAssumption, HistoryInv, NEW f \in Fetch, KeepLastGood(f) PROVE HistoryInv'
<1>1. UNCHANGED <<daemon, store, history, today>> /\ tries \in 0 .. MaxTries - 1 /\ request[f] \in Request
  BY DEF KeepLastGood, HistoryInv, Types
<1>2. CASE f = "load" /\ tries < MaxTries - 1
  <2> DEFINE r == With(request[f], "sent")
  <2>1. Becomes(f, r) /\ tries' = tries + 1
    BY <1>2 DEF KeepLastGood, Becomes, With
  <2>2. r \in Request /\ r.pc = "sent"
    BY <1>1, WithIs
  <2>3. tries' \in 0 .. MaxTries - 1
    BY <1>1, <1>2, <2>1 DEF SpendAssumption
  <2> HIDE DEF r
  <2> QED
    BY <1>1, <2>1, <2>2, <2>3, FetchRests
<1>3. CASE ~(f = "load" /\ tries < MaxTries - 1)
  <2>1. Becomes(f, Asleep) /\ tries' = tries
    BY <1>3 DEF KeepLastGood, Becomes
  <2> QED
    BY <1>1, <2>1, AsleepIs, FetchRests
<1> QED
  BY <1>2, <1>3

LEMMA SendHolds ==
  ASSUME HistoryInv, Poll \/ Refresh PROVE HistoryInv'
<1>1. PICK f \in Fetch : request' = [request EXCEPT ![f].pc = "sent"]
  <2>1. "tick" \in Fetch /\ "refresh" \in Fetch
    BY DEF Fetch
  <2> QED
    BY <2>1 DEF Poll, Refresh
<1>2. UNCHANGED <<daemon, store, history, tries, today>>
  BY DEF Poll, Refresh
<1>3. request[f] \in Request /\ tries \in 0 .. MaxTries - 1
  BY DEF HistoryInv, Types
<1> DEFINE r == With(request[f], "sent")
<1>4. Becomes(f, r)
  BY <1>1 DEF Becomes, With
<1>5. r \in Request /\ r.pc = "sent"
  BY <1>3, WithIs
<1> HIDE DEF r
<1> QED
  BY <1>2, <1>3, <1>4, <1>5, FetchRests

LEMMA HideHolds ==
  ASSUME HistoryInv, Hide PROVE HistoryInv'
<1>1. UNCHANGED <<daemon, store, history, request, tries, today>>
  BY DEF Hide
<1> QED
  BY <1>1, PageStep DEF HistoryInv, Types


-----------------------------------------------------------------------------
(* The run.                                                                *)

LEMMA NoFillIs ==
  /\ NoFill.pc = "none" /\ NoFill.todo = <<>> /\ Range(NoFill.todo) = {}
  /\ NoFill \in [pc : {"none", "check", "list", "write"}, todo : Seq(Call)]
  /\ IsInjective(NoFill.todo)
<1>1. NoFill.pc = "none" /\ NoFill.todo = <<>> /\ <<>> \in Seq(Call) /\ DOMAIN <<>> = {}
  BY DEF NoFill
<1>2. Range(<<>>) = {} /\ IsInjective(<<>>)
  BY <1>1 DEF Range, IsInjective
<1>3. NoFill \in [pc : {"none", "check", "list", "write"}, todo : Seq(Call)]
  BY DEF NoFill
<1> QED
  BY <1>1, <1>2, <1>3

\* The run adds to no row of a call from before, and the store holds no more of them.
LEMMA RunStep ==
  ASSUME HistoryInv, UNCHANGED <<fill, request, left>>, Held' \subseteq Held,
         \A c \in Early : counter'[c] = counter[c],
         Forestalled => Forestalled',
         counter = Uncounted => counter' = Uncounted \/ Forestalled',
         counter' = Uncounted => counter = Uncounted
  PROVE  Filled' /\ Answers'
<1>1. Held \subseteq Early /\ Filled /\ Answers
  BY DEF Held, HistoryInv
<1>2. \A c : Known(c) => Known(c)'
  BY DEF Known
<1>3. Answers'
  BY <1>1, AnswersStay
<1>4. fill.pc \in {"none", "check"} =>
        counter' = Uncounted \/ \A c \in Held' : counter'[c] > 0 \/ Known(c)'
  <2>1. CASE counter = Uncounted
    BY <2>1 DEF Known
  <2>2. CASE counter # Uncounted
    BY <1>1, <1>2, <2>2 DEF Filled
  <2> QED
    BY <2>1, <2>2
<1>5. fill.pc = "list" => \A c \in Early : counter'[c] = 0
  BY <1>1 DEF Filled
<1>6. fill.pc = "write" => \A c \in Held' : counter'[c] > 0 \/ c \in Range(fill.todo)
  BY <1>1 DEF Filled
<1>7. \A f \in Fetch : request[f].pc \in {"reading", "answered"} =>
        Held' = {} \/ (counter' # Uncounted /\ fill.pc \in {"none", "check"})
  BY <1>1 DEF Filled
<1>8. Filled'
  BY <1>4, <1>5, <1>6, <1>7 DEF Filled
<1> QED
  BY <1>3, <1>8

LEMMA EmitHolds ==
  ASSUME SpendAssumption, HistoryInv, NEW c \in Call, Emit(c) PROVE HistoryInv'
<1>1. Types /\ Passage /\ Counts
  BY DEF HistoryInv
<1>2. /\ c \notin emitted /\ emitted' = emitted \cup {c} /\ chain' = Append(chain, c)
      /\ UNCHANGED <<halfway, mirrored, counter, fill, request, tries, today, raced, left>>
  BY DEF Emit, store, page, history
<1>3. c \notin Range(chain) /\ c \notin Range(mirrored) /\ c \notin Early /\ counter[c] = 0
      /\ c \notin Range(fill.todo)
  BY <1>1, <1>2 DEF Passage, Counts, Counted
<1>4. chain \in Seq(Call) /\ IsInjective(chain)
  BY <1>1 DEF Types, Passage
<1>5. chain' \in Seq(Call) /\ IsInjective(chain') /\ Range(chain') = Range(chain) \cup {c}
  BY <1>2, <1>3, <1>4, AppendDistinct
<1>6. Types'
  BY <1>1, <1>2, <1>5 DEF Types
<1>7. Range(Unmirrored') \subseteq Range(Unmirrored) \cup {c}
  <2>1. CASE ~halfway
    BY <1>2, <1>5, <2>1 DEF Unmirrored
  <2>2. CASE halfway
    <3>1. chain # <<>>
      BY <1>1, <2>2 DEF Passage
    <3>2. chain' # <<>> /\ Head(chain') = Head(chain)
      BY <1>2, <1>4, <3>1
    <3>3. Range(Tail(chain')) = Range(chain') \ {Head(chain')}
      BY <1>5, <3>2, TailDistinct
    <3>4. Range(Tail(chain)) = Range(chain) \ {Head(chain)}
      BY <1>4, <3>1, TailDistinct
    <3> QED
      BY <1>2, <1>5, <2>2, <3>2, <3>3, <3>4 DEF Unmirrored
  <2> QED
    BY <2>1, <2>2
<1>8. Passage'
  <2>1. chain' # <<>>
    BY <1>2, <1>4
  <2> QED
    BY <1>1, <1>2, <1>3, <1>5, <1>7, <2>1 DEF Passage
<1>9. Counts'
  <2>1. ASSUME NEW d \in Call PROVE Counted(d)'
    <3>1. Counted(d)
      BY <1>1 DEF Counts
    <3>2. CASE d = c
      BY <1>2, <1>3, <3>2 DEF Counted
    <3>3. CASE d # c
      BY <1>2, <1>5, <3>1, <3>3 DEF Counted
    <3> QED
      BY <3>2, <3>3
  <2> QED
    BY <2>1 DEF Counts
<1>10. Held' = Held /\ Forestalled' = Forestalled
  BY <1>2 DEF Held, Forestalled
<1>11. Filled' /\ Answers'
  BY <1>2, <1>10, RunStep
<1> QED
  BY <1>6, <1>8, <1>9, <1>11 DEF HistoryInv

LEMMA MirrorHolds ==
  ASSUME SpendAssumption, HistoryInv, Mirror PROVE HistoryInv'
<1>1. Types /\ Passage /\ Counts
  BY DEF HistoryInv
<1> DEFINE h == Head(chain)
           all == Append(mirrored, h)
           k == Max({1, Len(all) - Tail300 + 1})
<1>2. /\ chain # <<>> /\ ~halfway /\ halfway' = TRUE
      /\ mirrored' = SubSeq(all, k, Len(all)) \/ mirrored' = mirrored
      /\ UNCHANGED <<emitted, chain, counter, fill, request, tries, today, raced, left>>
  BY DEF Mirror, store, page, history
<1>3. /\ chain \in Seq(Call) /\ mirrored \in Seq(Call) /\ Len(mirrored) <= Tail300
      /\ IsInjective(chain) /\ IsInjective(mirrored) /\ Range(chain) \cap Range(mirrored) = {}
  BY <1>1, <1>2 DEF Types, Passage, Unmirrored
<1>4. h \in Call /\ h \in Range(chain) /\ Range(Tail(chain)) = Range(chain) \ {h}
  BY <1>2, <1>3, TailDistinct
<1>5. all \in Seq(Call) /\ IsInjective(all) /\ Range(all) = Range(mirrored) \cup {h}
  <2>1. h \notin Range(mirrored)
    BY <1>3, <1>4
  <2> HIDE DEF h
  <2> QED
    BY <1>3, <1>4, <2>1, AppendDistinct
<1>6. Len(all) \in Nat \ {0}
  <2> HIDE DEF h
  <2> QED
    BY <1>3, <1>4
<1> HIDE DEF all, h
<1>7. k \in 1 .. Len(all) /\ Len(all) - k + 1 <= Tail300
  <2>1. Tail300 \in Nat \ {0}
    BY DEF SpendAssumption
  <2> DEFINE m == Len(all) - Tail300 + 1
  <2>2. m \in Int /\ m <= Len(all) /\ k = Max({1, m})
    BY <1>6, <2>1
  <2> HIDE DEF m, k
  <2>3. Max({1, m}) \in {1, m} /\ Max({1, m}) >= 1 /\ Max({1, m}) >= m
    <3>1. 1 \in Int
      OBVIOUS
    <3> QED
      BY <2>2, <3>1, MaxOfTwo
  <2> QED
    BY <1>6, <2>1, <2>2, <2>3 DEF m
<1> HIDE DEF k
<1>8. /\ mirrored' \in Seq(Call) /\ IsInjective(mirrored') /\ Len(mirrored') <= Tail300
      /\ Range(mirrored') \subseteq Range(mirrored) \cup {h}
  <2>1. CASE mirrored' = mirrored
    BY <1>3, <2>1
  <2>2. CASE mirrored' = SubSeq(all, k, Len(all))
    <3> DEFINE t == SubSeq(all, k, Len(all))
    <3>1. t \in Seq(Call) /\ IsInjective(t) /\ Range(t) \subseteq Range(all) /\ Len(t) = Len(all) - k + 1
      BY <1>5, <1>7, SuffixDistinct
    <3>2. mirrored' = t
      BY <2>2
    <3> HIDE DEF t
    <3> QED
      BY <1>5, <1>7, <3>1, <3>2
  <2> QED
    BY <1>2, <2>1, <2>2
<1>9. Types'
  BY <1>1, <1>2, <1>8 DEF Types
<1>10. Passage'
  <2>1. Range(Unmirrored') = Range(chain) \ {h}
    BY <1>2, <1>4 DEF Unmirrored
  <2> QED
    BY <1>1, <1>2, <1>3, <1>4, <1>8, <2>1 DEF Passage
<1>11. Counts'
  BY <1>1, <1>2 DEF Counts, Counted
<1>12. Filled' /\ Answers'
  <2>1. Held' \subseteq Held
    BY <1>1, <1>4, <1>8 DEF Passage, Held
  <2>2. Forestalled' = Forestalled
    BY <1>2 DEF Forestalled
  <2> QED
    BY <1>2, <2>1, <2>2, RunStep
<1> QED
  BY <1>9, <1>10, <1>11, <1>12 DEF HistoryInv

LEMMA MirrorFailsHolds ==
  ASSUME SpendAssumption, HistoryInv, MirrorFails PROVE HistoryInv'
<1>1. Types /\ Passage /\ Counts
  BY DEF HistoryInv
<1>2. /\ chain # <<>> /\ ~halfway /\ chain' = Tail(chain)
      /\ UNCHANGED <<emitted, halfway, mirrored, counter, fill, request, tries, today, raced, left>>
  BY DEF MirrorFails, store, page, history
<1>3. chain \in Seq(Call) /\ IsInjective(chain)
  BY <1>1 DEF Types, Passage
<1>4. chain' \in Seq(Call) /\ IsInjective(chain') /\ Range(chain') \subseteq Range(chain)
  BY <1>2, <1>3, TailDistinct
<1>5. Types'
  BY <1>1, <1>2, <1>4 DEF Types
<1>6. Passage'
  <2>1. Range(Unmirrored') \subseteq Range(Unmirrored)
    BY <1>2, <1>4 DEF Unmirrored
  <2> QED
    BY <1>1, <1>2, <1>4, <2>1 DEF Passage
<1>7. Counts'
  BY <1>1, <1>2, <1>4 DEF Counts, Counted
<1>8. Held' = Held /\ Forestalled' = Forestalled
  BY <1>2 DEF Held, Forestalled
<1>9. Filled' /\ Answers'
  BY <1>2, <1>8, RunStep
<1> QED
  BY <1>5, <1>6, <1>7, <1>9 DEF HistoryInv

\* A call's row gains one.
Adds(c) == counter' = [counter EXCEPT ![c] = @ + 1]

LEMMA AddsOne ==
  ASSUME counter \in [Call -> 0 .. 2], NEW c \in Call, Adds(c), counter[c] <= 1
  PROVE  /\ counter' \in [Call -> 0 .. 2] /\ counter'[c] = counter[c] + 1
         /\ \A d \in Call : d # c => counter'[d] = counter[d]
BY DEF Adds

LEMMA RowsGrow ==
  ASSUME counter \in [Call -> 0 .. 2], NEW c \in Call,
         counter'[c] = counter[c] + 1 \/ counter'[c] = counter[c],
         \A d \in Call : d # c => counter'[d] = counter[d]
  PROVE  \A d \in Call : counter[d] > 0 => counter'[d] > 0
<1> SUFFICES ASSUME NEW d \in Call, counter[d] > 0 PROVE counter'[d] > 0
  OBVIOUS
<1>1. counter[d] \in 0 .. 2
  OBVIOUS
<1>2. CASE d = c
  <2>1. counter'[d] = counter[d] + 1 \/ counter'[d] = counter[d]
    BY <1>2
  <2> QED
    BY <1>1, <2>1
<1>3. CASE d # c
  <2>1. counter'[d] = counter[d]
    BY <1>3
  <2> QED
    BY <2>1
<1> QED
  BY <1>2, <1>3

LEMMA CountHolds ==
  ASSUME SpendAssumption, HistoryInv, Count PROVE HistoryInv'
<1>1. Types /\ Passage /\ Counts
  BY DEF HistoryInv
<1> DEFINE h == Head(chain)
<1>2. /\ chain # <<>> /\ halfway /\ halfway' = FALSE /\ chain' = Tail(chain)
      /\ UNCHANGED <<emitted, mirrored, fill, request, tries, today, raced, left>>
  BY DEF Count, page, history
<1>3. Adds(h) \/ UNCHANGED counter
  BY DEF Count, Adds
<1>4. chain \in Seq(Call) /\ IsInjective(chain) /\ counter \in [Call -> 0 .. 2]
  BY <1>1 DEF Types, Passage
<1>5. /\ h \in Call /\ h \in Range(chain) /\ chain' \in Seq(Call) /\ IsInjective(chain')
      /\ Range(chain') = Range(chain) \ {h}
  BY <1>2, <1>4, TailDistinct
<1> HIDE DEF h
<1>6. Counted(h) /\ h \in emitted /\ h \notin Early
  BY <1>1, <1>5 DEF Counts, Passage
<1>7. counter[h] <= 1 /\ (counter[h] = 1 => h \in raced) /\ counter[h] \in 0 .. 2
  BY <1>4, <1>5, <1>6 DEF Counted
<1>8. /\ counter' \in [Call -> 0 .. 2]
      /\ counter'[h] = counter[h] + 1 \/ counter'[h] = counter[h]
      /\ \A d \in Call : d # h => counter'[d] = counter[d]
  BY <1>3, <1>4, <1>5, <1>7, AddsOne
<1>9. Types'
  BY <1>1, <1>2, <1>5, <1>8 DEF Types
<1>10. Passage'
  <2>1. Range(Unmirrored') = Range(Unmirrored)
    BY <1>2 DEF Unmirrored
  <2> QED
    BY <1>1, <1>2, <1>5, <2>1 DEF Passage
<1>11. Counts'
  <2>1. ASSUME NEW d \in Call PROVE Counted(d)'
    <3>1. Counted(d) /\ counter[d] \in 0 .. 2
      BY <1>1, <1>4 DEF Counts
    <3>2. CASE d # h
      BY <1>2, <1>5, <1>8, <3>1, <3>2 DEF Counted
    <3>3. CASE d = h
      <4>1. fill.pc = "list" => counter[h] = 0
        BY <1>5, <1>6 DEF Counted
      <4>2. h \in Range(fill.todo) => h \in raced /\ counter[h] = 0
        BY <1>5, <1>6 DEF Counted
      <4> QED
        BY <1>2, <1>5, <1>6, <1>7, <1>8, <3>3, <4>1, <4>2 DEF Counted
    <3> QED
      BY <3>2, <3>3
  <2> QED
    BY <2>1 DEF Counts
<1>12. Filled' /\ Answers'
  <2>1. Held' = Held
    BY <1>2 DEF Held
  <2>2. Early \subseteq Call
    BY <1>1 DEF Passage, Types
  <2>3. \A c \in Early : counter'[c] = counter[c]
    BY <1>6, <1>8, <2>2
  <2>4. \A c \in Call : counter[c] > 0 => counter'[c] > 0
    BY <1>4, <1>5, <1>8, RowsGrow
  <2>5. Forestalled => Forestalled'
    BY <2>2, <2>3, <2>4 DEF Forestalled
  <2>6. counter = Uncounted => counter' = Uncounted \/ Forestalled'
    <3>1. CASE Adds(h) /\ counter = Uncounted
      <4>1. \A c \in Early : counter'[c] = 0
        BY <2>2, <2>3, <3>1, AsleepIs
      <4>2. counter'[h] > 0
        BY <1>4, <1>5, <1>7, <3>1, AddsOne
      <4> QED
        BY <1>5, <1>6, <4>1, <4>2 DEF Forestalled
    <3>2. CASE UNCHANGED counter
      BY <3>2
    <3> QED
      BY <1>3, <3>1, <3>2
  <2>7. counter' = Uncounted => counter = Uncounted
    <3>1. ASSUME counter' = Uncounted PROVE counter = Uncounted
      <4>1. \A c \in Call : counter[c] = 0
        <5>1. ASSUME NEW c \in Call PROVE counter[c] = 0
          <6>1. counter'[c] = 0
            BY <3>1, AsleepIs
          <6>2. counter[c] \in 0 .. 2
            BY <1>4
          <6>3. counter[c] > 0 => counter'[c] > 0
            BY <2>4
          <6>4. ~(counter[c] > 0)
            BY <6>1, <6>3
          <6> QED
            BY <6>2, <6>4
        <5> QED
          BY <5>1
      <4> QED
        BY <1>4, <4>1 DEF Uncounted
    <3> QED
      BY <3>1
  <2> QED
    BY <1>2, <2>1, <2>3, <2>5, <2>6, <2>7, RunStep
<1> QED
  BY <1>9, <1>10, <1>11, <1>12 DEF HistoryInv

-----------------------------------------------------------------------------
(* The backfill.                                                           *)

LEMMA ArriveHolds ==
  ASSUME SpendAssumption, HistoryInv, NEW f \in Fetch, Arrive(f) PROVE HistoryInv'
<1>1. Types /\ Passage /\ Counts /\ Filled /\ Answers
  BY DEF HistoryInv
<1> DEFINE r == Asked(request[f], today)
<1>2. /\ Becomes(f, r)
      /\ UNCHANGED <<emitted, chain, halfway, mirrored, counter, tries, today, raced, left>>
  BY DEF Arrive, daemon, Becomes, Asked, history
<1>3. request[f] \in Request /\ today \in Nat
  BY <1>1 DEF Types
<1>4. r \in Request /\ r.pc = "waiting"
  BY <1>3, AskedIs
<1> HIDE DEF r
<1>5. /\ request' \in [Fetch -> Request] /\ request'[f] = r
      /\ \A g \in Fetch : g # f => request'[g] = request[g]
  BY <1>1, <1>2, <1>4, RequestBecomes
<1>6. /\ fill' \in [pc : {"none", "check", "list", "write"}, todo : Seq(Call)]
      /\ fill'.todo = fill.todo /\ (fill'.pc # "write" => fill'.todo = <<>>)
      /\ fill' = fill \/ (fill.pc = "none" /\ fill'.pc = "check")
  <2>1. CASE fill = NoFill
    <3>1. fill' = [NoFill EXCEPT !.pc = "check"]
      BY <2>1 DEF Arrive
    <3>2. fill' = [pc |-> "check", todo |-> <<>>]
      BY <3>1 DEF NoFill
    <3>3. fill'.pc = "check" /\ fill'.todo = <<>> /\ <<>> \in Seq(Call)
      BY <3>2
    <3> QED
      BY <2>1, <3>2, <3>3, NoFillIs
  <2>2. CASE fill # NoFill
    <3>1. fill' = fill
      BY <2>2 DEF Arrive
    <3> QED
      BY <1>1, <3>1 DEF Types
  <2> QED
    BY <2>1, <2>2
<1>7. Types'
  BY <1>1, <1>2, <1>5, <1>6 DEF Types
<1>8. Passage'
  BY <1>1, <1>2, <1>6 DEF Passage, Unmirrored
<1>9. Counts'
  BY <1>1, <1>2, <1>6 DEF Counts, Counted
<1>10. \A g \in Fetch : request'[g].pc \in {"reading", "answered"} => request'[g] = request[g]
  BY <1>4, <1>5
<1>11. Held' = Held /\ Forestalled' = Forestalled
  BY <1>2 DEF Held, Forestalled
<1>12. Filled'
  BY <1>1, <1>2, <1>6, <1>10, <1>11 DEF Filled, Known
<1>13. Answers'
  BY <1>1, <1>2, <1>10, <1>11, AnswersStay
<1> QED
  BY <1>7, <1>8, <1>9, <1>12, <1>13 DEF HistoryInv

\* A backfill that is over: nobody is left waiting for it.
LEMMA SettledHolds ==
  ASSUME SpendAssumption, HistoryInv, NEW pc \in {"reading", "failed"}, Settle(pc),
         UNCHANGED <<emitted, chain, halfway, mirrored, counter, tries, today, raced>>,
         left' = left \/ fill.pc = "write",
         counter = Uncounted \/ \A c \in Held : counter[c] > 0 \/ c \in left' \/ Forestalled,
         pc = "reading" => Held = {} \/ counter # Uncounted
  PROVE  HistoryInv'
<1>1. Types /\ Passage /\ Counts /\ Filled /\ Answers
  BY DEF HistoryInv
<1>2. /\ fill' = NoFill /\ request' \in [Fetch -> Request]
      /\ \A f \in Fetch :
           /\ request'[f].pc = "reading" => request[f].pc = "reading" \/ pc = "reading"
           /\ request'[f].pc = "answered" => request'[f] = request[f]
  BY <1>1, SettleIs
<1>3. Types'
  BY <1>1, <1>2, NoFillIs DEF Types
<1>4. Passage'
  BY <1>1, <1>2, NoFillIs DEF Passage, Unmirrored
<1>5. Counts'
  BY <1>1, <1>2, NoFillIs DEF Counts, Counted
<1>6. Held' = Held /\ Forestalled' = Forestalled
  BY DEF Held, Forestalled
<1>7. ASSUME NEW f \in Fetch, request'[f].pc \in {"reading", "answered"}
      PROVE  Held = {} \/ counter # Uncounted
  <2>1. CASE request[f].pc \in {"reading", "answered"}
    BY <1>1, <2>1 DEF Filled
  <2>2. CASE request[f].pc \notin {"reading", "answered"}
    <3>1. pc = "reading"
      BY <1>2, <1>7, <2>2
    <3> QED
      BY <3>1
  <2> QED
    BY <2>1, <2>2
<1>8. Filled'
  BY <1>2, <1>6, <1>7, NoFillIs DEF Filled, Known
<1>9. Answers'
  <2>1. CASE left' = left
    BY <1>1, <1>2, <1>6, <2>1, AnswersStay
  <2>2. CASE fill.pc = "write"
    <3> SUFFICES ASSUME NEW f \in Fetch, request'[f].pc = "answered" PROVE Held = {}
      BY <1>6 DEF Answers, Answered
    <3>1. request[f].pc = "answered"
      BY <1>2
    <3> QED
      BY <1>1, <2>2, <3>1 DEF Filled
  <2> QED
    BY <2>1, <2>2
<1> QED
  BY <1>3, <1>4, <1>5, <1>8, <1>9 DEF HistoryInv

LEMMA FillCheckHolds ==
  ASSUME SpendAssumption, HistoryInv, FillCheck PROVE HistoryInv'
<1>1. Types /\ Passage /\ Counts /\ Filled /\ Answers
  BY DEF HistoryInv
<1>2. /\ fill.pc = "check"
      /\ UNCHANGED <<emitted, chain, halfway, mirrored, counter, tries, today, raced, left>>
  BY DEF FillCheck, daemon, history
<1>3. CASE counter # Uncounted
  <2>1. Settle("reading")
    BY <1>3 DEF FillCheck
  <2>2. \A c \in Held : counter[c] > 0 \/ c \in left' \/ Forestalled
    BY <1>1, <1>2, <1>3 DEF Filled, Known
  <2> QED
    BY <1>2, <1>3, <2>1, <2>2, SettledHolds
<1>4. CASE counter = Uncounted
  <2>1. fill' = [fill EXCEPT !.pc = "list"] /\ request' = request
    BY <1>4 DEF FillCheck
  <2>2. /\ fill \in [pc : {"none", "check", "list", "write"}, todo : Seq(Call)]
        /\ fill.todo = <<>>
    BY <1>1, <1>2 DEF Types
  <2>3. /\ fill' \in [pc : {"none", "check", "list", "write"}, todo : Seq(Call)]
        /\ fill'.pc = "list" /\ fill'.todo = fill.todo
    BY <2>1, <2>2
  <2>4. \A c \in Call : counter[c] = 0
    BY <1>4, AsleepIs
  <2>5. Types'
    BY <1>1, <1>2, <2>1, <2>2, <2>3 DEF Types
  <2>6. Passage'
    BY <1>1, <1>2, <2>3 DEF Passage, Unmirrored
  <2>7. Counts'
    <3>1. Range(fill'.todo) = {}
      BY <2>2, <2>3, NoFillIs
    <3> QED
      BY <1>2, <2>4, <3>1 DEF Counted, Counts
  <2>8. Held' = Held /\ Forestalled' = Forestalled /\ Early \subseteq Call
    BY <1>1, <1>2 DEF Held, Forestalled, Passage, Types
  <2>9. Filled'
    BY <1>1, <1>2, <1>4, <2>1, <2>3, <2>4, <2>8 DEF Filled
  <2>10. Answers'
    BY <1>1, <1>2, <2>1, <2>8, AnswersStay
  <2> QED
    BY <2>5, <2>6, <2>7, <2>9, <2>10 DEF HistoryInv
<1> QED
  BY <1>3, <1>4

LEMMA FillListHolds ==
  ASSUME SpendAssumption, HistoryInv, FillList PROVE HistoryInv'
<1>1. Types /\ Passage /\ Counts /\ Filled /\ Answers
  BY DEF HistoryInv
<1>2. /\ fill.pc = "list" /\ fill' = [pc |-> "write", todo |-> mirrored]
      /\ raced' = {c \in Range(mirrored) : c \in Range(chain) \/ counter[c] > 0}
      /\ UNCHANGED <<emitted, chain, halfway, mirrored, counter, request, tries, today>>
  BY DEF FillList, daemon, page
<1>3. fill'.pc = "write" /\ fill'.todo = mirrored
  BY <1>2
<1>4. mirrored \in Seq(Call)
  BY <1>1 DEF Types
<1>5. fill' \in [pc : {"none", "check", "list", "write"}, todo : Seq(Call)]
  BY <1>2, <1>4
<1>6. Types'
  BY <1>1, <1>2, <1>3, <1>5 DEF Types
<1>7. Passage'
  BY <1>1, <1>2, <1>3 DEF Passage, Unmirrored
<1>8. Counts'
  <2>1. ASSUME NEW c \in Call PROVE Counted(c)'
    <3>1. /\ c \notin emitted => counter[c] = 0
          /\ counter[c] <= 1 /\ (c \in Range(chain) => counter[c] = 0)
      BY <1>1, <1>2 DEF Counted, Counts
    <3>2. counter[c] \in 0 .. 2
      BY <1>1 DEF Types
    <3>3. c \in Range(mirrored) /\ (counter[c] = 1 \/ c \in Range(chain)) => c \in raced'
      BY <1>2
    <3> QED
      BY <1>2, <1>3, <3>1, <3>2, <3>3 DEF Counted
  <2> QED
    BY <2>1 DEF Counts
<1>9. Held' = Held
  BY <1>2 DEF Held
<1>10. \A f \in Fetch : request[f].pc \in {"reading", "answered"} => Held = {}
  BY <1>1, <1>2 DEF Filled
<1>11. Filled'
  BY <1>2, <1>3, <1>9, <1>10 DEF Filled, Held
<1>12. Answers'
  BY <1>2, <1>9, <1>10 DEF Answers, Answered
<1> QED
  BY <1>6, <1>7, <1>8, <1>11, <1>12 DEF HistoryInv

LEMMA FillWriteHolds ==
  ASSUME SpendAssumption, HistoryInv, FillWrite PROVE HistoryInv'
<1>1. Types /\ Passage /\ Counts /\ Filled /\ Answers
  BY DEF HistoryInv
<1>2. /\ fill.pc = "write"
      /\ UNCHANGED <<emitted, chain, halfway, mirrored, tries, today, raced, left>>
  BY DEF FillWrite, daemon, history
<1>3. Early \subseteq Call /\ Held \subseteq Early
  BY <1>1 DEF Passage, Types, Held
<1>4. CASE fill.todo = <<>>
  <2>1. Settle("reading") /\ counter' = counter
    BY <1>4 DEF FillWrite
  <2>2. \A c \in Held : counter[c] > 0
    <3>1. Range(fill.todo) = {}
      BY <1>4, NoFillIs
    <3> QED
      BY <1>1, <1>2, <3>1 DEF Filled
  <2>3. Held = {} \/ counter # Uncounted
    BY <1>3, <2>2, AsleepIs
  <2> QED
    BY <1>2, <2>1, <2>2, <2>3, SettledHolds
<1>5. CASE fill.todo # <<>>
  <2> DEFINE h == Head(fill.todo)
             rest == Tail(fill.todo)
  <2>1. Adds(h) /\ fill' = [fill EXCEPT !.todo = rest] /\ request' = request
    BY <1>5 DEF FillWrite, Adds
  <2>2. /\ fill \in [pc : {"none", "check", "list", "write"}, todo : Seq(Call)]
        /\ fill.todo \in Seq(Call) /\ IsInjective(fill.todo) /\ counter \in [Call -> 0 .. 2]
    BY <1>1 DEF Types, Passage
  <2>3. /\ h \in Call /\ h \in Range(fill.todo) /\ rest \in Seq(Call) /\ IsInjective(rest)
        /\ Range(rest) = Range(fill.todo) \ {h}
    BY <1>5, <2>2, TailDistinct
  <2> HIDE DEF h, rest
  <2>4. /\ fill' \in [pc : {"none", "check", "list", "write"}, todo : Seq(Call)]
        /\ fill'.pc = "write" /\ fill'.todo = rest
    BY <1>2, <2>1, <2>2, <2>3
  <2>5. Counted(h)
    BY <1>1, <2>3 DEF Counts
  <2>6. /\ counter[h] <= 1 /\ (counter[h] = 1 \/ h \in Range(chain) => h \in raced)
        /\ h \in Range(chain) => counter[h] = 0
    BY <2>3, <2>5 DEF Counted
  <2>7. /\ counter' \in [Call -> 0 .. 2] /\ counter'[h] = counter[h] + 1
        /\ \A d \in Call : d # h => counter'[d] = counter[d]
    BY <2>1, <2>2, <2>3, <2>6, AddsOne
  <2>8. Types'
    BY <1>1, <1>2, <2>1, <2>4, <2>7 DEF Types
  <2>9. Passage'
    BY <1>1, <1>2, <2>3, <2>4 DEF Passage, Unmirrored
  <2>10. counter[h] \in 0 .. 2
    BY <2>2, <2>3
  <2>11. Counts'
    <3>1. ASSUME NEW d \in Call PROVE Counted(d)'
      <4>1. Counted(d)
        BY <1>1 DEF Counts
      <4>2. CASE d # h
        BY <1>2, <2>3, <2>4, <2>7, <4>1, <4>2 DEF Counted
      <4>3. CASE d = h
        <5>1. h \in emitted
          BY <1>1, <2>3 DEF Passage
        <5> QED
          BY <1>2, <2>3, <2>4, <2>6, <2>7, <2>10, <4>3, <5>1 DEF Counted
      <4> QED
        BY <4>2, <4>3
    <3> QED
      BY <3>1 DEF Counts
  <2>12. Held' = Held
    BY <1>2 DEF Held
  <2>13. \A f \in Fetch : request[f].pc \in {"reading", "answered"} => Held = {}
    BY <1>1, <1>2 DEF Filled
  <2>14. Filled'
    <3>1. \A c \in Call : counter[c] > 0 => counter'[c] > 0
      BY <2>2, <2>3, <2>7, RowsGrow
    <3>2. counter'[h] > 0
      BY <2>7, <2>10
    <3>3. ASSUME NEW c \in Held PROVE counter'[c] > 0 \/ c \in Range(rest)
      BY <1>1, <1>2, <1>3, <2>3, <3>1, <3>2 DEF Filled
    <3> QED
      BY <2>1, <2>4, <2>12, <2>13, <3>3 DEF Filled
  <2>15. Answers'
    BY <2>1, <2>12, <2>13 DEF Answers, Answered
  <2> QED
    BY <2>8, <2>9, <2>11, <2>14, <2>15 DEF HistoryInv
<1> QED
  BY <1>4, <1>5

LEMMA FillFailsHolds ==
  ASSUME SpendAssumption, HistoryInv, FillFails PROVE HistoryInv'
<1>1. /\ Settle("failed") /\ fill.pc \in {"check", "list", "write"}
      /\ left' = (IF fill.pc = "write" THEN Range(fill.todo) ELSE left)
      /\ UNCHANGED <<emitted, chain, halfway, mirrored, counter, tries, today, raced>>
  BY DEF FillFails, daemon
<1>2. Types /\ Filled /\ Early \subseteq Call /\ Held \subseteq Early
  BY DEF HistoryInv, Types, Passage, Held
<1>3. CASE fill.pc = "check"
  BY <1>1, <1>2, <1>3, SettledHolds DEF Filled, Known
<1>4. CASE fill.pc = "list"
  <2>1. \A c \in Early : counter[c] = 0
    BY <1>2, <1>4 DEF Filled
  <2>2. CASE \E c \in Call \ Early : counter[c] > 0
    BY <1>1, <1>4, <2>1, <2>2, SettledHolds DEF Forestalled
  <2>3. CASE ~(\E c \in Call \ Early : counter[c] > 0)
    <3>1. counter \in [Call -> 0 .. 2]
      BY <1>2 DEF Types
    <3>2. \A c \in Call : counter[c] = 0
      <4>1. ASSUME NEW c \in Call PROVE counter[c] = 0
        <5>1. counter[c] \in 0 .. 2
          BY <3>1
        <5> QED
          BY <2>1, <2>3, <5>1
      <4> QED
        BY <4>1
    <3>3. counter = Uncounted
      BY <3>1, <3>2 DEF Uncounted
    <3> QED
      BY <1>1, <1>4, <3>3, SettledHolds
  <2> QED
    BY <2>2, <2>3
<1>5. CASE fill.pc = "write"
  <2>1. \A c \in Held : counter[c] > 0 \/ c \in left'
    BY <1>1, <1>2, <1>5 DEF Filled
  <2> QED
    BY <1>1, <1>5, <2>1, SettledHolds
<1> QED
  BY <1>1, <1>3, <1>4, <1>5

LEMMA MidnightHolds ==
  ASSUME HistoryInv, Midnight PROVE HistoryInv'
<1>1. UNCHANGED <<daemon, store, history, request, tries>> /\ today' = today + 1
  BY DEF Midnight, page
<1>2. today' \in Nat
  BY <1>1 DEF HistoryInv, Types
<1> QED
  BY <1>1, <1>2, PageStep DEF HistoryInv, Types

-----------------------------------------------------------------------------
(* The theorem.                                                            *)

LEMMA InitHolds == SpendAssumption /\ Init => HistoryInv
<1> SUFFICES ASSUME SpendAssumption, Init PROVE HistoryInv
  OBVIOUS
<1>1. /\ emitted = Early /\ chain = <<>> /\ halfway = FALSE /\ mirrored = Legacy
      /\ counter = Uncounted /\ fill = NoFill /\ tries = 0 /\ today = Today
  BY DEF Init, Early
<1>2. /\ Legacy \in Seq(Call) /\ Len(Legacy) <= Tail300 /\ IsInjective(Legacy)
      /\ MaxTries \in Nat \ {0} /\ Today \in Nat
  BY DEF SpendAssumption
<1>3. Early \subseteq Call
  BY <1>2 DEF Range, Early
<1>4. <<>> \in Seq(Call) /\ Range(<<>>) = {} /\ IsInjective(<<>>)
  BY NoFillIs
<1>5. request \in [Fetch -> Request] /\ \A f \in Fetch : request[f].pc \in {"none", "sent"}
  <2> DEFINE First(f) == IF f = "load" THEN With(Asleep, "sent") ELSE Asleep
  <2>1. request = [f \in Fetch |-> First(f)]
    BY DEF Init, With
  <2>2. ASSUME NEW f \in Fetch PROVE First(f) \in Request /\ First(f).pc \in {"none", "sent"}
    <3>1. With(Asleep, "sent") \in Request /\ With(Asleep, "sent").pc = "sent"
      BY AsleepIs, WithIs
    <3> QED
      BY <3>1, AsleepIs
  <2> HIDE DEF First
  <2> QED
    BY <2>1, <2>2
<1>6. Types
  <2>1. tries \in 0 .. MaxTries - 1
    BY <1>1, <1>2
  <2>2. chain \in Seq(Call) /\ halfway \in BOOLEAN
    BY <1>1, <1>4
  <2>3. fill \in [pc : {"none", "check", "list", "write"}, todo : Seq(Call)]
        /\ (fill.pc # "write" => fill.todo = <<>>)
    BY <1>1, NoFillIs
  <2>4. counter \in [Call -> 0 .. 2]
    BY <1>1, AsleepIs
  <2> QED
    BY <1>1, <1>2, <1>3, <1>5, <2>1, <2>2, <2>3, <2>4 DEF Types
<1>7. Passage
  BY <1>1, <1>2, <1>4, NoFillIs DEF Passage, Unmirrored, Early
<1>8. Counts
  BY <1>1, <1>4, NoFillIs, AsleepIs DEF Counts, Counted
<1>9. Filled
  BY <1>1, <1>5, NoFillIs DEF Filled
<1>10. Answers
  BY <1>5 DEF Answers, Answered
<1> QED
  BY <1>6, <1>7, <1>8, <1>9, <1>10 DEF HistoryInv

LEMMA StepHolds ==
  ASSUME SpendAssumption, HistoryInv, [Next]_vars PROVE HistoryInv'
<1>1. CASE Next
  BY <1>1, EmitHolds, MirrorHolds, MirrorFailsHolds, CountHolds, ArriveHolds, FillCheckHolds,
     FillListHolds, FillWriteHolds, FillFailsHolds, ReadRowsHolds, ShowHolds, KeepLastGoodHolds,
     SendHolds, HideHolds, MidnightHolds DEF Next
<1>2. CASE UNCHANGED vars
  <2>1. UNCHANGED <<daemon, store, history, request, tries, today>>
    BY <1>2 DEF vars, page
  <2> QED
    BY <2>1, PageStep DEF HistoryInv, Types
<1> QED
  BY <1>1, <1>2

LEMMA HistoryFollows == ASSUME SpendAssumption, HistoryInv PROVE HistoryIsTrue
<1>1. Types /\ Counts /\ Answers
  BY DEF HistoryInv
<1>2. SpendTypeOK
  BY <1>1 DEF Types, SpendTypeOK, Request
<1>3. CountedOnce
  BY <1>1 DEF Counts, Counted, CountedOnce
<1>4. HistoryIsComplete
  <2> SUFFICES ASSUME NEW f \in Fetch, NEW c \in Early \cap Range(mirrored),
                      request[f].pc = "answered", InWindow(c, request[f].day),
                      request[f].rows[c] = 0
               PROVE  c \in left \/ Forestalled
    BY DEF HistoryIsComplete
  <2> QED
    BY <1>1 DEF Answers, Answered, Held, Known
<1> QED
  BY <1>2, <1>3, <1>4 DEF HistoryIsTrue

\* The cost history, however the run, the backfill, its failures, midnight and the
\* page's three fetches interleave: a call is counted twice only if the list that the
\* backfill wrote met it in the chain or counted, and what an answer lacks of its
\* window from before the counter is what a failed backfill had not come to, unless
\* a run's first row was there before any backfill.
THEOREM HistoriesAreTrue == Spec => []HistoryIsTrue
<1>1. Init => HistoryInv
  BY SpendAssumption, InitHolds
<1>2. HistoryInv /\ [Next]_vars => HistoryInv'
  BY SpendAssumption, StepHolds
<1>3. HistoryInv => HistoryIsTrue
  BY SpendAssumption, HistoryFollows
<1> QED
  BY <1>1, <1>2, <1>3, PTL DEF Spec

-----------------------------------------------------------------------------
(* Sums over finite sets.                                                  *)

LEMMA SmallestSubset ==
  ASSUME NEW S, IsFiniteSet(S), NEW Q \in SUBSET SUBSET S, Q # {}
  PROVE  \E T \in Q : \A U \in Q : U \subseteq T => U = T
<1>1. IsWellFoundedOn(StrictSubsetOrdering(S), SUBSET S)
  BY FS_FiniteSubsetsOfFinite, FS_StrictSubsetOrderingWellFounded
<1>2. PICK T \in Q : \A U \in Q : ~(<<U, T>> \in StrictSubsetOrdering(S))
  BY <1>1, WFMin
<1> QED
  BY <1>2 DEF StrictSubsetOrdering

\* What holds of a set whenever it holds of the smaller ones.
LEMMA SubsetInduction ==
  ASSUME NEW S, IsFiniteSet(S), NEW P,
         \A T \in SUBSET S : (\A U \in SUBSET T : U # T => U \in P) => T \in P
  PROVE  \A T \in SUBSET S : T \in P
<1> DEFINE Q == {T \in SUBSET S : T \notin P}
<1> SUFFICES ASSUME Q # {} PROVE FALSE
  OBVIOUS
<1>1. Q \in SUBSET SUBSET S
  OBVIOUS
<1>2. \A T : T \in Q <=> T \in SUBSET S /\ T \notin P
  OBVIOUS
<1> HIDE DEF Q
<1>3. PICK T \in Q : \A U \in Q : U \subseteq T => U = T
  BY <1>1, SmallestSubset
<1> QED
  BY <1>2, <1>3

\* What holds of nothing, and of one element more.
LEMMA ElementInduction ==
  ASSUME NEW S, IsFiniteSet(S), NEW P, {} \in P,
         \A T \in SUBSET S : \A x \in S \ T : T \in P => T \cup {x} \in P
  PROVE  S \in P
<1>1. ASSUME NEW T \in SUBSET S, \A U \in SUBSET T : U # T => U \in P PROVE T \in P
  <2>1. CASE T = {}
    BY <2>1
  <2>2. CASE T # {}
    <3>1. PICK x \in T : TRUE
      BY <2>2
    <3>2. T \ {x} \in P /\ T \ {x} \in SUBSET S /\ x \in S \ (T \ {x})
      BY <1>1, <3>1
    <3>3. (T \ {x}) \cup {x} = T
      BY <3>1
    <3>4. (T \ {x}) \cup {x} \in P
      BY <3>2
    <3> QED
      BY <3>3, <3>4
  <2> QED
    BY <2>1, <2>2
<1>2. \A T \in SUBSET S : T \in P
  BY <1>1, SubsetInduction
<1> QED
  BY <1>2

\* The library's sum takes the elements one by one.
One(s) == CHOOSE x \in s : TRUE
First(f, w, s) == w[One(s)] + f[s \ {One(s)}]
Sums(f, w, S) == f = [s \in SUBSET S |-> IF s = {} THEN 0 ELSE First(f, w, s)]
Iter(w, S) == CHOOSE f : Sums(f, w, S)

LEMMA SumIs == ASSUME NEW w, NEW S PROVE SumFunctionOnSet(w, S) = Iter(w, S)[S]
  BY DEF SumFunctionOnSet, FoldFunctionOnSet, MapThenFoldSet, Iter, Sums, First, One

LEMMA OneIs == ASSUME NEW s, s # {} PROVE One(s) \in s
  BY DEF One

LEMMA SumsAt ==
  ASSUME NEW f, NEW w, NEW S, Sums(f, w, S), NEW s \in SUBSET S
  PROVE  /\ s = {} => f[s] = 0
         /\ s # {} => f[s] = First(f, w, s)
  BY DEF Sums

LEMMA SumsAlike ==
  ASSUME NEW S, IsFiniteSet(S), NEW h, NEW u, NEW A, Sums(h, u, A), S \subseteq A,
         NEW g, NEW v, NEW B, Sums(g, v, B), S \subseteq B, \A x \in S : u[x] = v[x]
  PROVE  \A s \in SUBSET S : h[s] = g[s]
<1> DEFINE P == {s \in SUBSET S : h[s] = g[s]}
<1>1. ASSUME NEW T \in SUBSET S, \A U \in SUBSET T : U # T => U \in P PROVE T \in P
  <2>1. T \in SUBSET A /\ T \in SUBSET B
    OBVIOUS
  <2>2. CASE T = {}
    <3>1. h[T] = 0 /\ g[T] = 0
      BY <2>1, <2>2, SumsAt
    <3> QED
      BY <3>1
  <2>3. CASE T # {}
    <3>1. One(T) \in T
      BY <2>3, OneIs
    <3>2. T \ {One(T)} \in P /\ u[One(T)] = v[One(T)]
      BY <1>1, <3>1
    <3>3. h[T] = First(h, u, T) /\ g[T] = First(g, v, T)
      BY <2>1, <2>3, SumsAt
    <3>4. First(h, u, T) = First(g, v, T)
      BY <3>2 DEF First
    <3> QED
      BY <3>3, <3>4
  <2> QED
    BY <2>2, <2>3
<1> HIDE DEF P
<1>2. \A T \in SUBSET S : T \in P
  BY <1>1, SubsetInduction
<1> QED
  BY <1>2 DEF P

LEMMA IterExists == ASSUME NEW w, NEW S, IsFiniteSet(S) PROVE Sums(Iter(w, S), w, S)
<1> DEFINE P == {T \in SUBSET S : Sums(Iter(w, T), w, T)}
<1>1. ASSUME NEW T \in SUBSET S, \A U \in SUBSET T : U # T => U \in P PROVE T \in P
  <2> DEFINE last(U) == Iter(w, U)[U]
             body(f, s) == IF s = {} THEN 0 ELSE First(f, w, s)
             f == [U \in SUBSET T |->
                     IF U # T THEN last(U)
                     ELSE IF T = {} THEN 0 ELSE w[One(T)] + last(T \ {One(T)})]
  <2>1. ASSUME NEW U \in SUBSET T PROVE f[U] = body(f, U)
    <3>1. CASE U = {}
      <4>1. CASE U = T
        BY <3>1, <4>1
      <4>2. CASE U # T
        <5>1. Sums(Iter(w, U), w, U)
          BY <1>1, <4>2
        <5>2. Iter(w, U)[U] = 0
          BY <3>1, <5>1, SumsAt
        <5> QED
          BY <3>1, <4>2, <5>2
      <4> QED
        BY <4>1, <4>2
    <3>2. CASE U # {}
      <4> DEFINE x == One(U)
                 V == U \ {x}
      <4>1. x \in U /\ V \in SUBSET T /\ V # T /\ V # U
        BY <3>2, OneIs
      <4>2. f[V] = last(V)
        BY <4>1
      <4>3. CASE U = T
        BY <3>2, <4>2, <4>3 DEF First
      <4>4. CASE U # T
        <5>1. Sums(Iter(w, U), w, U) /\ Sums(Iter(w, V), w, V)
          BY <1>1, <4>1, <4>4
        <5>2. IsFiniteSet(V)
          BY <4>1, FS_Subset
        <5>3. Iter(w, U)[V] = Iter(w, V)[V]
          BY <5>1, <5>2, SumsAlike
        <5>4. Iter(w, U)[U] = First(Iter(w, U), w, U)
          BY <3>2, <5>1, SumsAt
        <5> QED
          BY <3>2, <4>2, <4>4, <5>3, <5>4 DEF First
      <4> QED
        BY <4>3, <4>4
    <3> QED
      BY <3>1, <3>2
  <2>2. f = [U \in SUBSET T |-> f[U]]
    OBVIOUS
  <2> HIDE DEF f
  <2>3. f = [U \in SUBSET T |-> body(f, U)]
    BY <2>1, <2>2
  <2>4. Sums(f, w, T)
    BY <2>3 DEF Sums
  <2> QED
    BY <2>4 DEF Iter
<1> HIDE DEF P
<1>2. \A T \in SUBSET S : T \in P
  BY <1>1, SubsetInduction
<1> QED
  BY <1>2 DEF P

\* A sum depends on what is summed alone.
LEMMA SumAlike ==
  ASSUME NEW S, IsFiniteSet(S), NEW w, NEW v, \A x \in S : w[x] = v[x]
  PROVE  SumFunctionOnSet(w, S) = SumFunctionOnSet(v, S)
<1>1. Sums(Iter(w, S), w, S) /\ Sums(Iter(v, S), v, S)
  BY IterExists
<1>2. \A s \in SUBSET S : Iter(w, S)[s] = Iter(v, S)[s]
  BY <1>1, SumsAlike
<1> QED
  BY <1>2, SumIs

LEMMA SumOfNone == ASSUME NEW w PROVE SumFunctionOnSet(w, {}) = 0
<1>1. Sums(Iter(w, {}), w, {})
  BY IterExists, FS_EmptySet
<1> QED
  BY <1>1, SumsAt, SumIs

LEMMA SumTakesOne ==
  ASSUME NEW S, IsFiniteSet(S), S # {}, NEW w
  PROVE  SumFunctionOnSet(w, S) = w[One(S)] + SumFunctionOnSet(w, S \ {One(S)})
<1> DEFINE T == S \ {One(S)}
<1>1. T \subseteq S /\ IsFiniteSet(T)
  BY FS_Subset
<1>2. Sums(Iter(w, S), w, S) /\ Sums(Iter(w, T), w, T)
  BY <1>1, IterExists
<1>3. Iter(w, S)[S] = w[One(S)] + Iter(w, S)[T]
  BY <1>2, SumsAt DEF First
<1> HIDE DEF T
<1>4. Iter(w, S)[T] = Iter(w, T)[T]
  BY <1>1, <1>2, SumsAlike
<1> QED
  BY <1>3, <1>4, SumIs DEF T

LEMMA SumNat ==
  ASSUME NEW S, IsFiniteSet(S), NEW w, \A x \in S : w[x] \in Nat
  PROVE  \A T \in SUBSET S : SumFunctionOnSet(w, T) \in Nat
<1> DEFINE P == {T \in SUBSET S : SumFunctionOnSet(w, T) \in Nat}
<1>1. ASSUME NEW T \in SUBSET S, \A U \in SUBSET T : U # T => U \in P PROVE T \in P
  <2>1. CASE T = {}
    BY <2>1, SumOfNone
  <2>2. CASE T # {}
    <3>1. One(T) \in T /\ IsFiniteSet(T)
      BY <2>2, OneIs, FS_Subset
    <3>2. T \ {One(T)} \in P /\ w[One(T)] \in Nat
      BY <1>1, <3>1
    <3>3. SumFunctionOnSet(w, T) = w[One(T)] + SumFunctionOnSet(w, T \ {One(T)})
      BY <2>2, <3>1, SumTakesOne
    <3> QED
      BY <3>2, <3>3
  <2> QED
    BY <2>1, <2>2
<1> HIDE DEF P
<1>2. \A T \in SUBSET S : T \in P
  BY <1>1, SubsetInduction
<1> QED
  BY <1>2 DEF P

\* Any element may be taken first.
LEMMA SumTakesAny ==
  ASSUME NEW S, IsFiniteSet(S), NEW w, \A x \in S : w[x] \in Nat
  PROVE  \A T \in SUBSET S : \A y \in T :
           SumFunctionOnSet(w, T) = w[y] + SumFunctionOnSet(w, T \ {y})
<1> DEFINE Takes(T, y) == SumFunctionOnSet(w, T) = w[y] + SumFunctionOnSet(w, T \ {y})
           P == {T \in SUBSET S : \A y \in T : Takes(T, y)}
<1>1. ASSUME NEW T \in SUBSET S, \A U \in SUBSET T : U # T => U \in P PROVE T \in P
  <2> SUFFICES ASSUME NEW y \in T PROVE Takes(T, y)
    OBVIOUS
  <2> DEFINE x == One(T)
             sum(U) == SumFunctionOnSet(w, U)
  <2>1. x \in T /\ IsFiniteSet(T)
    BY OneIs, FS_Subset
  <2>2. sum(T) = w[x] + sum(T \ {x})
    BY <2>1, SumTakesOne
  <2>3. CASE x = y
    BY <2>2, <2>3
  <2>4. CASE x # y
    <3> HIDE DEF x
    <3>1. T \ {x} \in P /\ T \ {y} \in P /\ y \in T \ {x} /\ x \in T \ {y}
      BY <1>1, <2>1, <2>4
    <3>2. (T \ {x}) \ {y} = (T \ {y}) \ {x}
      OBVIOUS
    <3>3. sum(T \ {x}) = w[y] + sum((T \ {x}) \ {y}) /\ sum(T \ {y}) = w[x] + sum((T \ {y}) \ {x})
      BY <3>1
    <3>4. w[x] \in Nat /\ w[y] \in Nat /\ sum((T \ {x}) \ {y}) \in Nat
      BY <2>1, SumNat
    <3> HIDE DEF sum
    <3>5. sum(T) = w[y] + sum(T \ {y})
      BY <2>2, <3>2, <3>3, <3>4
    <3> QED
      BY <3>5 DEF sum
  <2> QED
    BY <2>3, <2>4
<1> HIDE DEF P
<1>2. \A T \in SUBSET S : T \in P
  BY <1>1, SubsetInduction
<1> QED
  BY <1>2 DEF P

-----------------------------------------------------------------------------
(* Joining and parting sums.                                               *)

\* Numbers for the elements of a finite set, whose sum is one.
Numbered(w, S) == IsFiniteSet(S) /\ \A x \in S : w[x] \in Nat

LEMMA SumIsNat == ASSUME NEW w, NEW S, Numbered(w, S) PROVE SumFunctionOnSet(w, S) \in Nat
  BY SumNat DEF Numbered

LEMMA NumberedPart ==
  ASSUME NEW w, NEW S, Numbered(w, S), NEW T, T \subseteq S PROVE Numbered(w, T)
  BY FS_Subset DEF Numbered

LEMMA SumWith ==
  ASSUME NEW w, NEW S, Numbered(w, S), NEW T, T \subseteq S, NEW x \in S \ T
  PROVE  SumFunctionOnSet(w, T \cup {x}) = w[x] + SumFunctionOnSet(w, T)
<1> DEFINE U == T \cup {x}
<1>1. U \in SUBSET S /\ x \in U /\ U \ {x} = T
  OBVIOUS
<1> HIDE DEF U
<1>2. SumFunctionOnSet(w, U) = w[x] + SumFunctionOnSet(w, U \ {x})
  BY <1>1, SumTakesAny DEF Numbered
<1> QED
  BY <1>1, <1>2 DEF U

LEMMA SumJoins ==
  ASSUME NEW w, NEW A, NEW B, Numbered(w, A \cup B), A \cap B = {}
  PROVE  SumFunctionOnSet(w, A \cup B) = SumFunctionOnSet(w, A) + SumFunctionOnSet(w, B)
<1> DEFINE sum(T) == SumFunctionOnSet(w, T)
           P == {T \in SUBSET B : sum(A \cup T) = sum(A) + sum(T)}
<1>1. {} \in P
  <2>1. A \cup {} = A /\ sum({}) = 0
    BY SumOfNone
  <2>2. sum(A) \in Nat
    BY NumberedPart, SumIsNat
  <2> HIDE DEF sum
  <2> QED
    BY <2>1, <2>2
<1>2. ASSUME NEW T \in SUBSET B, NEW x \in B \ T, T \in P PROVE T \cup {x} \in P
  <2>1. (A \cup T) \cup {x} = A \cup (T \cup {x})
    OBVIOUS
  <2>2. sum((A \cup T) \cup {x}) = w[x] + sum(A \cup T)
    <3>1. A \cup T \subseteq A \cup B /\ x \in (A \cup B) \ (A \cup T)
      OBVIOUS
    <3> QED
      BY <3>1, SumWith
  <2>3. sum(T \cup {x}) = w[x] + sum(T)
    <3>1. T \subseteq A \cup B /\ x \in (A \cup B) \ T
      OBVIOUS
    <3> QED
      BY <3>1, SumWith
  <2>4. sum(A) \in Nat /\ sum(T) \in Nat /\ w[x] \in Nat
    <3>1. Numbered(w, A) /\ Numbered(w, T)
      BY NumberedPart
    <3> QED
      BY <3>1, SumIsNat DEF Numbered
  <2>5. sum(A \cup T) = sum(A) + sum(T)
    BY <1>2
  <2> DEFINE all == sum(A \cup (T \cup {x}))
             part == sum(T \cup {x})
             before == sum(A \cup T)
             a == sum(A)
             t == sum(T)
  <2>6. all = w[x] + before /\ part = w[x] + t /\ before = a + t
    BY ONLY <2>1, <2>2, <2>3, <2>5
  <2>7. a \in Nat /\ t \in Nat /\ w[x] \in Nat
    BY <2>4
  <2> HIDE DEF all, part, before, a, t
  <2>8. all = a + part
    BY ONLY <2>6, <2>7
  <2> QED
    BY <2>8 DEF all, part, a
<1>3. IsFiniteSet(B)
  BY FS_Subset DEF Numbered
<1> HIDE DEF P
<1>4. B \in P
  BY <1>1, <1>2, <1>3, ElementInduction
<1> QED
  BY <1>4 DEF P

LEMMA SumOfZeros ==
  ASSUME NEW w, NEW S, IsFiniteSet(S), \A x \in S : w[x] = 0
  PROVE  SumFunctionOnSet(w, S) = 0
<1> DEFINE P == {T \in SUBSET S : SumFunctionOnSet(w, T) = 0}
<1>1. {} \in P
  BY SumOfNone
<1>2. ASSUME NEW T \in SUBSET S, NEW x \in S \ T, T \in P PROVE T \cup {x} \in P
  <2>1. Numbered(w, S)
    BY DEF Numbered
  <2>2. SumFunctionOnSet(w, T \cup {x}) = w[x] + SumFunctionOnSet(w, T)
    BY <2>1, SumWith
  <2>3. w[x] = 0 /\ SumFunctionOnSet(w, T) = 0
    BY <1>2
  <2> QED
    BY <2>2, <2>3
<1> HIDE DEF P
<1>3. S \in P
  BY <1>1, <1>2, ElementInduction
<1> QED
  BY <1>3 DEF P

\* What adds nothing may be left out.
LEMMA SumWithout ==
  ASSUME NEW w, NEW S, Numbered(w, S), NEW T, T \subseteq S, \A x \in S \ T : w[x] = 0
  PROVE  SumFunctionOnSet(w, S) = SumFunctionOnSet(w, T)
<1>1. T \cup (S \ T) = S /\ T \cap (S \ T) = {}
  OBVIOUS
<1>2. SumFunctionOnSet(w, S) = SumFunctionOnSet(w, T) + SumFunctionOnSet(w, S \ T)
  BY <1>1, SumJoins
<1>3. SumFunctionOnSet(w, S \ T) = 0
  BY FS_Subset, SumOfZeros DEF Numbered
<1>4. SumFunctionOnSet(w, T) \in Nat
  BY NumberedPart, SumIsNat
<1> QED
  BY <1>2, <1>3, <1>4

\* The sums of the elements of each key.
Fibre(S, key, k) == {x \in S : key[x] = k}
ByKey(w, S, key, K) == [k \in K |-> SumFunctionOnSet(w, Fibre(S, key, k))]

LEMMA ByKeyNumbered ==
  ASSUME NEW w, NEW S, Numbered(w, S), NEW key, NEW K, IsFiniteSet(K)
  PROVE  Numbered(ByKey(w, S, key, K), K)
<1>1. ASSUME NEW k \in K PROVE SumFunctionOnSet(w, Fibre(S, key, k)) \in Nat
  BY NumberedPart, SumIsNat DEF Fibre
<1> QED
  BY <1>1 DEF Numbered, ByKey

LEMMA SumByKey ==
  ASSUME NEW w, NEW S, Numbered(w, S), NEW key, NEW K, IsFiniteSet(K),
         \A x \in S : key[x] \in K
  PROVE  SumFunctionOnSet(w, S) = SumFunctionOnSet(ByKey(w, S, key, K), K)
<1> DEFINE sum(T) == SumFunctionOnSet(w, T)
           v(T) == ByKey(w, T, key, K)
           P == {T \in SUBSET S : sum(T) = SumFunctionOnSet(v(T), K)}
<1>1. {} \in P
  <2>1. \A k \in K : v({})[k] = 0
    <3> SUFFICES ASSUME NEW k \in K PROVE SumFunctionOnSet(w, Fibre({}, key, k)) = 0
      BY DEF ByKey
    <3>1. Fibre({}, key, k) = {}
      BY DEF Fibre
    <3> QED
      BY <3>1, SumOfNone
  <2>2. SumFunctionOnSet(v({}), K) = 0
    BY <2>1, SumOfZeros
  <2> QED
    BY <2>2, SumOfNone
<1>2. ASSUME NEW T \in SUBSET S, NEW x \in S \ T, T \in P PROVE T \cup {x} \in P
  <2> DEFINE U == T \cup {x}
             k0 == key[x]
             rest(q) == SumFunctionOnSet(q, K \ {k0})
  <2>1. k0 \in K /\ K \in SUBSET K /\ U \in SUBSET S
    OBVIOUS
  <2>2. Numbered(v(T), K) /\ Numbered(v(U), K)
    <3>1. Numbered(w, T) /\ Numbered(w, U)
      BY NumberedPart
    <3> QED
      BY <3>1, ByKeyNumbered
  <2>3. v(U)[k0] = w[x] + v(T)[k0]
    <3>1. Fibre(U, key, k0) = Fibre(T, key, k0) \cup {x}
      BY DEF Fibre
    <3>2. Fibre(T, key, k0) \subseteq S /\ x \in S \ Fibre(T, key, k0)
      BY DEF Fibre
    <3>3. SumFunctionOnSet(w, Fibre(T, key, k0) \cup {x})
            = w[x] + SumFunctionOnSet(w, Fibre(T, key, k0))
      BY <3>2, SumWith
    <3> QED
      BY <2>1, <3>1, <3>3 DEF ByKey
  <2>4. \A k \in K \ {k0} : v(U)[k] = v(T)[k]
    <3> SUFFICES ASSUME NEW k \in K \ {k0} PROVE Fibre(U, key, k) = Fibre(T, key, k)
      BY DEF ByKey
    <3> QED
      BY DEF Fibre
  <2>5. rest(v(U)) = rest(v(T))
    <3>1. IsFiniteSet(K \ {k0})
      BY FS_Subset
    <3> QED
      BY <2>4, <3>1, SumAlike
  <2>6. /\ SumFunctionOnSet(v(U), K) = v(U)[k0] + rest(v(U))
        /\ SumFunctionOnSet(v(T), K) = v(T)[k0] + rest(v(T))
    <3>1. ASSUME NEW q, Numbered(q, K)
          PROVE SumFunctionOnSet(q, K) = q[k0] + SumFunctionOnSet(q, K \ {k0})
      <4> HIDE DEF v, k0
      <4> QED
        BY <2>1, <3>1, SumTakesAny DEF Numbered
    <3> QED
      BY <2>2, <3>1
  <2>7. sum(U) = w[x] + sum(T) /\ sum(T) = SumFunctionOnSet(v(T), K)
    BY <1>2, SumWith
  <2>8. w[x] \in Nat /\ v(T)[k0] \in Nat /\ rest(v(T)) \in Nat
    <3>1. Numbered(v(T), K \ {k0})
      BY <2>2, NumberedPart
    <3> HIDE DEF v, k0
    <3> QED
      BY <2>1, <2>2, <3>1, SumIsNat DEF Numbered
  <2> HIDE DEF sum, v, rest, k0, U
  <2>9. sum(U) = SumFunctionOnSet(v(U), K)
    BY <2>3, <2>5, <2>6, <2>7, <2>8
  <2> QED
    BY <2>1, <2>9 DEF U
<1>3. IsFiniteSet(S)
  BY DEF Numbered
<1> HIDE DEF P
<1>4. S \in P
  BY <1>1, <1>2, <1>3, ElementInduction
<1> QED
  BY <1>4 DEF P

-----------------------------------------------------------------------------
(* The dearest agents.                                                     *)

\* The first LegendSize of a ranking exist, whatever ties there are.
LEMMA LeastExists ==
  ASSUME NEW v, NEW S, Numbered(v, S), S # {}
  PROVE  \E m \in S : \A y \in S : v[m] <= v[y]
<1> DEFINE P == {T \in SUBSET S : T # {} => \E m \in T : \A y \in T : v[m] <= v[y]}
<1>1. {} \in P
  OBVIOUS
<1>2. ASSUME NEW T \in SUBSET S, NEW x \in S \ T, T \in P PROVE T \cup {x} \in P
  <2>1. \A y \in S : v[y] \in Nat
    BY DEF Numbered
  <2>2. CASE T = {}
    BY <2>1, <2>2
  <2>3. CASE T # {}
    <3>1. PICK m \in T : \A y \in T : v[m] <= v[y]
      BY <1>2, <2>3
    <3>2. v[m] \in Nat /\ v[x] \in Nat /\ \A y \in T : v[y] \in Nat
      BY <2>1
    <3>3. CASE v[m] <= v[x]
      <4>1. \A y \in T \cup {x} : v[m] <= v[y]
        BY <3>1, <3>3
      <4> QED
        BY <4>1
    <3>4. CASE v[x] <= v[m]
      <4>1. \A y \in T : v[x] <= v[y]
        BY <3>1, <3>2, <3>4
      <4>2. \A y \in T \cup {x} : v[x] <= v[y]
        BY <3>2, <4>1
      <4> QED
        BY <4>2
    <3> QED
      BY <3>2, <3>3, <3>4
  <2> QED
    BY <2>2, <2>3
<1>3. IsFiniteSet(S)
  BY DEF Numbered
<1> HIDE DEF P
<1>4. S \in P
  BY <1>1, <1>2, <1>3, ElementInduction
<1> QED
  BY <1>4 DEF P

LEMMA TopExists ==
  ASSUME NEW v, NEW S, Numbered(v, S), NEW k \in 0 .. Cardinality(S)
  PROVE  \E T \in kSubset(k, S) : \A a \in T, b \in S \ T : v[a] >= v[b]
<1> DEFINE Ahead(T) == \A a \in T, b \in S \ T : v[a] >= v[b]
           Q == {T \in SUBSET S : Cardinality(T) >= k /\ Ahead(T)}
<1>0. IsFiniteSet(S) /\ Cardinality(S) \in Nat /\ k \in Nat
  BY FS_CardinalityType DEF Numbered
<1>1. S \in Q
  BY <1>0
<1>2. PICK T \in Q : \A U \in Q : U \subseteq T => U = T
  <2>1. Q \in SUBSET SUBSET S /\ Q # {}
    BY <1>1
  <2> HIDE DEF Q
  <2> QED
    BY <1>0, <2>1, SmallestSubset
<1>3. IsFiniteSet(T) /\ Cardinality(T) \in Nat /\ Cardinality(T) >= k
  BY <1>0, FS_Subset, FS_CardinalityType
<1>4. ASSUME Cardinality(T) # k PROVE FALSE
  <2>1. T # {}
    BY <1>0, <1>3, <1>4, FS_EmptySet
  <2>2. PICK m \in T : \A y \in T : v[m] <= v[y]
    BY <2>1, NumberedPart, LeastExists
  <2> DEFINE U == T \ {m}
  <2>3. IsFiniteSet(U) /\ Cardinality(U) = Cardinality(T) - 1
    BY <1>3, FS_RemoveElement
  <2>4. Cardinality(U) >= k
    BY <1>0, <1>3, <1>4, <2>3
  <2>5. Ahead(U)
    <3> SUFFICES ASSUME NEW a \in U, NEW b \in S \ U PROVE v[a] >= v[b]
      OBVIOUS
    <3>1. CASE b = m
      <4>1. v[m] <= v[a] /\ v[m] \in Nat /\ v[a] \in Nat
        BY <2>2 DEF Numbered
      <4> QED
        BY <3>1, <4>1
    <3>2. CASE b \in S \ T
      BY <1>2, <3>2
    <3> QED
      BY <3>1, <3>2
  <2>6. U \in Q /\ U \subseteq T /\ U # T
    BY <2>4, <2>5
  <2> QED
    BY <1>2, <2>6
<1> QED
  BY <1>2, <1>4 DEF kSubset

-----------------------------------------------------------------------------
(* Buckets: days, or weeks or months, of numbers for agents.               *)

LEMMA ImageIsFinite ==
  ASSUME NEW S, IsFiniteSet(S), NEW f, NEW T, \A y \in T : \E x \in S : y = f[x]
  PROVE  IsFiniteSet(T)
<1> DEFINE I == {f[x] : x \in S}
           g == [x \in S |-> f[x]]
<1>1. g \in Surjection(S, I)
  BY DEF Surjection
<1>2. T \subseteq I
  OBVIOUS
<1> QED
  BY <1>1, <1>2, FS_Surjection, FS_Subset

Agents(b) == UNION {DOMAIN b[d] : d \in DOMAIN b}
DaysWith(b, a) == {d \in DOMAIN b : a \in DOMAIN b[d]}
Column(b, a) == [d \in DaysWith(b, a) |-> b[d][a]]
Totals(b) == [a \in Agents(b) |-> AgentTotal(b, a)]
Buckets(b) ==
  /\ IsFiniteSet(DOMAIN b) /\ IsFiniteSet(Agents(b))
  /\ \A d \in DOMAIN b : \A a \in DOMAIN b[d] : b[d][a] \in Nat

LEMMA TotalIs ==
  ASSUME NEW b, NEW a
  PROVE  AgentTotal(b, a) = SumFunctionOnSet(Column(b, a), DaysWith(b, a))
  BY DEF AgentTotal, SumFunction, Column, DaysWith

LEMMA ColumnNumbered ==
  ASSUME NEW b, Buckets(b), NEW a PROVE Numbered(Column(b, a), DaysWith(b, a))
  BY FS_Subset DEF Buckets, Numbered, Column, DaysWith

LEMMA TotalsNumbered ==
  ASSUME NEW b, Buckets(b) PROVE Numbered(Totals(b), Agents(b))
<1>1. \A a \in Agents(b) : AgentTotal(b, a) \in Nat
  BY ColumnNumbered, SumIsNat, TotalIs
<1> QED
  BY <1>1 DEF Totals, Numbered, Buckets

\* The dearest agents and the rest are all the agents, each once.
LEMMA LegendKeeps ==
  ASSUME NEW b, Buckets(b)
  PROVE  LET legend == splitLegend(b) IN
         SumFunctionOnSet(Totals(b), Agents(b)) =
           legend.overflow + SumFunction([a \in legend.visible |-> AgentTotal(b, a)])
<1> DEFINE S == Agents(b)
           v == Totals(b)
           n == Min({LegendSize, Cardinality(S)})
           Ahead(T) == \A x \in T, y \in S \ T : AgentTotal(b, x) >= AgentTotal(b, y)
           top == CHOOSE T \in kSubset(n, S) : Ahead(T)
<1>1. splitLegend(b) =
        [visible |-> top, overflow |-> SumFunction([a \in S \ top |-> AgentTotal(b, a)])]
  BY DEF splitLegend, Agents
<1>2. Numbered(v, S)
  BY TotalsNumbered
<1>3. n \in 0 .. Cardinality(S)
  <2> DEFINE c == Cardinality(S)
  <2>1. c \in Nat /\ LegendSize \in Nat
    BY <1>2, SpendAssumption, FS_CardinalityType DEF Numbered
  <2> HIDE DEF c
  <2>2. \E x \in {LegendSize, c} : \A y \in {LegendSize, c} : x <= y
    BY <2>1
  <2>3. Min({LegendSize, c}) \in {LegendSize, c} /\ Min({LegendSize, c}) <= c
    BY <2>2 DEF Min
  <2> QED
    BY <2>1, <2>3 DEF c
<1>4. top \in SUBSET S
  <2>1. PICK T \in kSubset(n, S) : \A x \in T, y \in S \ T : v[x] >= v[y]
    <3> HIDE DEF n, v, S
    <3> QED
      BY <1>2, <1>3, TopExists
  <2>2. T \in SUBSET S
    BY DEF kSubset
  <2>3. Ahead(T)
    BY <2>1, <2>2 DEF Totals
  <2> HIDE DEF Ahead, n, S
  <2>4. top \in kSubset(n, S)
    BY <2>1, <2>3
  <2> QED
    BY <2>4 DEF kSubset
<1> HIDE DEF top
<1>5. ASSUME NEW T \in SUBSET S
      PROVE  SumFunction([a \in T |-> AgentTotal(b, a)]) = SumFunctionOnSet(v, T)
  <2> DEFINE u == [a \in T |-> AgentTotal(b, a)]
  <2>1. IsFiniteSet(T)
    BY <1>2, FS_Subset DEF Numbered
  <2>2. \A a \in T : u[a] = v[a]
    BY DEF Totals
  <2>3. SumFunction(u) = SumFunctionOnSet(u, T)
    BY DEF SumFunction
  <2> HIDE DEF u, v
  <2> QED
    BY <2>1, <2>2, <2>3, SumAlike DEF u
<1>6. SumFunctionOnSet(v, S) = SumFunctionOnSet(v, S \ top) + SumFunctionOnSet(v, top)
  <2>1. (S \ top) \cup top = S /\ (S \ top) \cap top = {}
    BY <1>4
  <2> HIDE DEF S, v
  <2>2. Numbered(v, (S \ top) \cup top)
    BY <1>2, <2>1
  <2>3. SumFunctionOnSet(v, (S \ top) \cup top)
          = SumFunctionOnSet(v, S \ top) + SumFunctionOnSet(v, top)
    BY <2>1, <2>2, SumJoins
  <2> QED
    BY <2>1, <2>3
<1>7. /\ SumFunction([a \in S \ top |-> AgentTotal(b, a)]) = SumFunctionOnSet(v, S \ top)
      /\ SumFunction([a \in top |-> AgentTotal(b, a)]) = SumFunctionOnSet(v, top)
  BY <1>4, <1>5
<1>8. /\ splitLegend(b).visible = top
      /\ splitLegend(b).overflow = SumFunction([a \in S \ top |-> AgentTotal(b, a)])
  BY <1>1
<1> QED
  BY <1>6, <1>7, <1>8
-----------------------------------------------------------------------------
(* Weeks and months take nothing from an agent.                            *)

Rolled(b, g, k, a) ==
  SumFunction([d \in {x \in DOMAIN b : KeyOf(g, x) = k /\ a \in DOMAIN b[x]} |-> b[d][a]])

LEMMA RollIs ==
  ASSUME NEW b, NEW g
  PROVE  LET r == aggregateBuckets(b, g) IN
         /\ DOMAIN r = {KeyOf(g, d) : d \in DOMAIN b}
         /\ \A k \in DOMAIN r :
              /\ DOMAIN r[k] = UNION {DOMAIN b[d] : d \in {x \in DOMAIN b : KeyOf(g, x) = k}}
              /\ \A a \in DOMAIN r[k] : r[k][a] = Rolled(b, g, k, a)
<1> DEFINE days(k) == {d \in DOMAIN b : KeyOf(g, d) = k}
           r == aggregateBuckets(b, g)
<1>1. DOMAIN r = {KeyOf(g, d) : d \in DOMAIN b}
  BY DEF aggregateBuckets
<1>2. ASSUME NEW k \in DOMAIN r
      PROVE  /\ DOMAIN r[k] = UNION {DOMAIN b[d] : d \in days(k)}
             /\ \A a \in DOMAIN r[k] : r[k][a] = Rolled(b, g, k, a)
  <2>1. r[k] = [a \in UNION {DOMAIN b[d] : d \in days(k)} |->
                  SumFunction([d \in {x \in days(k) : a \in DOMAIN b[x]} |-> b[d][a]])]
    BY DEF aggregateBuckets
  <2>2. DOMAIN r[k] = UNION {DOMAIN b[d] : d \in days(k)}
    BY <2>1
  <2>3. ASSUME NEW a \in DOMAIN r[k] PROVE r[k][a] = Rolled(b, g, k, a)
    <3>1. r[k][a] = SumFunction([d \in {x \in days(k) : a \in DOMAIN b[x]} |-> b[d][a]])
      BY <2>1
    <3>2. {x \in days(k) : a \in DOMAIN b[x]}
            = {x \in DOMAIN b : KeyOf(g, x) = k /\ a \in DOMAIN b[x]}
      OBVIOUS
    <3> QED
      BY <3>1, <3>2 DEF Rolled
  <2> QED
    BY <2>2, <2>3
<1> QED
  BY <1>1, <1>2

LEMMA RollKeepsAgents ==
  ASSUME NEW b, NEW g PROVE Agents(aggregateBuckets(b, g)) = Agents(b)
<1> DEFINE r == aggregateBuckets(b, g)
<1>1. /\ DOMAIN r = {KeyOf(g, d) : d \in DOMAIN b}
      /\ \A k \in DOMAIN r :
           DOMAIN r[k] = UNION {DOMAIN b[d] : d \in {x \in DOMAIN b : KeyOf(g, x) = k}}
  <2>1. LET q == r IN
        /\ DOMAIN q = {KeyOf(g, d) : d \in DOMAIN b}
        /\ \A k \in DOMAIN q :
             /\ DOMAIN q[k] = UNION {DOMAIN b[d] : d \in {x \in DOMAIN b : KeyOf(g, x) = k}}
             /\ \A a \in DOMAIN q[k] : q[k][a] = Rolled(b, g, k, a)
    BY RollIs
  <2> HIDE DEF r
  <2> QED
    BY <2>1
<1> HIDE DEF r
<1>2. ASSUME NEW a \in Agents(r) PROVE a \in Agents(b)
  <2>1. PICK k \in DOMAIN r : a \in DOMAIN r[k]
    BY DEF Agents
  <2> QED
    BY <1>1, <2>1 DEF Agents
<1>3. ASSUME NEW a \in Agents(b) PROVE a \in Agents(r)
  <2>1. PICK d \in DOMAIN b : a \in DOMAIN b[d]
    BY DEF Agents
  <2>2. KeyOf(g, d) \in DOMAIN r
    BY <1>1
  <2>3. a \in DOMAIN r[KeyOf(g, d)]
    BY <1>1, <2>1, <2>2
  <2> QED
    BY <2>2, <2>3 DEF Agents
<1> QED
  BY <1>2, <1>3 DEF r

\* A bucket of a roll-up has an agent's column of the days that fall in it.
LEMMA RolledIs ==
  ASSUME NEW b, Buckets(b), NEW g, NEW k, NEW a, NEW key,
         \A d \in DOMAIN b : key[d] = KeyOf(g, d)
  PROVE  Rolled(b, g, k, a) = SumFunctionOnSet(Column(b, a), Fibre(DaysWith(b, a), key, k))
<1> DEFINE F == Fibre(DaysWith(b, a), key, k)
           u == [d \in F |-> b[d][a]]
           v == Column(b, a)
<1>1. {x \in DOMAIN b : KeyOf(g, x) = k /\ a \in DOMAIN b[x]} = F
  BY DEF Fibre, DaysWith
<1>2. Rolled(b, g, k, a) = SumFunctionOnSet(u, F)
  BY <1>1 DEF Rolled, SumFunction
<1>3. IsFiniteSet(F)
  BY FS_Subset DEF Buckets, Fibre, DaysWith
<1>4. \A d \in F : u[d] = v[d]
  BY DEF Column, Fibre
<1> HIDE DEF F, u, v
<1> QED
  BY <1>2, <1>3, <1>4, SumAlike DEF F, v

LEMMA RollKeeps ==
  ASSUME NEW b, Buckets(b), NEW g
  PROVE  /\ Buckets(aggregateBuckets(b, g))
         /\ Totals(aggregateBuckets(b, g)) = Totals(b)
<1> DEFINE r == aggregateBuckets(b, g)
           key == [d \in DOMAIN b |-> KeyOf(g, d)]
<1>1. /\ DOMAIN r = {KeyOf(g, d) : d \in DOMAIN b}
      /\ \A k \in DOMAIN r :
           /\ DOMAIN r[k] = UNION {DOMAIN b[d] : d \in {x \in DOMAIN b : KeyOf(g, x) = k}}
           /\ \A a \in DOMAIN r[k] : r[k][a] = Rolled(b, g, k, a)
  BY RollIs
<1>2. Agents(r) = Agents(b)
  BY RollKeepsAgents
<1>3. \A d \in DOMAIN b : key[d] = KeyOf(g, d)
  OBVIOUS
<1> HIDE DEF r, key
<1>4. ASSUME NEW k \in DOMAIN r, NEW a \in DOMAIN r[k]
      PROVE  r[k][a] = SumFunctionOnSet(Column(b, a), Fibre(DaysWith(b, a), key, k))
  BY <1>1, <1>3, RolledIs
<1>5. IsFiniteSet(DOMAIN r)
  <2>1. IsFiniteSet(DOMAIN b)
    BY DEF Buckets
  <2>2. DOMAIN r = {key[d] : d \in DOMAIN b}
    BY <1>1, <1>3
  <2>3. \A k \in DOMAIN r : \E d \in DOMAIN b : k = key[d]
    BY <2>2
  <2> QED
    BY <2>1, <2>3, ImageIsFinite
<1>6. Buckets(r)
  <2>1. ASSUME NEW k \in DOMAIN r, NEW a \in DOMAIN r[k] PROVE r[k][a] \in Nat
    <3>1. Numbered(Column(b, a), Fibre(DaysWith(b, a), key, k))
      BY ColumnNumbered, NumberedPart DEF Fibre
    <3> QED
      BY <1>4, <3>1, SumIsNat
  <2> QED
    BY <1>2, <1>5, <2>1 DEF Buckets
<1>7. ASSUME NEW a \in Agents(b) PROVE AgentTotal(r, a) = AgentTotal(b, a)
  <2> DEFINE S == DaysWith(b, a)
             w == Column(b, a)
             K == DaysWith(r, a)
             v == Column(r, a)
  <2>1. \A d \in S : key[d] \in K
    <3> SUFFICES ASSUME NEW d \in S PROVE KeyOf(g, d) \in K
      BY <1>3 DEF DaysWith
    <3>1. d \in DOMAIN b /\ a \in DOMAIN b[d]
      BY DEF DaysWith
    <3>2. KeyOf(g, d) \in DOMAIN r
      BY <1>1, <3>1
    <3>3. a \in DOMAIN r[KeyOf(g, d)]
      BY <1>1, <3>1, <3>2
    <3> QED
      BY <3>2, <3>3 DEF DaysWith
  <2>2. Numbered(w, S) /\ Numbered(v, K)
    BY <1>6, ColumnNumbered
  <2>3. \A k \in K : v[k] = ByKey(w, S, key, K)[k]
    BY <1>4 DEF Column, DaysWith, ByKey
  <2>4. AgentTotal(b, a) = SumFunctionOnSet(w, S) /\ AgentTotal(r, a) = SumFunctionOnSet(v, K)
    BY TotalIs
  <2> HIDE DEF S, w, K, v
  <2>5. SumFunctionOnSet(w, S) = SumFunctionOnSet(ByKey(w, S, key, K), K)
    BY <2>1, <2>2, SumByKey DEF Numbered
  <2>6. SumFunctionOnSet(v, K) = SumFunctionOnSet(ByKey(w, S, key, K), K)
    BY <2>2, <2>3, SumAlike DEF Numbered
  <2> QED
    BY <2>4, <2>5, <2>6
<1>8. Totals(r) = Totals(b)
  BY <1>2, <1>7 DEF Totals
<1> QED
  BY <1>6, <1>8 DEF r

-----------------------------------------------------------------------------
(* The rows, by day and by agent.                                          *)

Cost(rows) == [c \in Call |-> rows[c] * CostOf[c]]
Live(rows) == {c \in Call : rows[c] > 0}
Of(d, a) == {c \in Call : DayOf[c] = d /\ AgentOf[c] = a}

LEMMA CostNumbered ==
  ASSUME SpendAssumption, NEW rows \in [Call -> 0 .. 2] PROVE Numbered(Cost(rows), Call)
<1> SUFFICES ASSUME NEW c \in Call PROVE rows[c] * CostOf[c] \in Nat
  BY DEF Cost, Numbered, SpendAssumption
<1>1. CostOf[c] \in Nat /\ rows[c] \in {0, 1, 2}
  BY DEF SpendAssumption
<1> QED
  BY <1>1

LEMMA CostOfNone ==
  ASSUME SpendAssumption, NEW rows \in [Call -> 0 .. 2], NEW c \in Call, c \notin Live(rows)
  PROVE  Cost(rows)[c] = 0
<1>1. CostOf[c] \in Nat
  BY DEF SpendAssumption
<1>3. rows[c] = 0
  <2>1. rows[c] \in {0, 1, 2} /\ ~(rows[c] > 0)
    BY DEF Live
  <2> QED
    BY <2>1
<1>2. Cost(rows)[c] = rows[c] * CostOf[c]
  BY DEF Cost
<1> QED
  BY <1>1, <1>2, <1>3

LEMMA BucketsAre ==
  ASSUME SpendAssumption, NEW rows \in [Call -> 0 .. 2]
  PROVE  LET b == bucketRows(rows) IN
         /\ DOMAIN b = {DayOf[c] : c \in Live(rows)}
         /\ \A d \in DOMAIN b : \A a :
              a \in DOMAIN b[d] <=> \E c \in Live(rows) : DayOf[c] = d /\ AgentOf[c] = a
         /\ \A d \in DOMAIN b : \A a \in DOMAIN b[d] :
              b[d][a] = SumFunctionOnSet(Cost(rows), Of(d, a))
<1> DEFINE b == bucketRows(rows)
           at(d) == {x \in Call : rows[x] > 0 /\ DayOf[x] = d}
<1>1. DOMAIN b = {DayOf[c] : c \in Live(rows)}
  BY DEF bucketRows, Live
<1>2. ASSUME NEW d \in DOMAIN b
      PROVE  /\ \A a : a \in DOMAIN b[d] <=> \E c \in Live(rows) : DayOf[c] = d /\ AgentOf[c] = a
             /\ \A a \in DOMAIN b[d] : b[d][a] = SumFunctionOnSet(Cost(rows), Of(d, a))
  <2>1. b[d] = [a \in {AgentOf[c] : c \in at(d)} |-> SpendOf(rows, d, a)]
    BY DEF bucketRows
  <2>2. \A a : a \in {AgentOf[c] : c \in at(d)}
                <=> \E c \in Live(rows) : DayOf[c] = d /\ AgentOf[c] = a
    BY DEF Live
  <2>3. ASSUME NEW a PROVE SpendOf(rows, d, a) = SumFunctionOnSet(Cost(rows), Of(d, a))
    <3> DEFINE u == [c \in Of(d, a) |-> rows[c] * CostOf[c]]
    <3>1. SpendOf(rows, d, a) = SumFunctionOnSet(u, Of(d, a))
      BY DEF SpendOf, SumFunction, Of
    <3>2. IsFiniteSet(Of(d, a))
      BY FS_Subset DEF Of, SpendAssumption
    <3>3. \A c \in Of(d, a) : u[c] = Cost(rows)[c]
      BY DEF Cost, Of
    <3> HIDE DEF u
    <3> QED
      BY <3>1, <3>2, <3>3, SumAlike
  <2> HIDE DEF b, at
  <2> QED
    BY <2>1, <2>2, <2>3
<1> QED
  BY <1>1, <1>2

\* A day that an agent worked has what its calls cost.
LEMMA LiveBuckets ==
  ASSUME SpendAssumption, NEW rows \in [Call -> 0 .. 2]
  PROVE  LET b == bucketRows(rows) IN
         /\ Buckets(b)
         /\ Agents(b) = {AgentOf[c] : c \in Live(rows)}
         /\ \A c \in Live(rows) : DayOf[c] \in DaysWith(b, AgentOf[c])
<1> DEFINE b == bucketRows(rows)
           L == Live(rows)
           costs(d, a) == SumFunctionOnSet(Cost(rows), Of(d, a))
           Who(d, a) == \E c \in L : DayOf[c] = d /\ AgentOf[c] = a
<1>1. DOMAIN b = {DayOf[c] : c \in L}
  BY BucketsAre
<1>2. \A d \in DOMAIN b : \A a : a \in DOMAIN b[d] <=> Who(d, a)
  BY BucketsAre
<1>3. \A d \in DOMAIN b : \A a \in DOMAIN b[d] : b[d][a] = costs(d, a)
  BY BucketsAre
<1>4. IsFiniteSet(L)
  BY FS_Subset DEF Live, SpendAssumption
<1>5. \A d, a : costs(d, a) \in Nat
  <2> SUFFICES ASSUME NEW d, NEW a PROVE costs(d, a) \in Nat
    OBVIOUS
  <2>1. Of(d, a) \subseteq Call
    BY DEF Of
  <2> QED
    BY <2>1, CostNumbered, NumberedPart, SumIsNat
<1> HIDE DEF b, L, costs
<1>6. ASSUME NEW c \in L PROVE DayOf[c] \in DOMAIN b /\ AgentOf[c] \in DOMAIN b[DayOf[c]]
  <2>1. DayOf[c] \in DOMAIN b /\ Who(DayOf[c], AgentOf[c])
    BY <1>1
  <2> QED
    BY <1>2, <2>1
<1>7. Agents(b) = {AgentOf[c] : c \in L}
  <2>1. ASSUME NEW a \in Agents(b) PROVE a \in {AgentOf[c] : c \in L}
    <3>1. PICK d \in DOMAIN b : a \in DOMAIN b[d]
      BY DEF Agents
    <3>2. Who(d, a)
      BY <1>2, <3>1
    <3> QED
      BY <3>2
  <2>2. ASSUME NEW c \in L PROVE AgentOf[c] \in Agents(b)
    BY <1>6 DEF Agents
  <2> QED
    BY <2>1, <2>2
<1>8. \A c \in L : DayOf[c] \in DaysWith(b, AgentOf[c])
  BY <1>6 DEF DaysWith
<1>9. Buckets(b)
  <2>1. IsFiniteSet(DOMAIN b)
    <3>1. \A d \in DOMAIN b : \E c \in L : d = DayOf[c]
      BY <1>1
    <3> QED
      BY <1>4, <3>1, ImageIsFinite
  <2>2. IsFiniteSet(Agents(b))
    <3>1. \A a \in Agents(b) : \E c \in L : a = AgentOf[c]
      BY <1>7
    <3> QED
      BY <1>4, <3>1, ImageIsFinite
  <2>3. \A d \in DOMAIN b : \A a \in DOMAIN b[d] : b[d][a] \in Nat
    BY <1>3, <1>5
  <2> QED
    BY <2>1, <2>2, <2>3 DEF Buckets
<1> QED
  BY <1>7, <1>8, <1>9 DEF b, L

\* An agent's days have what its calls cost.
LEMMA AgentSpends ==
  ASSUME SpendAssumption, NEW rows \in [Call -> 0 .. 2], NEW a
  PROVE  AgentTotal(bucketRows(rows), a)
           = SumFunctionOnSet(Cost(rows), Fibre(Live(rows), AgentOf, a))
<1> DEFINE b == bucketRows(rows)
           w == Cost(rows)
           F == Fibre(Live(rows), AgentOf, a)
           K == DaysWith(b, a)
           v == Column(b, a)
<1>1. Buckets(b) /\ \A c \in Live(rows) : DayOf[c] \in DaysWith(b, AgentOf[c])
  BY LiveBuckets
<1>2. Numbered(v, K) /\ Numbered(w, Call)
  BY <1>1, ColumnNumbered, CostNumbered
<1>3. F \subseteq Call /\ Numbered(w, F)
  BY <1>2, NumberedPart DEF Fibre, Live
<1>4. \A c \in F : DayOf[c] \in K
  BY <1>1 DEF Fibre
<1>5. ASSUME NEW d \in K PROVE v[d] = ByKey(w, F, DayOf, K)[d]
  <2>1. d \in DOMAIN b /\ a \in DOMAIN b[d]
    BY DEF DaysWith
  <2>2. b[d][a] = SumFunctionOnSet(w, Of(d, a))
    <3>1. \A x \in DOMAIN b : \A y \in DOMAIN b[x] : b[x][y] = SumFunctionOnSet(w, Of(x, y))
      BY BucketsAre
    <3> HIDE DEF b, w
    <3> QED
      BY <2>1, <3>1
  <2>3. Of(d, a) \subseteq Call /\ Fibre(F, DayOf, d) \subseteq Of(d, a)
    BY DEF Of, Fibre, Live
  <2>4. \A c \in Of(d, a) \ Fibre(F, DayOf, d) : w[c] = 0
    <3> SUFFICES ASSUME NEW c \in Of(d, a) \ Fibre(F, DayOf, d)
                 PROVE  c \in Call /\ c \notin Live(rows)
      BY CostOfNone
    <3> QED
      BY DEF Of, Fibre
  <2>5. Numbered(w, Of(d, a))
    BY <1>2, <2>3, NumberedPart
  <2>6. SumFunctionOnSet(w, Of(d, a)) = SumFunctionOnSet(w, Fibre(F, DayOf, d))
    <3> HIDE DEF w, F
    <3> QED
      BY <2>3, <2>4, <2>5, SumWithout
  <2> QED
    BY <2>2, <2>6 DEF Column, ByKey
<1>6. AgentTotal(b, a) = SumFunctionOnSet(v, K)
  BY TotalIs
<1> HIDE DEF b, w, F, K, v
<1>7. SumFunctionOnSet(w, F) = SumFunctionOnSet(ByKey(w, F, DayOf, K), K)
  BY <1>2, <1>3, <1>4, SumByKey DEF Numbered
<1>8. SumFunctionOnSet(v, K) = SumFunctionOnSet(ByKey(w, F, DayOf, K), K)
  BY <1>2, <1>5, SumAlike DEF Numbered
<1>9. AgentTotal(b, a) = SumFunctionOnSet(w, F)
  BY <1>6, <1>7, <1>8
<1> QED
  BY <1>9 DEF b, w, F

\* The agents have what all the calls cost.
LEMMA SpendByAgent ==
  ASSUME SpendAssumption, NEW rows \in [Call -> 0 .. 2]
  PROVE  SumFunctionOnSet(Cost(rows), Call)
           = SumFunctionOnSet(Totals(bucketRows(rows)), Agents(bucketRows(rows)))
<1> DEFINE b == bucketRows(rows)
           w == Cost(rows)
           L == Live(rows)
           K == Agents(b)
           v == Totals(b)
<1>1. Buckets(b) /\ K = {AgentOf[c] : c \in L}
  BY LiveBuckets
<1>2. Numbered(w, Call) /\ Numbered(v, K)
  BY <1>1, CostNumbered, TotalsNumbered
<1>3. L \subseteq Call /\ \A c \in Call \ L : w[c] = 0
  BY CostOfNone DEF Live
<1>4. \A a \in K : v[a] = ByKey(w, L, AgentOf, K)[a]
  BY AgentSpends DEF Totals, ByKey
<1>5. \A c \in L : AgentOf[c] \in K
  BY <1>1
<1> HIDE DEF b, w, L, K, v
<1>6. SumFunctionOnSet(w, Call) = SumFunctionOnSet(w, L)
  BY <1>2, <1>3, SumWithout
<1>7. Numbered(w, L) /\ IsFiniteSet(K)
  BY <1>2, <1>3, NumberedPart DEF Numbered
<1>8. SumFunctionOnSet(w, L) = SumFunctionOnSet(ByKey(w, L, AgentOf, K), K)
  <2> DEFINE key == AgentOf
  <2>1. \A c \in L : key[c] \in K
    BY <1>5
  <2> HIDE DEF key
  <2>2. SumFunctionOnSet(w, L) = SumFunctionOnSet(ByKey(w, L, key, K), K)
    BY <1>7, <2>1, SumByKey
  <2> QED
    BY <2>2 DEF key
<1>9. SumFunctionOnSet(v, K) = SumFunctionOnSet(ByKey(w, L, AgentOf, K), K)
  BY <1>4, <1>7, SumAlike
<1>10. SumFunctionOnSet(w, Call) = SumFunctionOnSet(v, K)
  BY <1>6, <1>8, <1>9
<1> QED
  BY <1>10 DEF b, w, K, v

\* However the rows are rolled up, and wherever the legend is cut, it adds up.
LEMMA LegendAddsUp ==
  ASSUME SpendAssumption, NEW rows \in [Call -> 0 .. 2], NEW g
  PROVE  LET rolled == aggregateBuckets(bucketRows(rows), g)
             legend == splitLegend(rolled)
         IN SumFunction([c \in Call |-> rows[c] * CostOf[c]])
              = legend.overflow + SumFunction([a \in legend.visible |-> AgentTotal(rolled, a)])
<1> DEFINE b == bucketRows(rows)
           r == aggregateBuckets(b, g)
           total == SumFunction([c \in Call |-> rows[c] * CostOf[c]])
           cut == splitLegend(r).overflow
                    + SumFunction([a \in splitLegend(r).visible |-> AgentTotal(r, a)])
<1>1. total = SumFunctionOnSet(Cost(rows), Call)
  BY DEF SumFunction, Cost
<1>2. SumFunctionOnSet(Cost(rows), Call) = SumFunctionOnSet(Totals(b), Agents(b))
  BY SpendByAgent
<1>3. Buckets(b)
  BY LiveBuckets
<1>4. Buckets(r) /\ Totals(r) = Totals(b) /\ Agents(r) = Agents(b)
  BY <1>3, RollKeeps, RollKeepsAgents
<1>5. SumFunctionOnSet(Totals(r), Agents(r)) = cut
  BY <1>4, LegendKeeps
<1>6. total = cut
  <2> HIDE DEF total, cut, b, r
  <2> QED
    BY <1>1, <1>2, <1>4, <1>5
<1> QED
  BY <1>6

LEMMA SpendFollows ==
  ASSUME SpendAssumption, shown \in [Call -> 0 .. 2] PROVE SpendIsConserved
<1> SUFFICES ASSUME NEW g \in {"daily", "weekly", "monthly"}
             PROVE  LET rolled == aggregateBuckets(bucketRows(shown), g)
                        legend == splitLegend(rolled)
                    IN SumFunction([c \in Call |-> shown[c] * CostOf[c]])
                         = legend.overflow
                           + SumFunction([a \in legend.visible |-> AgentTotal(rolled, a)])
  BY DEF SpendIsConserved
<1> QED
  BY LegendAddsUp

-----------------------------------------------------------------------------
(* What is shown is rows of the counter.                                   *)

Shown == shown \in [Call -> 0 .. 2]

LEMMA ShownStep == ASSUME HistoryInv, Shown, [Next]_vars PROVE Shown'
<1>1. CASE \E f \in Fetch : Show(f)
  <2>1. PICK f \in Fetch : Show(f)
    BY <1>1
  <2>2. request[f] \in Request /\ shown' = request[f].rows
    BY <2>1 DEF Show, HistoryInv, Types
  <2> QED
    BY <2>2 DEF Shown, Request
<1>2. CASE UNCHANGED shown
  BY <1>2 DEF Shown
<1>3. ASSUME Next, ~(\E f \in Fetch : Show(f)) PROVE UNCHANGED shown
  BY <1>3 DEF Next, Emit, Mirror, Count, Arrive, FillCheck, FillList, FillWrite, FillFails,
     MirrorFails, ReadRows, KeepLastGood, Poll, Refresh, Hide, Midnight, page
<1>4. CASE UNCHANGED vars
  BY <1>2, <1>4 DEF vars, page
<1> QED
  BY <1>1, <1>2, <1>3, <1>4

\* Whatever is on the page, its days, weeks and months, its legend and the rest below
\* it have, between them, the spend of the rows they are made of: no bucket, agent or
\* cut of the legend loses a call or has it twice.
THEOREM NothingIsLost == Spec => []SpendIsConserved
<1>1. Init => HistoryInv /\ Shown
  BY SpendAssumption, InitHolds, AsleepIs DEF Init, Shown
<1>2. HistoryInv /\ Shown /\ [Next]_vars => HistoryInv' /\ Shown'
  BY SpendAssumption, StepHolds, ShownStep
<1>3. Shown => SpendIsConserved
  BY SpendAssumption, SpendFollows DEF Shown
<1> QED
  BY <1>1, <1>2, <1>3, PTL DEF Spec
=============================================================================
