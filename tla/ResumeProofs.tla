----------------------------- MODULE ResumeProofs -----------------------------
(***************************************************************************)
(* What is found on return.  The room, for any number of sockets, any      *)
(* backlog, any rate and a log of any length: backlog and live stream      *)
(* meet, the members see the same roster, and no connection exceeds its    *)
(* minute.  And the checkpoint rows, for any number of processes, values   *)
(* and rows: a resume starts from a value the run was saved with, the last *)
(* one if no save failed.                                                  *)
(***************************************************************************)
EXTENDS MCResume, FiniteSetTheorems, TLAPS

-----------------------------------------------------------------------------
(* Ids in order.  Induction comes from counting: a set of naturals that    *)
(* holds everything below each of its members is 1 .. its size.            *)

LEMMA DownwardClosed ==
  ASSUME NEW n \in Nat, NEW D \in SUBSET (1 .. n), \A i \in D : 1 .. i \subseteq D
  PROVE  D = 1 .. Cardinality(D) /\ Cardinality(D) \in 0 .. n /\ IsFiniteSet(D)
<1> DEFINE k == Cardinality(D)
<1>1. IsFiniteSet(1 .. n) /\ Cardinality(1 .. n) = n
  BY FS_Interval
<1>2. IsFiniteSet(D) /\ k \in Nat /\ k <= n
  BY <1>1, FS_Subset, FS_CardinalityType
<1>3. ASSUME NEW i \in D PROVE i <= k
  <2>1. Cardinality(1 .. i) = i
    BY FS_Interval
  <2>2. Cardinality(1 .. i) <= k
    BY <1>2, FS_Subset
  <2> QED
    BY <1>2, <2>1, <2>2
<1>4. D \subseteq 1 .. k
  BY <1>2, <1>3
<1>5. IsFiniteSet(1 .. k) /\ Cardinality(1 .. k) = k
  BY <1>2, FS_Interval
<1>6. D = 1 .. k
  BY <1>4, <1>5, FS_Subset
<1> QED
  BY <1>2, <1>6

LEMMA LeastNumber ==
  ASSUME NEW T \in SUBSET Nat, T # {}
  PROVE  \E m \in T : \A n \in T : m <= n
<1>1. PICK t \in T : TRUE
  OBVIOUS
<1> DEFINE D == {i \in 1 .. t : \A j \in 0 .. i - 1 : j \notin T}
           k == Cardinality(D)
<1>2. D \in SUBSET (1 .. t) /\ \A i \in D : 1 .. i \subseteq D
  OBVIOUS
<1>3. \A i : i \in D <=> i \in 1 .. t /\ \A j \in 0 .. i - 1 : j \notin T
  OBVIOUS
<1> HIDE DEF D
<1>4. D = 1 .. k /\ k \in 0 .. t
  BY <1>2, DownwardClosed
<1> HIDE DEF k
<1>5. \A j \in 0 .. k - 1 : j \notin T
  <2>1. k = 0 \/ k \in D
    BY <1>4
  <2> QED
    BY <1>3, <2>1
<1>6. k \in T
  <2>1. CASE k = t
    BY <2>1
  <2>2. CASE k # t
    <3>1. k + 1 \in 1 .. t /\ k + 1 \notin D
      BY <1>4, <2>2
    <3>2. PICK j \in 0 .. (k + 1) - 1 : j \in T
      BY <1>3, <3>1
    <3> QED
      BY <1>4, <1>5, <3>2
  <2> QED
    BY <2>1, <2>2
<1>7. \A n \in T : k <= n
  BY <1>4, <1>5
<1> QED
  BY <1>6, <1>7

LEMMA Induction ==
  ASSUME NEW P, 0 \in P, \A n \in Nat : n \in P => n + 1 \in P
  PROVE  Nat \subseteq P
<1> SUFFICES ASSUME Nat \ P # {} PROVE FALSE
  OBVIOUS
<1>1. PICK m \in Nat \ P : \A n \in Nat \ P : m <= n
  BY LeastNumber
<1>2. m # 0 /\ m - 1 \in Nat
  BY <1>1
<1>3. m - 1 \in P
  BY <1>1, <1>2
<1> QED
  BY <1>1, <1>2, <1>3

Below(ids, i) == {j \in ids : j < i}

LEMMA RankedIsBelow ==
  ASSUME NEW ids, NEW k PROVE Ranked(ids, k) = {i \in ids : Cardinality(Below(ids, i)) = k - 1}
BY DEF Ranked, Below

\* A newest id comes last.
LEMMA OrderAppends ==
  ASSUME NEW n \in Nat, NEW ids \in SUBSET (0 .. n - 1)
  PROVE  /\ IsFiniteSet(ids) /\ Cardinality(ids) \in Nat
         /\ Cardinality(ids \cup {n}) = Cardinality(ids) + 1
         /\ \A k \in 1 .. Cardinality(ids) : Ranked(ids \cup {n}, k) = Ranked(ids, k)
         /\ Ranked(ids \cup {n}, Cardinality(ids) + 1) = {n}
<1> DEFINE more == ids \cup {n}
           c == Cardinality(ids)
<1>1. IsFiniteSet(0 .. n - 1)
  BY FS_Interval
<1>2. IsFiniteSet(ids) /\ c \in Nat
  BY <1>1, FS_Subset, FS_CardinalityType
<1>3. Cardinality(more) = c + 1
  <2>1. n \notin ids
    OBVIOUS
  <2>2. Cardinality(ids \cup {n}) = Cardinality(ids) + 1
    BY <1>2, <2>1, FS_AddElement
  <2> QED
    BY <2>2
<1>4. \A i \in ids : Below(more, i) = Below(ids, i)
  BY DEF Below
<1>5. Below(more, n) = ids
  <2>1. \A j \in ids : j < n
    OBVIOUS
  <2>2. ~(n < n)
    OBVIOUS
  <2> QED
    BY <2>1, <2>2 DEF Below
<1>6. ASSUME NEW i \in ids PROVE Cardinality(Below(ids, i)) \in Nat /\ Cardinality(Below(ids, i)) < c
  <2>1. Below(ids, i) \subseteq ids /\ i \notin Below(ids, i)
    BY DEF Below
  <2>2. Cardinality(Below(ids, i)) <= c /\ Cardinality(Below(ids, i)) \in Nat
        /\ (Cardinality(Below(ids, i)) = c => Below(ids, i) = ids)
    BY <1>2, <2>1, FS_Subset, FS_CardinalityType
  <2> QED
    BY <1>2, <2>1, <2>2
<1> HIDE DEF c, more
<1>7. ASSUME NEW k \in 1 .. c PROVE Ranked(more, k) = Ranked(ids, k)
  <2>1. Ranked(more, k) = {i \in more : Cardinality(Below(more, i)) = k - 1}
    BY RankedIsBelow
  <2>2. Ranked(ids, k) = {i \in ids : Cardinality(Below(ids, i)) = k - 1}
    BY RankedIsBelow
  <2>3. n \notin Ranked(more, k)
    BY <1>2, <1>5, <2>1 DEF c
  <2>4. more = ids \cup {n}
    BY DEF more
  <2> QED
    BY <1>4, <2>1, <2>2, <2>3, <2>4
<1>8. Ranked(more, c + 1) = {n}
  <2>1. Ranked(more, c + 1) = {i \in more : Cardinality(Below(more, i)) = (c + 1) - 1}
    BY RankedIsBelow
  <2>2. \A i \in ids : Cardinality(Below(more, i)) # (c + 1) - 1
    BY <1>2, <1>4, <1>6
  <2>3. Cardinality(Below(more, n)) = (c + 1) - 1
    BY <1>2, <1>5 DEF c
  <2>4. more = ids \cup {n}
    BY DEF more
  <2> QED
    BY <2>1, <2>2, <2>3, <2>4
<1> QED
  BY <1>2, <1>3, <1>7, <1>8 DEF c, more

\* Each rank is held by one id.
LEMMA EachRankIsHeld ==
  \A n \in Nat : \A ids \in SUBSET (0 .. n - 1) :
    \A k \in 1 .. Cardinality(ids) : \E i \in ids : Ranked(ids, k) = {i}
<1> DEFINE P == {n \in Nat : \A ids \in SUBSET (0 .. n - 1) :
                   \A k \in 1 .. Cardinality(ids) : \E i \in ids : Ranked(ids, k) = {i}}
<1>1. 0 \in P
  <2>1. Cardinality({}) = 0
    BY FS_EmptySet
  <2>2. \A ids \in SUBSET (0 .. 0 - 1) : ids = {}
    OBVIOUS
  <2>3. \A ids \in SUBSET (0 .. 0 - 1) : Cardinality(ids) = 0
    BY <2>1, <2>2
  <2> QED
    BY <2>3
<1>2. ASSUME NEW n \in Nat, n \in P PROVE n + 1 \in P
  <2> SUFFICES ASSUME NEW ids \in SUBSET (0 .. n),
                      NEW k \in 1 .. Cardinality(ids)
               PROVE  \E i \in ids : Ranked(ids, k) = {i}
    OBVIOUS
  <2>1. CASE n \notin ids
    <3>1. ids \in SUBSET (0 .. n - 1)
      BY <2>1
    <3> QED
      BY <1>2, <3>1
  <2>2. CASE n \in ids
    <3> DEFINE old == ids \ {n}
    <3>1. old \in SUBSET (0 .. n - 1) /\ ids = old \cup {n}
      BY <2>2
    <3> HIDE DEF old
    <3>2. /\ Cardinality(old) \in Nat /\ Cardinality(ids) = Cardinality(old) + 1
          /\ \A j \in 1 .. Cardinality(old) : Ranked(ids, j) = Ranked(old, j)
          /\ Ranked(ids, Cardinality(old) + 1) = {n}
      BY <3>1, OrderAppends
    <3>3. \A j \in 1 .. Cardinality(old) : \E i \in old : Ranked(old, j) = {i}
      BY <1>2, <3>1
    <3>4. k \in 1 .. Cardinality(old) \/ k = Cardinality(old) + 1
      BY <3>2
    <3> QED
      BY <2>2, <3>1, <3>2, <3>3, <3>4
  <2> QED
    BY <2>1, <2>2
<1> HIDE DEF P
<1>3. Nat \subseteq P
  BY <1>1, <1>2, Induction
<1> QED
  BY <1>3 DEF P

LEMMA NthInOrder ==
  ASSUME NEW n \in Nat, NEW ids \in SUBSET (0 .. n - 1), NEW k \in 1 .. Cardinality(ids)
  PROVE  InOrder(ids)[k] \in ids /\ Ranked(ids, k) = {InOrder(ids)[k]}
<1>1. PICK i \in ids : Ranked(ids, k) = {i}
  BY EachRankIsHeld
<1>2. (CHOOSE j \in Ranked(ids, k) : TRUE) = i
  BY <1>1
<1>3. InOrder(ids)[k] = CHOOSE j \in Ranked(ids, k) : TRUE
  BY DEF InOrder
<1> QED
  BY <1>1, <1>2, <1>3

LEMMA InOrderIsASequence ==
  ASSUME NEW n \in Nat, NEW ids \in SUBSET (0 .. n - 1)
  PROVE  InOrder(ids) \in Seq(Nat) /\ Len(InOrder(ids)) = Cardinality(ids)
<1>1. IsFiniteSet(ids) /\ Cardinality(ids) \in Nat
  BY OrderAppends
<1>2. ASSUME NEW k \in 1 .. Cardinality(ids) PROVE InOrder(ids)[k] \in Nat
  <2>1. InOrder(ids)[k] \in ids
    BY NthInOrder
  <2>2. \A i \in ids : i \in Nat
    OBVIOUS
  <2> QED
    BY <2>1, <2>2
<1> DEFINE nth(k) == CHOOSE i \in Ranked(ids, k) : TRUE
<1>3. InOrder(ids) = [k \in 1 .. Cardinality(ids) |-> nth(k)]
  BY DEF InOrder
<1> HIDE DEF nth
<1>4. InOrder(ids) \in [1 .. Cardinality(ids) -> Nat]
  BY <1>2, <1>3
<1> QED
  BY <1>1, <1>4

LEMMA OrderGrows ==
  ASSUME NEW n \in Nat, NEW ids \in SUBSET (0 .. n - 1)
  PROVE  InOrder(ids \cup {n}) = Append(InOrder(ids), n)
<1> DEFINE c == Cardinality(ids)
           longer == InOrder(ids \cup {n})
           known == InOrder(ids)
<1>1. /\ c \in Nat /\ Cardinality(ids \cup {n}) = c + 1
      /\ \A k \in 1 .. c : Ranked(ids \cup {n}, k) = Ranked(ids, k)
      /\ Ranked(ids \cup {n}, c + 1) = {n}
  BY OrderAppends
<1>2. known \in Seq(Nat) /\ Len(known) = c
  BY InOrderIsASequence
<1>3. n + 1 \in Nat /\ ids \cup {n} \in SUBSET (0 .. (n + 1) - 1)
  OBVIOUS
<1>4. longer \in Seq(Nat) /\ Len(longer) = c + 1
  <2>1. InOrder(ids \cup {n}) \in Seq(Nat)
        /\ Len(InOrder(ids \cup {n})) = Cardinality(ids \cup {n})
    BY ONLY <1>3, InOrderIsASequence
  <2> QED
    BY <1>1, <2>1
<1>5. ASSUME NEW k \in 1 .. c PROVE longer[k] = known[k]
  <2>1. Ranked(ids, k) = {known[k]}
    BY NthInOrder
  <2>2. Ranked(ids \cup {n}, k) = {longer[k]}
    BY <1>1, <1>3, NthInOrder
  <2> QED
    BY <1>1, <2>1, <2>2
<1>6. longer[c + 1] = n
  <2> DEFINE more == ids \cup {n}
  <2>1. c + 1 \in 1 .. Cardinality(more) /\ more \in SUBSET (0 .. (n + 1) - 1)
    BY <1>1, <1>3
  <2> HIDE DEF more
  <2>2. Ranked(more, c + 1) = {InOrder(more)[c + 1]}
    BY <1>3, <2>1, NthInOrder
  <2> QED
    BY <1>1, <2>2 DEF more
<1> HIDE DEF c, longer, known
<1>7. longer = Append(known, n)
  BY <1>1, <1>2, <1>4, <1>5, <1>6
<1> QED
  BY <1>7 DEF longer, known

Newest(ids, count) == {i \in ids : Cardinality({j \in ids : j > i}) < count}

\* The tail of the ids in order is the newest of them in order.
LEMMA TailIsNewest ==
  \A n \in Nat : \A ids \in SUBSET (0 .. n - 1) : \A count \in Nat :
    InOrder(Newest(ids, count)) =
      SubSeq(InOrder(ids),
             IF Cardinality(ids) > count THEN Cardinality(ids) - count + 1 ELSE 1,
             Cardinality(ids))
<1> DEFINE Last(ids, count) ==
             SubSeq(InOrder(ids),
                    IF Cardinality(ids) > count THEN Cardinality(ids) - count + 1 ELSE 1,
                    Cardinality(ids))
           P == {n \in Nat : \A ids \in SUBSET (0 .. n - 1) : \A count \in Nat :
                   InOrder(Newest(ids, count)) = Last(ids, count)}
<1>1. 0 \in P
  <2> SUFFICES ASSUME NEW ids \in SUBSET (0 .. 0 - 1), NEW count \in Nat
               PROVE  InOrder(Newest(ids, count)) = Last(ids, count)
    OBVIOUS
  <2>1. ids = {} /\ Newest(ids, count) = {} /\ Cardinality({}) = 0
    <3>1. ids = {}
      OBVIOUS
    <3> QED
      BY <3>1, FS_EmptySet DEF Newest
  <2>2. InOrder({}) \in Seq(Nat) /\ Len(InOrder({})) = 0
    BY <2>1, InOrderIsASequence
  <2>3. InOrder({}) = <<>>
    BY <2>2
  <2>4. SubSeq(<<>>, 1, 0) = <<>>
    OBVIOUS
  <2>5. Last({}, count) = SubSeq(<<>>, 1, 0)
    BY <2>1, <2>3
  <2> QED
    BY <2>1, <2>3, <2>4, <2>5
<1>2. ASSUME NEW n \in Nat, n \in P PROVE n + 1 \in P
  <2> SUFFICES ASSUME NEW ids \in SUBSET (0 .. n), NEW count \in Nat
               PROVE  InOrder(Newest(ids, count)) = Last(ids, count)
    OBVIOUS
  <2> HIDE DEF Last
  <2>1. CASE n \notin ids
    <3>1. ids \in SUBSET (0 .. n - 1)
      BY <2>1
    <3> QED
      BY <1>2, <3>1
  <2>2. CASE n \in ids
    <3> DEFINE old == ids \ {n}
               c == Cardinality(old)
    <3>1. old \in SUBSET (0 .. n - 1) /\ ids = old \cup {n}
      BY <2>2
    <3>2. IsFiniteSet(old) /\ c \in Nat /\ Cardinality(ids) = c + 1
      BY <3>1, OrderAppends
    <3>3. InOrder(ids) = Append(InOrder(old), n)
      BY <3>1, OrderGrows
    <3>4. InOrder(old) \in Seq(Nat) /\ Len(InOrder(old)) = c
      BY <3>1, InOrderIsASequence
    <3>5. ASSUME count = 0 PROVE InOrder(Newest(ids, count)) = Last(ids, count)
      <4>1. Newest(ids, 0) = {}
        <5>1. ASSUME NEW i \in ids PROVE ~(Cardinality({j \in ids : j > i}) < 0)
          <6>1. IsFiniteSet(ids)
            BY <3>1, <3>2, FS_AddElement
          <6>2. IsFiniteSet({j \in ids : j > i})
            BY <6>1, FS_Subset
          <6> QED
            BY <6>2, FS_CardinalityType
        <5> QED
          BY <5>1 DEF Newest
      <4>2. Cardinality({}) = 0 /\ {} \in SUBSET (0 .. 0 - 1)
        BY FS_EmptySet
      <4>3. InOrder({}) \in Seq(Nat) /\ Len(InOrder({})) = 0
        BY <4>2, InOrderIsASequence
      <4>4. InOrder({}) = <<>>
        BY <4>3
      <4>5. Last(ids, 0) = SubSeq(InOrder(ids), (c + 1) - 0 + 1, c + 1)
        <5> HIDE DEF c
        <5> QED
          BY <3>2 DEF Last
      <4>6. InOrder(ids) \in Seq(Nat) /\ Len(InOrder(ids)) = c + 1
        BY <3>3, <3>4, <3>1, <3>2
      <4>7. SubSeq(InOrder(ids), (c + 1) - 0 + 1, c + 1) = <<>>
        BY <3>2, <4>6
      <4> QED
        BY <3>5, <4>1, <4>4, <4>5, <4>7
    <3>6. ASSUME count > 0 PROVE InOrder(Newest(ids, count)) = Last(ids, count)
      <4> DEFINE less == count - 1
                 tail == Newest(old, less)
      <4>1. less \in Nat
        BY <3>6
      <4>2. InOrder(tail) = Last(old, less)
        BY <1>2, <3>1, <4>1
      <4>3. Newest(ids, count) = tail \cup {n}
        <5>1. ASSUME NEW i \in old
              PROVE  Cardinality({j \in ids : j > i}) < count
                     <=> Cardinality({j \in old : j > i}) < less
          <6> DEFINE up == {j \in old : j > i}
          <6>1. {j \in ids : j > i} = up \cup {n} /\ n \notin up
            BY <3>1
          <6>2. IsFiniteSet(up)
            BY <3>2, FS_Subset
          <6> HIDE DEF up
          <6>3. Cardinality(up \cup {n}) = Cardinality(up) + 1
            BY <6>1, <6>2, FS_AddElement
          <6>4. Cardinality(up) \in Nat
            BY <6>2, FS_CardinalityType
          <6> HIDE DEF less
          <6>5. less = count - 1
            BY DEF less
          <6>6. Cardinality(up) + 1 < count <=> Cardinality(up) < less
            BY <6>4, <6>5
          <6> QED
            BY <6>1, <6>3, <6>6 DEF up
        <5>2. {j \in ids : j > n} = {}
          <6>1. \A j \in ids : j \in 0 .. n
            OBVIOUS
          <6>2. \A j \in 0 .. n : ~(j > n)
            OBVIOUS
          <6> QED
            BY <6>1, <6>2
        <5>3. Cardinality({j \in ids : j > n}) < count
          BY <3>6, <5>2, FS_EmptySet
        <5> HIDE DEF less, old
        <5> QED
          BY <3>1, <5>1, <5>3 DEF Newest
      <4>4. tail \in SUBSET (0 .. n - 1)
        BY <3>1 DEF Newest
      <4> HIDE DEF tail
      <4>5. InOrder(tail \cup {n}) = Append(InOrder(tail), n)
        BY <4>4, OrderGrows
      <4> DEFINE all == InOrder(old)
                 from == IF c > less THEN c - less + 1 ELSE 1
      <4>6. Last(old, less) = SubSeq(all, from, c)
        BY DEF Last
      <4>7. Last(ids, count) = SubSeq(Append(all, n), from, c + 1)
        <5>1. (IF c + 1 > count THEN (c + 1) - count + 1 ELSE 1) = from
          BY <3>2
        <5> QED
          BY <3>2, <3>3, <5>1 DEF Last
      <4>8. from \in 1 .. c + 1
        BY <3>2, <4>1
      <4> HIDE DEF all, from, c
      <4>9. SubSeq(Append(all, n), from, c + 1) = Append(SubSeq(all, from, c), n)
        BY <3>2, <3>4, <4>8 DEF all
      <4> QED
        BY <4>2, <4>3, <4>5, <4>6, <4>7, <4>9
    <3> QED
      BY <3>5, <3>6
  <2> QED
    BY <2>1, <2>2
<1> HIDE DEF P
<1>3. Nat \subseteq P
  BY <1>1, <1>2, Induction
<1> QED
  BY <1>3 DEF P

-----------------------------------------------------------------------------
(* What a connection is due, as a value: of a log, of the position it      *)
(* joined at and of the cursor it was resumed from.                        *)

Heard(l, i, joined) == {j \in i + 1 .. joined - 1 : roomFilter(l[j + 1])}

DueOn(l, joined, since) ==
  {i \in 0 .. Len(l) - 1 :
    /\ roomFilter(l[i + 1])
    /\ \/ i >= joined
       \/ /\ HasCursor(since) /\ i > since
          /\ Cardinality(Heard(l, i, joined)) < Backlog}

LEMMA DueIsDueOn ==
  ASSUME NEW s \in Socket
  PROVE  {i \in 0 .. Cursor - 1 : IsDue(s, i)} = DueOn(log, sock[s].joined, sock[s].since)
BY DEF IsDue, DueOn, Heard, Cursor

LEMMA DueGoesOn ==
  ASSUME NEW l \in Seq(Envelope), NEW e \in Envelope,
         NEW joined \in 0 .. Len(l), NEW since \in Int
  PROVE  DueOn(Append(l, e), joined, since) =
           DueOn(l, joined, since) \cup (IF roomFilter(e) THEN {Len(l)} ELSE {})
<1> DEFINE m == Append(l, e)
           n == Len(l)
           rest == DueOn(l, joined, since)
<1>1. Len(m) = n + 1 /\ n \in Nat /\ m[n + 1] = e /\ \A k \in 1 .. n : m[k] = l[k]
  OBVIOUS
<1> HIDE DEF m
<1>2. \A i \in 0 .. n - 1 : Heard(m, i, joined) = Heard(l, i, joined)
  BY <1>1 DEF Heard
<1>3. \A i \in 0 .. n - 1 : i \in DueOn(m, joined, since) <=> i \in rest
  BY <1>1, <1>2 DEF DueOn
<1>4. n \in DueOn(m, joined, since) <=> roomFilter(e)
  BY <1>1 DEF DueOn
<1>5. DueOn(m, joined, since) \subseteq 0 .. n /\ rest \subseteq 0 .. n - 1
  BY <1>1 DEF DueOn
<1> HIDE DEF rest
<1> DEFINE due == DueOn(m, joined, since)
<1>6. due = rest \cup (IF roomFilter(e) THEN {n} ELSE {})
  <2>1. \A i \in 0 .. n : i \in 0 .. n - 1 \/ i = n
    BY <1>1
  <2>2. \A i \in due : i \in rest \/ i = n
    BY <1>3, <1>5, <2>1
  <2>3. \A i \in rest : i \in due
    BY <1>3, <1>5
  <2> HIDE DEF due
  <2>4. CASE roomFilter(e)
    BY <1>4, <2>2, <2>3, <2>4 DEF due
  <2>5. CASE ~roomFilter(e)
    BY <1>4, <2>2, <2>3, <2>5 DEF due
  <2> QED
    BY <2>4, <2>5
<1> QED
  BY <1>6 DEF m, rest

\* What the resume sends is what a member that joins now is due.
LEMMA ResumeIsDue ==
  ASSUME log \in Seq(Envelope), oldest \in Nat, Backlog \in Nat,
         NEW since \in Int, HasCursor(since), ~OffRetention(since)
  PROVE  MissedSince(since) = InOrder(DueOn(log, Len(log), since))
<1> DEFINE n == Len(log)
           ids == Replayed(since)
<1>1. n \in Nat
  OBVIOUS
<1>2. ids \in SUBSET (0 .. n - 1)
  BY DEF Replayed, Cursor
<1>3. \A i \in 0 .. n - 1 : i \in ids <=> i > since /\ roomFilter(log[i + 1])
  <2>1. n = 0 \/ since >= oldest
    BY DEF OffRetention
  <2> QED
    BY <1>1, <2>1 DEF Replayed, Retained, Cursor
<1>4. \A i \in ids : {j \in ids : j > i} = Heard(log, i, n)
  BY <1>1, <1>2, <1>3 DEF Heard
<1>5. Newest(ids, Backlog) = DueOn(log, n, since)
  <2>1. \A i \in DueOn(log, n, since) :
          i \in 0 .. n - 1 /\ roomFilter(log[i + 1]) /\ i > since
          /\ Cardinality(Heard(log, i, n)) < Backlog
    BY <1>1 DEF DueOn
  <2>2. \A i \in 0 .. n - 1 :
          roomFilter(log[i + 1]) /\ i > since /\ Cardinality(Heard(log, i, n)) < Backlog
          => i \in DueOn(log, n, since)
    BY <1>1 DEF DueOn
  <2> HIDE DEF ids
  <2> QED
    BY <1>2, <1>3, <1>4, <2>1, <2>2 DEF Newest
<1> HIDE DEF ids
<1>6. InOrder(ids) \in Seq(Nat) /\ Len(InOrder(ids)) = Cardinality(ids)
  BY <1>1, <1>2, InOrderIsASequence
<1>7. InOrder(Newest(ids, Backlog)) =
        SubSeq(InOrder(ids),
               IF Cardinality(ids) > Backlog THEN Cardinality(ids) - Backlog + 1 ELSE 1,
               Cardinality(ids))
  BY <1>1, <1>2, TailIsNewest
<1>8. MissedSince(since) =
        SubSeq(InOrder(ids),
               IF Cardinality(ids) > Backlog THEN Cardinality(ids) - Backlog + 1 ELSE 1,
               Cardinality(ids))
  BY <1>6 DEF MissedSince, ids
<1> QED
  BY <1>5, <1>7, <1>8

LEMMA NothingIsDue ==
  ASSUME NEW l \in Seq(Envelope)
  PROVE  InOrder(DueOn(l, Len(l), None)) = <<>>
<1>1. DueOn(l, Len(l), None) = {}
  BY DEF DueOn, HasCursor, None
<1>2. Cardinality({}) = 0 /\ {} \in SUBSET (0 .. 0 - 1)
  BY FS_EmptySet
<1>3. InOrder({}) \in Seq(Nat) /\ Len(InOrder({})) = 0
  BY <1>2, InOrderIsASequence
<1> QED
  BY <1>1, <1>3

-----------------------------------------------------------------------------
(* The invariant: types, who is a member, what each member was sent, what  *)
(* each is shown, and the rate.                                            *)

Connection == [phase : {"new", "refused", "reading", "read", "joined", "gone"},
               open : BOOLEAN, since : Int, read : Nat, joined : Nat,
               typing : {"unknown", "yes", "no"}]

Types ==
  /\ turns \in Nat /\ log \in Seq(Envelope) /\ oldest \in Nat
  /\ sock \in [Socket -> Connection]
  /\ got \in [Socket -> Seq(Nat)]
  /\ roster \in [Socket -> SUBSET Socket]
  /\ typists \in [Socket -> SUBSET Speaker]
  /\ frame \in [Socket -> {"none", "sent", "stored"}]
  /\ now \in 0 .. MaxTime
  /\ ingressAt \in [Socket -> Seq(0 .. MaxTime)]
  /\ admitted \in [Socket -> Seq(0 .. MaxTime)]
  /\ \A s \in Socket : sock[s].read <= turns /\ sock[s].joined <= Len(log)

MembersJoined == members = {s \in Socket : sock[s].phase = "joined"}

StreamOf(l, k, g) ==
  /\ k.phase = "joined" /\ k.open => g = InOrder(DueOn(l, k.joined, k.since))
  /\ k.phase # "joined" => g = <<>>

Streams == \A s \in Socket : StreamOf(log, sock[s], got[s])

Views ==
  /\ \A s \in members : sock[s].open => roster[s] = members
  /\ \A s \in Socket :
       /\ sock[s].phase # "joined" => typists[s] = {}
       /\ \A t \in typists[s] : sock[t].phase \in {"joined", "gone"}
       /\ sock[s].open =>
            \A t \in typists[s] : sock[t].phase = "joined" => sock[t].typing = "yes"

\* A window holds the last frames let in; what it has lost is over a minute old.
Rate(at, ad, time) ==
  /\ Len(at) <= Len(ad) /\ Len(at) <= PerMinute
  /\ \A i \in 1 .. Len(at) : at[i] = ad[Len(ad) - Len(at) + i]
  /\ \A i \in 1 .. Len(ad) - Len(at) : ad[i] < time - Minute
  /\ \A k \in 1 .. Len(ad) - PerMinute : ad[k + PerMinute] - ad[k] > Minute

Rates == \A s \in Socket : Rate(ingressAt[s], admitted[s], now)

RoomInv == Types /\ MembersJoined /\ Streams /\ Views /\ Rates

-----------------------------------------------------------------------------
(* The steps.                                                              *)

\* The window shifts out a prefix, all of it too old.
LEMMA WindowIsATail ==
  ASSUME NEW s \in Socket, NEW at \in Seq(0 .. MaxTime), ingressAt[s] = at,
         MaxTime \in Nat, Minute \in Nat, now \in 0 .. MaxTime
  PROVE  \E w \in 0 .. Len(at) :
           /\ Window(s) \in Seq(0 .. MaxTime) /\ Len(Window(s)) = Len(at) - w
           /\ \A i \in 1 .. Len(at) - w : Window(s)[i] = at[w + i]
           /\ \A i \in 1 .. w : at[i] < now - Minute
<1> DEFINE old == {i \in 1 .. Len(at) : \A j \in 1 .. i : at[j] < now - Minute}
           w == Cardinality(old)
           left == SubSeq(at, w + 1, Len(at))
<1>1. Len(at) \in Nat
  OBVIOUS
<1>2. old \in SUBSET (1 .. Len(at)) /\ \A i \in old : 1 .. i \subseteq old
  BY <1>1
<1>3. \A i \in old : at[i] < now - Minute
  BY <1>1
<1> HIDE DEF old
<1>4. old = 1 .. w /\ w \in 0 .. Len(at)
  BY <1>1, <1>2, DownwardClosed
<1> HIDE DEF w
<1>5. left \in Seq(0 .. MaxTime) /\ Len(left) = Len(at) - w
      /\ \A i \in 1 .. Len(at) - w : left[i] = at[w + i]
  BY <1>1, <1>4
<1> HIDE DEF left
<1>6. Window(s) = left
  BY DEF Window, old, w, left
<1> QED
  BY <1>3, <1>4, <1>5, <1>6

LEMMA MissedIsASequence ==
  ASSUME log \in Seq(Envelope), Backlog \in Nat, NEW since \in Int
  PROVE  MissedSince(since) \in Seq(Nat)
<1> DEFINE all == InOrder(Replayed(since))
<1>1. Len(log) \in Nat /\ Replayed(since) \in SUBSET (0 .. Len(log) - 1)
  BY DEF Replayed, Cursor
<1>2. all \in Seq(Nat)
  BY <1>1, InOrderIsASequence
<1> HIDE DEF all
<1> DEFINE from == IF Len(all) > Backlog THEN Len(all) - Backlog + 1 ELSE 1
<1>3. from \in Nat \ {0} /\ Len(all) \in Nat
  BY <1>2
<1>4. MissedSince(since) = SubSeq(all, from, Len(all))
  BY DEF MissedSince, all
<1> HIDE DEF from
<1> QED
  BY <1>2, <1>3, <1>4

\* What Emit sends, sent or not.
LEMMA EmitSends ==
  ASSUME Types, MembersJoined, NEW e \in Envelope, Emit(e)
  PROVE  /\ log' = Append(log, e) /\ log' \in Seq(Envelope) /\ Len(log') = Len(log) + 1
         /\ got' \in [Socket -> Seq(Nat)]
         /\ \A s \in Socket :
              got'[s] = IF sock[s].phase = "joined" /\ sock[s].open /\ roomFilter(e)
                        THEN Append(got[s], Len(log)) ELSE got[s]
<1>1. Len(log) \in Nat /\ \A s \in Socket : Append(got[s], Len(log)) \in Seq(Nat)
  BY DEF Types
<1> QED
  BY <1>1 DEF Types, MembersJoined, Emit, Subscribed, Cursor

LEMMA SocketStep ==
  ASSUME Next
  PROVE  \/ EmitElsewhere
         \/ Rotate
         \/ Tick
         \/ \E s \in Socket : \E since \in {None, Invalid} \cup -1 .. Cursor : Upgrade(s, since)
         \/ \E s \in Socket : Read(s)
         \/ \E s \in Socket : Join(s)
         \/ \E s \in Socket : Leave(s)
         \/ \E s \in Socket : CloseEarly(s)
         \/ \E s \in Socket : \E on \in {"yes", "no"} : Typing(s, on)
         \/ \E s \in Socket : Admit(s)
         \/ \E s \in Socket : Throttle(s)
         \/ \E s \in Socket : Commit(s)
         \/ \E s \in Socket : RefuseFrame(s)
         \/ \E s \in Socket : EmitFrame(s)
BY DEF Next

\* The records the handlers put in a connection's place.
AfterUpgrade(k, phase, since) == [k EXCEPT !.phase = phase, !.since = since]
AfterRead(k, n) == [k EXCEPT !.phase = "read", !.read = n]
AfterJoin(k, n, since) == [k EXCEPT !.phase = "joined", !.joined = n, !.since = since]
AfterLeave == [Fresh EXCEPT !.phase = "gone", !.open = FALSE]
AfterClose(k) == [k EXCEPT !.open = FALSE]
AfterTyping(k, on) == [k EXCEPT !.typing = on]

LEMMA Upgraded ==
  ASSUME NEW k \in Connection, NEW phase \in {"refused", "reading"}, NEW since \in Int,
         NEW new, new = AfterUpgrade(k, phase, since)
  PROVE  new \in Connection /\ new.phase = phase /\ new.open = k.open
         /\ new.read = k.read /\ new.joined = k.joined /\ new.typing = k.typing
BY DEF Connection, AfterUpgrade

LEMMA Answered ==
  ASSUME NEW k \in Connection, NEW n \in Nat, NEW new, new = AfterRead(k, n)
  PROVE  new \in Connection /\ new.phase = "read" /\ new.open = k.open
         /\ new.read = n /\ new.joined = k.joined /\ new.typing = k.typing
BY DEF Connection, AfterRead

LEMMA Entered ==
  ASSUME NEW k \in Connection, NEW n \in Nat, NEW since \in Int,
         NEW new, new = AfterJoin(k, n, since)
  PROVE  new \in Connection /\ new.phase = "joined" /\ new.open = k.open /\ new.since = since
         /\ new.read = k.read /\ new.joined = n /\ new.typing = k.typing
BY DEF Connection, AfterJoin

LEMMA Left ==
  ASSUME NEW new, new = AfterLeave
  PROVE  new \in Connection /\ new.phase = "gone" /\ new.open = FALSE /\ new.since = None
         /\ new.read = 0 /\ new.joined = 0 /\ new.typing = "unknown"
<1>1. new = [phase |-> "gone", open |-> FALSE, since |-> None, read |-> 0,
             joined |-> 0, typing |-> "unknown"]
  BY DEF Fresh, AfterLeave
<1>2. None \in Int
  BY DEF None
<1>3. FALSE \in BOOLEAN
  OBVIOUS
<1> QED
  BY <1>1, <1>2 DEF Connection

LEMMA Closed ==
  ASSUME NEW k \in Connection, NEW new, new = AfterClose(k)
  PROVE  new \in Connection /\ new.phase = k.phase /\ new.open = FALSE /\ new.since = k.since
         /\ new.read = k.read /\ new.joined = k.joined /\ new.typing = k.typing
BY DEF Connection, AfterClose

LEMMA Shown ==
  ASSUME NEW k \in Connection, NEW on \in {"yes", "no"}, NEW new, new = AfterTyping(k, on)
  PROVE  new \in Connection /\ new.phase = k.phase /\ new.open = k.open /\ new.since = k.since
         /\ new.read = k.read /\ new.joined = k.joined /\ new.typing = on
BY DEF Connection, AfterTyping

\* A step that replaces the record of one connection.
Replaced(s, k) ==
  /\ sock' \in [Socket -> Connection] /\ sock'[s] = k
  /\ \A x \in Socket \ {s} : sock'[x] = sock[x]
  /\ \A x \in Socket : sock'[x].read <= turns /\ sock'[x].joined <= Len(log)

LEMMA SockBecomes ==
  ASSUME NEW s \in Socket, NEW k \in Connection, Types, sock' = [sock EXCEPT ![s] = k],
         k.read <= turns, k.joined <= Len(log)
  PROVE  Replaced(s, k)
BY DEF Types, Replaced

LEMMA UpgradeReplaces ==
  ASSUME Types, NEW s \in Socket, NEW since \in {None, Invalid} \cup -1 .. Cursor, Upgrade(s, since)
  PROVE  \E k \in Connection :
           Replaced(s, k) /\ sock[s].phase = "new" /\ k.phase \in {"refused", "reading"}
<1> DEFINE phase == IF s \in Stranger THEN "refused" ELSE "reading"
           k == AfterUpgrade(sock[s], phase, since)
<1>1. phase \in {"refused", "reading"} /\ sock[s] \in Connection
  BY DEF Types
<1>2. since \in Int
  BY DEF None, Invalid, Cursor
<1>3. sock' = [sock EXCEPT ![s] = k] /\ sock[s].phase = "new"
  BY DEF Upgrade, AfterUpgrade
<1> HIDE DEF phase
<1>4. k \in Connection /\ k.phase = phase /\ k.read = sock[s].read /\ k.joined = sock[s].joined
  BY <1>1, <1>2, Upgraded
<1> HIDE DEF k
<1>5. Replaced(s, k)
  BY <1>3, <1>4, SockBecomes DEF Types
<1> QED
  BY <1>1, <1>3, <1>4, <1>5

LEMMA ReadReplaces ==
  ASSUME Types, NEW s \in Socket, Read(s)
  PROVE  \E k \in Connection :
           Replaced(s, k) /\ sock[s].phase = "reading" /\ k.phase = "read"
<1> DEFINE k == AfterRead(sock[s], turns)
<1>1. turns \in Nat /\ sock[s] \in Connection
  BY DEF Types
<1>2. sock' = [sock EXCEPT ![s] = k] /\ sock[s].phase = "reading"
  BY DEF Read, AfterRead
<1>3. k \in Connection /\ k.phase = "read" /\ k.read = turns /\ k.joined = sock[s].joined
  BY <1>1, Answered
<1> HIDE DEF k
<1>4. k.read <= turns /\ k.joined <= Len(log)
  BY <1>1, <1>3 DEF Types
<1>5. Replaced(s, k)
  BY <1>2, <1>3, <1>4, SockBecomes
<1> QED
  BY <1>2, <1>3, <1>5

LEMMA JoinReplaces ==
  ASSUME Types, NEW s \in Socket, Join(s)
  PROVE  \E k \in Connection :
           /\ Replaced(s, k) /\ sock[s].phase = "read" /\ k.phase = "joined"
           /\ k.open = sock[s].open /\ k.typing = sock[s].typing /\ k.joined = Len(log)
           /\ k.since = IF HasCursor(sock[s].since) /\ ~OffRetention(sock[s].since)
                        THEN sock[s].since ELSE None
<1> DEFINE since == IF HasCursor(sock[s].since) /\ ~OffRetention(sock[s].since)
                    THEN sock[s].since ELSE None
           k == AfterJoin(sock[s], Cursor, since)
<1>1. sock[s] \in Connection /\ Cursor \in Nat /\ Cursor = Len(log)
  BY DEF Types, Cursor
<1>2. since \in Int
  BY <1>1 DEF Connection, None
<1>3. sock' = [sock EXCEPT ![s] = k] /\ sock[s].phase = "read"
  BY DEF Join, AfterJoin
<1> HIDE DEF since
<1>4. /\ k \in Connection /\ k.phase = "joined" /\ k.read = sock[s].read /\ k.joined = Cursor
      /\ k.since = since /\ k.open = sock[s].open /\ k.typing = sock[s].typing
  <2> DEFINE n == Cursor
             old == sock[s]
  <2>1. n \in Nat /\ old \in Connection /\ k = AfterJoin(old, n, since)
    BY <1>1
  <2> HIDE DEF n, k, old
  <2>2. /\ k \in Connection /\ k.phase = "joined" /\ k.open = old.open /\ k.since = since
        /\ k.read = old.read /\ k.joined = n /\ k.typing = old.typing
    BY <1>2, <2>1, Entered
  <2> QED
    BY <2>2 DEF n, old
<1> HIDE DEF k
<1>5. k.read <= turns /\ k.joined <= Len(log)
  BY <1>1, <1>4 DEF Types
<1>6. Replaced(s, k)
  BY <1>3, <1>4, <1>5, SockBecomes
<1> QED
  BY <1>1, <1>3, <1>4, <1>6 DEF since

LEMMA LeaveReplaces ==
  ASSUME Types, NEW s \in Socket, Leave(s)
  PROVE  \E k \in Connection :
           /\ Replaced(s, k) /\ sock[s].phase = "joined"
           /\ k.phase = "gone" /\ k.open = FALSE
<1> DEFINE k == AfterLeave
<1>1. sock' = [sock EXCEPT ![s] = k] /\ sock[s].phase = "joined"
  BY DEF Leave, Subscribed, AfterLeave
<1>2. k \in Connection /\ k.phase = "gone" /\ k.open = FALSE /\ k.read = 0 /\ k.joined = 0
  BY Left
<1> HIDE DEF k
<1>3. k.read <= turns /\ k.joined <= Len(log)
  <2>1. turns \in Nat /\ Len(log) \in Nat
    BY DEF Types
  <2> QED
    BY <1>2, <2>1
<1>4. Replaced(s, k)
  BY <1>1, <1>2, <1>3, SockBecomes
<1> QED
  BY <1>1, <1>2, <1>4

LEMMA CloseReplaces ==
  ASSUME Types, NEW s \in Socket, CloseEarly(s)
  PROVE  \E k \in Connection :
           /\ Replaced(s, k) /\ sock[s].phase \in {"reading", "read"}
           /\ k.phase = sock[s].phase
<1> DEFINE k == AfterClose(sock[s])
<1>1. sock[s] \in Connection
  BY DEF Types
<1>2. sock' = [sock EXCEPT ![s] = k] /\ sock[s].phase \in {"reading", "read"}
  BY DEF CloseEarly, AfterClose
<1>3. k \in Connection /\ k.phase = sock[s].phase /\ k.read = sock[s].read /\ k.joined = sock[s].joined
  BY <1>1, Closed
<1> HIDE DEF k
<1>4. Replaced(s, k)
  BY <1>1, <1>2, <1>3, SockBecomes DEF Types
<1> QED
  BY <1>2, <1>3, <1>4

LEMMA TypingReplaces ==
  ASSUME Types, NEW s \in Socket, NEW on \in {"yes", "no"}, Typing(s, on)
  PROVE  \E k \in Connection :
           /\ Replaced(s, k) /\ sock[s].phase = "joined" /\ k.phase = "joined"
           /\ k.open = sock[s].open /\ k.joined = sock[s].joined /\ k.since = sock[s].since
           /\ k.typing = on
<1> DEFINE k == AfterTyping(sock[s], on)
<1>1. sock[s] \in Connection
  BY DEF Types
<1>2. sock' = [sock EXCEPT ![s] = k] /\ sock[s].phase = "joined"
  BY DEF Typing, Subscribed, AfterTyping
<1>3. /\ k \in Connection /\ k.phase = sock[s].phase /\ k.read = sock[s].read
      /\ k.joined = sock[s].joined /\ k.open = sock[s].open /\ k.since = sock[s].since
      /\ k.typing = on
  BY <1>1, Shown
<1> HIDE DEF k
<1>4. Replaced(s, k)
  BY <1>1, <1>2, <1>3, SockBecomes DEF Types
<1> QED
  BY <1>2, <1>3, <1>4

LEMMA TypesStep ==
  ASSUME RoomAssumption, Types, MembersJoined, [Next]_vars
  PROVE  Types'
<1> USE DEF Types
<1>1. CASE EmitElsewhere
  <2>1. PICK e \in Envelope : Emit(e)
    BY <1>1 DEF EmitElsewhere
  <2>2. log' \in Seq(Envelope) /\ Len(log') = Len(log) + 1 /\ got' \in [Socket -> Seq(Nat)]
    BY <2>1, EmitSends
  <2>3. Len(log) \in Nat /\ \A s \in Socket : sock[s].joined \in Nat
    BY DEF Connection
  <2>4. \A s \in Socket : sock[s].joined <= Len(log')
    BY <2>2, <2>3
  <2> QED
    BY <1>1, <2>2, <2>4 DEF EmitElsewhere, ingress
<1>2. CASE Rotate
  BY <1>2 DEF Rotate, views, ingress
<1>3. CASE Tick
  BY <1>3, RoomAssumption DEF Tick, views, RoomAssumption
<1>4. ASSUME NEW s \in Socket, NEW since \in {None, Invalid} \cup -1 .. Cursor, Upgrade(s, since)
      PROVE  Types'
  <2>1. PICK k \in Connection : Replaced(s, k)
    BY <1>4, UpgradeReplaces
  <2> QED
    BY <1>4, <2>1 DEF Upgrade, Replaced, views, ingress
<1>5. ASSUME NEW s \in Socket, Read(s) PROVE Types'
  <2>1. PICK k \in Connection : Replaced(s, k)
    BY <1>5, ReadReplaces
  <2> QED
    BY <1>5, <2>1 DEF Read, Replaced, views, ingress
<1>6. ASSUME NEW s \in Socket, Join(s) PROVE Types'
  <2>1. /\ sock' \in [Socket -> Connection]
        /\ \A x \in Socket : sock'[x].read <= turns /\ sock'[x].joined <= Len(log)
    BY <1>6, JoinReplaces DEF Replaced
  <2>2. got' \in [Socket -> Seq(Nat)]
    <3>1. Backlog \in Nat
      BY RoomAssumption DEF RoomAssumption
    <3>2. sock[s].since \in Int
      BY DEF Connection
    <3>3. MissedSince(sock[s].since) \in Seq(Nat)
      BY <3>1, <3>2, MissedIsASequence
    <3> QED
      BY <1>6, <3>3 DEF Join
  <2>3. roster' \in [Socket -> SUBSET Socket]
    BY <1>6 DEF Join, broadcastPresence, MembersJoined
  <2> QED
    BY <1>6, <2>1, <2>2, <2>3 DEF Join, ingress
<1>7. ASSUME NEW s \in Socket, Leave(s) PROVE Types'
  <2>1. /\ sock' \in [Socket -> Connection]
        /\ \A x \in Socket : sock'[x].read <= turns /\ sock'[x].joined <= Len(log)
    BY <1>7, LeaveReplaces DEF Replaced
  <2>2. got' \in [Socket -> Seq(Nat)] /\ typists' \in [Socket -> SUBSET Speaker]
    BY <1>7 DEF Leave
  <2>3. roster' \in [Socket -> SUBSET Socket]
    BY <1>7 DEF Leave, broadcastPresence, MembersJoined
  <2> QED
    BY <1>7, <2>1, <2>2, <2>3 DEF Leave, ingress
<1>8. ASSUME NEW s \in Socket, CloseEarly(s) PROVE Types'
  <2>1. PICK k \in Connection : Replaced(s, k)
    BY <1>8, CloseReplaces
  <2> QED
    BY <1>8, <2>1 DEF CloseEarly, Replaced, views, ingress
<1>9. ASSUME NEW s \in Socket, NEW on \in {"yes", "no"}, Typing(s, on) PROVE Types'
  <2>1. /\ sock' \in [Socket -> Connection]
        /\ \A x \in Socket : sock'[x].read <= turns /\ sock'[x].joined <= Len(log)
    BY <1>9, TypingReplaces DEF Replaced
  <2>2. typists' \in [Socket -> SUBSET Speaker]
    BY <1>9 DEF Typing
  <2> QED
    BY <1>9, <2>1, <2>2 DEF Typing, ingress
<1>10. ASSUME NEW s \in Socket PROVE
         Window(s) \in Seq(0 .. MaxTime) /\ Append(Window(s), now) \in Seq(0 .. MaxTime)
  <2>1. Window(s) \in Seq(0 .. MaxTime)
    BY RoomAssumption, WindowIsATail DEF RoomAssumption
  <2> QED
    BY <2>1
<1>11. ASSUME NEW s \in Socket, Admit(s) PROVE Types'
  <2>1. ingressAt' \in [Socket -> Seq(0 .. MaxTime)]
    BY <1>10, <1>11 DEF Admit
  <2>2. admitted' \in [Socket -> Seq(0 .. MaxTime)]
    BY <1>11 DEF Admit
  <2> QED
    BY <1>11, <2>1, <2>2 DEF Admit, views
<1>12. ASSUME NEW s \in Socket, Throttle(s) PROVE Types'
  BY <1>10, <1>12 DEF Throttle, views
<1>13. ASSUME NEW s \in Socket, Commit(s) PROVE Types'
  BY <1>13 DEF Commit, Connection, views
<1>14. ASSUME NEW s \in Socket, RefuseFrame(s) PROVE Types'
  BY <1>14 DEF RefuseFrame, views
<1>15. ASSUME NEW s \in Socket, EmitFrame(s) PROVE Types'
  <2>1. [session |-> "this"] \in Envelope
    BY DEF Envelope
  <2>2. Emit([session |-> "this"])
    BY <1>15 DEF EmitFrame
  <2> DEFINE e == [session |-> "this"]
  <2>3. e \in Envelope /\ Emit(e)
    BY <2>1, <2>2
  <2> HIDE DEF e
  <2>4. log' \in Seq(Envelope) /\ Len(log') = Len(log) + 1 /\ got' \in [Socket -> Seq(Nat)]
    BY <2>3, EmitSends
  <2>5. Len(log) \in Nat /\ \A x \in Socket : sock[x].joined \in Nat
    BY DEF Connection
  <2>6. \A x \in Socket : sock[x].joined <= Len(log')
    BY <2>4, <2>5
  <2> QED
    BY <1>15, <2>4, <2>6 DEF EmitFrame
<1>16. CASE UNCHANGED vars
  BY <1>16 DEF vars
<1> QED
  BY <1>1, <1>2, <1>3, <1>4, <1>5, <1>6, <1>7, <1>8, <1>9, <1>11, <1>12, <1>13, <1>14,
     <1>15, <1>16, SocketStep

LEMMA MembersStep ==
  ASSUME Types, MembersJoined, [Next]_vars
  PROVE  MembersJoined'
<1> USE DEF Types, MembersJoined
<1>1. CASE EmitElsewhere
  BY <1>1 DEF EmitElsewhere
<1>2. CASE Rotate \/ Tick \/ UNCHANGED vars
  BY <1>2 DEF Rotate, Tick, vars
<1>3. ASSUME NEW s \in Socket, NEW since \in {None, Invalid} \cup -1 .. Cursor, Upgrade(s, since)
      PROVE  MembersJoined'
  BY <1>3, UpgradeReplaces DEF Upgrade, Replaced
<1>4. ASSUME NEW s \in Socket, Read(s) \/ CloseEarly(s) PROVE MembersJoined'
  <2>1. PICK k \in Connection :
          Replaced(s, k) /\ sock[s].phase # "joined" /\ k.phase # "joined"
    BY <1>4, ReadReplaces, CloseReplaces
  <2> QED
    BY <1>4, <2>1 DEF Read, CloseEarly, Replaced
<1>5. ASSUME NEW s \in Socket, Join(s) PROVE MembersJoined'
  <2>1. PICK k \in Connection : Replaced(s, k) /\ k.phase = "joined"
    BY <1>5, JoinReplaces
  <2>2. members' = members \cup {s}
    BY <1>5 DEF Join
  <2> QED
    BY <2>1, <2>2 DEF Replaced
<1>6. ASSUME NEW s \in Socket, Leave(s) PROVE MembersJoined'
  BY <1>6, LeaveReplaces DEF Leave, Replaced
<1>7. ASSUME NEW s \in Socket, NEW on \in {"yes", "no"}, Typing(s, on) PROVE MembersJoined'
  BY <1>7, TypingReplaces DEF Typing, Replaced
<1>8. ASSUME NEW s \in Socket,
             Admit(s) \/ Throttle(s) \/ Commit(s) \/ RefuseFrame(s) \/ EmitFrame(s)
      PROVE  MembersJoined'
  BY <1>8 DEF Admit, Throttle, Commit, RefuseFrame, EmitFrame
<1> QED
  BY <1>1, <1>2, <1>3, <1>4, <1>5, <1>6, <1>7, <1>8, SocketStep

-----------------------------------------------------------------------------
(* The streams: an emitted event is appended to whoever is due it; a join  *)
(* starts with what is due then.                                           *)

LEMMA EmitKeepsStreams ==
  ASSUME Types, MembersJoined, Streams, NEW e \in Envelope, Emit(e), sock' = sock
  PROVE  Streams'
<1> SUFFICES ASSUME NEW s \in Socket
             PROVE  StreamOf(log', sock[s], got'[s])
  BY DEF Streams
<1>1. /\ log' = Append(log, e)
      /\ got'[s] = IF sock[s].phase = "joined" /\ sock[s].open /\ roomFilter(e)
                   THEN Append(got[s], Len(log)) ELSE got[s]
  BY EmitSends
<1>2. StreamOf(log, sock[s], got[s])
  BY DEF Streams
<1>3. CASE sock[s].phase = "joined" /\ sock[s].open
  <2> DEFINE n == Len(log)
             since == sock[s].since
             joined == sock[s].joined
             due == DueOn(log, joined, since)
  <2>1. n \in Nat /\ log \in Seq(Envelope) /\ joined \in 0 .. n /\ since \in Int
    BY DEF Types, Connection
  <2>2. got[s] = InOrder(due)
    BY <1>2, <1>3 DEF StreamOf
  <2>3. due \in SUBSET (0 .. n - 1)
    BY DEF DueOn
  <2> HIDE DEF since, joined
  <2>4. DueOn(log', joined, since) = due \cup (IF roomFilter(e) THEN {n} ELSE {})
    BY <1>1, <2>1, DueGoesOn
  <2> HIDE DEF due, n
  <2>5. InOrder(due \cup {n}) = Append(InOrder(due), n)
    BY <2>1, <2>3, OrderGrows
  <2>6. got'[s] = InOrder(DueOn(log', joined, since))
    <3>1. CASE roomFilter(e)
      BY <1>1, <1>3, <2>2, <2>4, <2>5, <3>1 DEF n
    <3>2. CASE ~roomFilter(e)
      <4>1. due \cup {} = due
        OBVIOUS
      <4> QED
        BY <1>1, <2>2, <2>4, <3>2, <4>1
    <3> QED
      BY <3>1, <3>2
  <2> QED
    BY <1>3, <2>6 DEF StreamOf, since, joined
<1>4. CASE ~(sock[s].phase = "joined" /\ sock[s].open)
  BY <1>1, <1>2, <1>4 DEF StreamOf
<1> QED
  BY <1>3, <1>4

LEMMA JoinKeepsStreams ==
  ASSUME RoomAssumption, Types, Streams, NEW s \in Socket, Join(s)
  PROVE  Streams'
<1> DEFINE since == sock[s].since
           resumes == HasCursor(since) /\ ~OffRetention(since)
<1>1. PICK k \in Connection :
        /\ Replaced(s, k) /\ sock[s].phase = "read" /\ k.phase = "joined"
        /\ k.open = sock[s].open /\ k.joined = Len(log)
        /\ k.since = IF resumes THEN since ELSE None
  BY JoinReplaces
<1>2. /\ log' = log
      /\ got' = [got EXCEPT ![s] = IF sock[s].open /\ resumes THEN MissedSince(since) ELSE @]
  BY DEF Join
<1>3. since \in Int /\ log \in Seq(Envelope) /\ oldest \in Nat /\ Backlog \in Nat /\ s \in DOMAIN got
  BY RoomAssumption DEF Types, Connection, RoomAssumption
<1>4. got[s] = <<>>
  BY <1>1 DEF Streams, StreamOf
<1>5. ASSUME NEW x \in Socket, x # s PROVE StreamOf(log', sock'[x], got'[x])
  <2>1. sock'[x] = sock[x]
    BY <1>1, <1>5 DEF Replaced
  <2>2. got'[x] = got[x]
    BY <1>2, <1>5 DEF Types
  <2> QED
    BY <1>2, <2>1, <2>2 DEF Streams
<1>6. StreamOf(log', sock'[s], got'[s])
  <2> HIDE DEF since, resumes
  <2>1. sock'[s] = k
    BY <1>1 DEF Replaced
  <2>2. got'[s] = IF k.open /\ resumes THEN MissedSince(since) ELSE <<>>
    BY <1>1, <1>2, <1>3, <1>4
  <2>3. CASE resumes
    <3>1. MissedSince(since) = InOrder(DueOn(log, Len(log), since))
      BY <1>3, <2>3, ResumeIsDue DEF resumes
    <3> QED
      BY <1>1, <1>2, <2>1, <2>2, <2>3, <3>1 DEF StreamOf
  <2>4. CASE ~resumes
    <3>1. InOrder(DueOn(log, Len(log), None)) = <<>>
      BY <1>3, NothingIsDue
    <3> QED
      BY <1>1, <1>2, <2>1, <2>2, <2>4, <3>1 DEF StreamOf
  <2> QED
    BY <2>3, <2>4
<1> QED
  BY <1>5, <1>6 DEF Streams

\* A step that leaves the log and every stream alone, and of the one record it
\* replaces what the stream depends on.
LEMMA QuietKeepsStreams ==
  ASSUME Streams, log' = log, got' = got, NEW s \in Socket, NEW k, Replaced(s, k),
         \/ sock[s].phase # "joined" /\ k.phase # "joined"
         \/ /\ sock[s].phase = k.phase /\ sock[s].open = k.open
            /\ sock[s].joined = k.joined /\ sock[s].since = k.since
  PROVE  Streams'
<1> SUFFICES ASSUME NEW x \in Socket
             PROVE  StreamOf(log, sock'[x], got[x])
  BY DEF Streams
<1>1. StreamOf(log, sock[x], got[x])
  BY DEF Streams
<1>2. CASE x # s
  BY <1>1, <1>2 DEF Replaced
<1>3. CASE x = s
  BY <1>1, <1>3 DEF Replaced, StreamOf
<1> QED
  BY <1>2, <1>3

LEMMA StreamsStep ==
  ASSUME RoomAssumption, Types, MembersJoined, Streams, [Next]_vars
  PROVE  Streams'
<1>1. CASE EmitElsewhere
  <2>1. PICK e \in Envelope : Emit(e)
    BY <1>1 DEF EmitElsewhere
  <2> QED
    BY <1>1, <2>1, EmitKeepsStreams DEF EmitElsewhere
<1>2. CASE Rotate \/ Tick \/ UNCHANGED vars
  BY <1>2 DEF Rotate, Tick, vars, views, Streams
<1>3. ASSUME NEW s \in Socket, NEW since \in {None, Invalid} \cup -1 .. Cursor, Upgrade(s, since)
      PROVE  Streams'
  <2>1. PICK k \in Connection :
          Replaced(s, k) /\ sock[s].phase # "joined" /\ k.phase # "joined"
    BY <1>3, UpgradeReplaces
  <2>2. log' = log /\ got' = got
    BY <1>3 DEF Upgrade, views
  <2> QED
    BY <2>1, <2>2, QuietKeepsStreams
<1>4. ASSUME NEW s \in Socket, Read(s) \/ CloseEarly(s) PROVE Streams'
  <2>1. PICK k \in Connection :
          Replaced(s, k) /\ sock[s].phase # "joined" /\ k.phase # "joined"
    BY <1>4, ReadReplaces, CloseReplaces
  <2>2. log' = log /\ got' = got
    BY <1>4 DEF Read, CloseEarly, views
  <2> QED
    BY <2>1, <2>2, QuietKeepsStreams
<1>5. ASSUME NEW s \in Socket, Join(s) PROVE Streams'
  BY <1>5, JoinKeepsStreams
<1>6. ASSUME NEW s \in Socket, Leave(s) PROVE Streams'
  <2>1. PICK k \in Connection : Replaced(s, k) /\ k.phase = "gone"
    BY <1>6, LeaveReplaces
  <2>2. log' = log /\ got' = [got EXCEPT ![s] = <<>>]
    BY <1>6 DEF Leave
  <2>3. StreamOf(log', sock'[s], got'[s])
    BY <2>1, <2>2 DEF Replaced, StreamOf, Types
  <2>4. ASSUME NEW x \in Socket, x # s PROVE StreamOf(log', sock'[x], got'[x])
    <3>1. sock'[x] = sock[x] /\ got'[x] = got[x]
      BY <2>1, <2>2, <2>4 DEF Replaced, Types
    <3> QED
      BY <2>2, <3>1 DEF Streams
  <2> QED
    BY <2>3, <2>4 DEF Streams
<1>7. ASSUME NEW s \in Socket, NEW on \in {"yes", "no"}, Typing(s, on) PROVE Streams'
  <2>1. PICK k \in Connection :
          /\ Replaced(s, k) /\ sock[s].phase = k.phase /\ sock[s].open = k.open
          /\ sock[s].joined = k.joined /\ sock[s].since = k.since
    BY <1>7, TypingReplaces
  <2>2. log' = log /\ got' = got
    BY <1>7 DEF Typing
  <2> QED
    BY <2>1, <2>2, QuietKeepsStreams
<1>8. ASSUME NEW s \in Socket, Admit(s) \/ Throttle(s) \/ Commit(s) \/ RefuseFrame(s)
      PROVE  Streams'
  BY <1>8 DEF Admit, Throttle, Commit, RefuseFrame, views, Streams
<1>9. ASSUME NEW s \in Socket, EmitFrame(s) PROVE Streams'
  <2> DEFINE e == [session |-> "this"]
  <2>1. e \in Envelope
    BY DEF Envelope
  <2>2. Emit(e) /\ sock' = sock
    BY <1>9 DEF EmitFrame
  <2> HIDE DEF e
  <2> QED
    BY <2>1, <2>2, EmitKeepsStreams
<1> QED
  BY <1>1, <1>2, <1>3, <1>4, <1>5, <1>6, <1>7, <1>8, <1>9, SocketStep

-----------------------------------------------------------------------------
(* The views.                                                              *)

LEMMA ViewsStep ==
  ASSUME Types, MembersJoined, Views, [Next]_vars
  PROVE  Views'
<1>1. CASE EmitElsewhere
  BY <1>1 DEF EmitElsewhere, Views
<1>2. CASE Rotate \/ Tick \/ UNCHANGED vars
  BY <1>2 DEF Rotate, Tick, vars, views, Views
<1>3. ASSUME NEW s \in Socket, NEW k \in Connection, Replaced(s, k),
             sock[s].phase \notin {"joined", "gone"}, k.phase # "joined",
             members' = members, roster' = roster, typists' = typists
      PROVE  Views'
  <2>1. \A x \in Socket : \A t \in typists[x] : t # s
    BY <1>3 DEF Views
  <2>2. s \notin members /\ members \subseteq Socket /\ typists[s] = {}
    BY <1>3 DEF MembersJoined, Views
  <2>3. \A x \in Socket : typists[x] \subseteq Socket
    BY RoomAssumption DEF RoomAssumption, Types
  <2> QED
    BY <1>3, <2>1, <2>2, <2>3 DEF Views, Replaced
<1>4. ASSUME NEW s \in Socket, NEW since \in {None, Invalid} \cup -1 .. Cursor, Upgrade(s, since)
      PROVE  Views'
  <2>1. PICK k \in Connection :
          Replaced(s, k) /\ sock[s].phase \notin {"joined", "gone"} /\ k.phase # "joined"
    BY <1>4, UpgradeReplaces
  <2> QED
    BY <1>3, <1>4, <2>1 DEF Upgrade, views
<1>5. ASSUME NEW s \in Socket, Read(s) \/ CloseEarly(s) PROVE Views'
  <2>1. PICK k \in Connection :
          Replaced(s, k) /\ sock[s].phase \notin {"joined", "gone"} /\ k.phase # "joined"
    BY <1>5, ReadReplaces, CloseReplaces
  <2> QED
    BY <1>3, <1>5, <2>1 DEF Read, CloseEarly, views
<1>6. ASSUME NEW s \in Socket, Join(s) PROVE Views'
  <2>1. PICK k \in Connection :
          Replaced(s, k) /\ sock[s].phase = "read" /\ k.phase = "joined"
    BY <1>6, JoinReplaces
  <2>2. /\ members' = members \cup {s} /\ typists' = typists
        /\ roster' = [x \in Socket |-> IF x \in members' /\ sock'[x].open THEN members' ELSE roster[x]]
    BY <1>6 DEF Join, broadcastPresence
  <2>3. \A x \in Socket : \A t \in typists[x] : t # s
    BY <2>1 DEF Views
  <2>4. typists[s] = {} /\ \A x \in Socket : typists[x] \subseteq Socket
    BY <2>1, RoomAssumption DEF RoomAssumption, Types, Views
  <2>5. \A x \in members' : x \in Socket
    BY <2>2 DEF MembersJoined
  <2>6. \A x \in members' : sock'[x].open => roster'[x] = members'
    BY <2>2, <2>5
  <2> QED
    BY <2>1, <2>2, <2>3, <2>4, <2>6 DEF Views, Replaced
<1>7. ASSUME NEW s \in Socket, Leave(s) PROVE Views'
  <2>1. PICK k \in Connection :
          Replaced(s, k) /\ sock[s].phase = "joined" /\ k.phase = "gone" /\ k.open = FALSE
    BY <1>7, LeaveReplaces
  <2>2. /\ members' = members \ {s} /\ typists' = [typists EXCEPT ![s] = {}]
        /\ roster' = [x \in Socket |-> IF x \in members' /\ sock'[x].open THEN members' ELSE roster[x]]
    BY <1>7 DEF Leave, broadcastPresence
  <2>3. \A x \in members' : x \in Socket
    BY <2>2 DEF MembersJoined
  <2>4. \A x \in members' : sock'[x].open => roster'[x] = members'
    BY <2>2, <2>3
  <2>5. \A x \in Socket : typists[x] \subseteq Socket
    BY RoomAssumption DEF RoomAssumption, Types
  <2>6. typists'[s] = {} /\ \A x \in Socket \ {s} : typists'[x] = typists[x]
    BY <2>2 DEF Types
  <2> QED
    BY <2>1, <2>4, <2>5, <2>6 DEF Views, Replaced
<1>8. ASSUME NEW s \in Socket, NEW on \in {"yes", "no"}, Typing(s, on) PROVE Views'
  <2>1. PICK k \in Connection :
          /\ Replaced(s, k) /\ sock[s].phase = "joined" /\ k.phase = "joined"
          /\ k.open = sock[s].open /\ k.typing = on
    BY <1>8, TypingReplaces
  <2>2. /\ members' = members /\ roster' = roster
        /\ \A x \in Socket : typists'[x] =
             IF sock[x].phase = "joined" /\ sock[x].open
             THEN IF on = "yes" THEN typists[x] \cup {s} ELSE typists[x] \ {s}
             ELSE typists[x]
    BY <1>8 DEF Typing, MembersJoined, Subscribed
  <2>3. \A x \in Socket : typists[x] \subseteq Socket
    BY RoomAssumption DEF RoomAssumption, Types
  <2>4. \A x \in members' : sock'[x].open => roster'[x] = members'
    BY <2>1, <2>2 DEF Views, Replaced, MembersJoined
  <2>5. ASSUME NEW x \in Socket
        PROVE  /\ sock'[x].phase # "joined" => typists'[x] = {}
               /\ \A t \in typists'[x] : sock'[t].phase \in {"joined", "gone"}
    <3>1. \A t \in Socket : sock'[t].phase = sock[t].phase
      BY <2>1 DEF Replaced
    <3>2. \A t \in typists'[x] : t \in typists[x] \/ t = s
      BY <2>2
    <3>3. sock[x].phase # "joined" => typists[x] = {} /\ typists'[x] = typists[x]
      BY <2>2 DEF Views
    <3>4. \A t \in typists[x] : sock[t].phase \in {"joined", "gone"}
      BY DEF Views
    <3>5. \A t \in typists'[x] : t \in Socket /\ sock[t].phase \in {"joined", "gone"}
      BY <2>1, <2>3, <3>2, <3>4
    <3> QED
      BY <3>1, <3>3, <3>5
  <2>6. ASSUME NEW x \in Socket, sock'[x].open, NEW t \in typists'[x], sock'[t].phase = "joined"
        PROVE  sock'[t].typing = "yes"
    <3>1. sock[x].open
      BY <2>1, <2>6 DEF Replaced
    <3>2. sock[x].phase = "joined"
      <4>1. sock[x].phase # "joined" => typists[x] = {} /\ typists'[x] = typists[x]
        BY <2>2 DEF Views
      <4> QED
        BY <2>6, <4>1
    <3>3. CASE t = s
      BY <2>1, <2>2, <2>6, <3>1, <3>2, <3>3 DEF Replaced
    <3>4. CASE t # s
      <4>1. t \in typists[x]
        BY <2>2, <2>6, <3>4
      <4>2. sock'[t] = sock[t]
        BY <2>1, <2>3, <3>4, <4>1 DEF Replaced
      <4> QED
        BY <2>6, <3>1, <4>1, <4>2 DEF Views
    <3> QED
      BY <3>3, <3>4
  <2> QED
    BY <2>4, <2>5, <2>6 DEF Views
<1>9. ASSUME NEW s \in Socket, Admit(s) \/ Throttle(s) \/ Commit(s) \/ RefuseFrame(s) \/ EmitFrame(s)
      PROVE  Views'
  BY <1>9 DEF Admit, Throttle, Commit, RefuseFrame, EmitFrame, views, Views
<1> QED
  BY <1>1, <1>2, <1>4, <1>5, <1>6, <1>7, <1>8, <1>9, SocketStep

-----------------------------------------------------------------------------
(* The rate.                                                               *)

LEMMA RatesStep ==
  ASSUME RoomAssumption, Types, Rates, [Next]_vars
  PROVE  Rates'
<1>1. CASE Tick
  <2> SUFFICES ASSUME NEW s \in Socket
               PROVE  Rate(ingressAt[s], admitted[s], now + 1)
    BY <1>1 DEF Tick, Rates
  <2>1. Rate(ingressAt[s], admitted[s], now)
    BY DEF Rates
  <2>2. admitted[s] \in Seq(0 .. MaxTime) /\ ingressAt[s] \in Seq(0 .. MaxTime)
        /\ now \in Nat /\ Minute \in Nat /\ MaxTime \in Nat
    BY RoomAssumption DEF Types, RoomAssumption
  <2>3. \A i \in 1 .. Len(admitted[s]) - Len(ingressAt[s]) : admitted[s][i] \in Nat
    <3>1. \A i \in 1 .. Len(admitted[s]) : admitted[s][i] \in Nat
      BY <2>2
    <3>2. Len(admitted[s]) \in Nat /\ Len(ingressAt[s]) \in Nat
      BY <2>2
    <3> QED
      BY <3>1, <3>2
  <2>4. \A i \in 1 .. Len(admitted[s]) - Len(ingressAt[s]) : admitted[s][i] < (now + 1) - Minute
    <3> SUFFICES ASSUME NEW i \in 1 .. Len(admitted[s]) - Len(ingressAt[s])
                 PROVE  admitted[s][i] < (now + 1) - Minute
      OBVIOUS
    <3>1. admitted[s][i] < now - Minute
      BY <2>1 DEF Rate
    <3> QED
      BY <2>2, <2>3, <3>1
  <2> QED
    BY <2>1, <2>4 DEF Rate
<1>2. ASSUME NEW s \in Socket, NEW at \in Seq(0 .. MaxTime), ingressAt[s] = at
      PROVE  /\ Rate(Window(s), admitted[s], now)
             /\ Len(Window(s)) < PerMinute => Rate(Append(Window(s), now), Append(admitted[s], now), now)
  <2> DEFINE ad == admitted[s]
             left == Window(s)
             a == Len(at)
             d == Len(ad)
  <2>1. /\ ad \in Seq(0 .. MaxTime) /\ now \in 0 .. MaxTime
        /\ Minute \in Nat /\ MaxTime \in Nat /\ PerMinute \in Nat
    BY RoomAssumption DEF Types, RoomAssumption
  <2>2. Rate(at, ad, now)
    BY <1>2 DEF Rates
  <2>3. PICK w \in 0 .. Len(at) :
           /\ Window(s) \in Seq(0 .. MaxTime) /\ Len(Window(s)) = Len(at) - w
           /\ \A i \in 1 .. Len(at) - w : Window(s)[i] = at[w + i]
           /\ \A i \in 1 .. w : at[i] < now - Minute
    BY <1>2, <2>1, WindowIsATail
  <2>4. a \in Nat /\ d \in Nat /\ w \in 0 .. a /\ \A i \in 1 .. d : ad[i] \in Nat
    BY <1>2, <2>1, <2>3
  <2> HIDE DEF ad, left, a, d
  <2>5. /\ a <= d /\ a <= PerMinute
        /\ \A i \in 1 .. a : at[i] = ad[d - a + i]
        /\ \A i \in 1 .. d - a : ad[i] < now - Minute
        /\ \A k \in 1 .. d - PerMinute : ad[k + PerMinute] - ad[k] > Minute
    BY <2>2 DEF Rate, a, d
  <2>6. /\ left \in Seq(0 .. MaxTime) /\ Len(left) = a - w
        /\ \A i \in 1 .. a - w : left[i] = at[w + i]
        /\ \A i \in 1 .. w : at[i] < now - Minute
    BY <2>3 DEF left, a
  <2>7. \A i \in 1 .. d - (a - w) : ad[i] < now - Minute
    <3> SUFFICES ASSUME NEW i \in 1 .. d - (a - w) PROVE ad[i] < now - Minute
      OBVIOUS
    <3>1. CASE i \in 1 .. d - a
      BY <2>5, <3>1
    <3>2. CASE i \notin 1 .. d - a
      <4> DEFINE j == i - (d - a)
      <4>1. j \in 1 .. w /\ j \in 1 .. a /\ d - a + j = i
        BY <2>4, <2>5, <3>2
      <4> HIDE DEF j
      <4> QED
        BY <2>5, <2>6, <4>1
    <3> QED
      BY <3>1, <3>2
  <2>8. \A i \in 1 .. a - w : left[i] = ad[d - (a - w) + i]
    <3> SUFFICES ASSUME NEW i \in 1 .. a - w PROVE left[i] = ad[d - (a - w) + i]
      OBVIOUS
    <3>1. w + i \in 1 .. a /\ d - a + (w + i) = d - (a - w) + i
      BY <2>4
    <3>2. left[i] = at[w + i] /\ at[w + i] = ad[d - a + (w + i)]
      BY <2>5, <2>6, <3>1
    <3> QED
      BY <3>1, <3>2
  <2>9. Rate(left, ad, now)
    BY <2>1, <2>4, <2>5, <2>6, <2>7, <2>8 DEF Rate, d
  <2>10. ASSUME Len(left) < PerMinute PROVE Rate(Append(left, now), Append(ad, now), now)
    <3> DEFINE at2 == Append(left, now)
               ad2 == Append(ad, now)
               l == a - w
    <3>1. l \in Nat /\ l <= d /\ l < PerMinute
      BY <2>4, <2>5, <2>6, <2>10
    <3>2. Len(ad2) = d + 1 /\ ad2[d + 1] = now /\ \A i \in 1 .. d : ad2[i] = ad[i]
      BY <2>1, <2>4 DEF d
    <3>3. Len(at2) = l + 1 /\ at2[l + 1] = now /\ \A i \in 1 .. l : at2[i] = left[i]
      BY <2>6, <3>1
    <3> HIDE DEF at2, ad2, l
    <3>4. \A i \in 1 .. l : left[i] = ad[d - l + i]
      BY <2>8 DEF l
    <3>5. \A i \in 1 .. d - l : ad[i] < now - Minute
      BY <2>7 DEF l
    <3>6. \A i \in 1 .. l + 1 : at2[i] = ad2[(d + 1) - (l + 1) + i]
      <4> SUFFICES ASSUME NEW i \in 1 .. l + 1 PROVE at2[i] = ad2[(d + 1) - (l + 1) + i]
        OBVIOUS
      <4>1. CASE i = l + 1
        BY <2>4, <3>1, <3>2, <3>3, <4>1
      <4>2. CASE i # l + 1
        <5> DEFINE j == d - l + i
        <5>1. i \in 1 .. l /\ j \in 1 .. d /\ (d + 1) - (l + 1) + i = j
          BY <2>4, <3>1, <4>2
        <5> HIDE DEF j
        <5>2. left[i] = ad[j]
          BY <3>4, <5>1 DEF j
        <5> QED
          BY <3>2, <3>3, <5>1, <5>2
      <4> QED
        BY <4>1, <4>2
    <3>7. \A i \in 1 .. (d + 1) - (l + 1) : ad2[i] < now - Minute
      BY <2>4, <3>1, <3>2, <3>5
    <3>8. \A k \in 1 .. (d + 1) - PerMinute : ad2[k + PerMinute] - ad2[k] > Minute
      <4> SUFFICES ASSUME NEW k \in 1 .. (d + 1) - PerMinute
                   PROVE  ad2[k + PerMinute] - ad2[k] > Minute
        OBVIOUS
      <4>1. k \in 1 .. d /\ k \in Nat /\ ad2[k] = ad[k] /\ ad[k] \in Nat
        BY <2>1, <2>4, <3>1, <3>2
      <4>2. CASE k + PerMinute = d + 1
        <5>1. k \in 1 .. d - l
          BY <2>1, <2>4, <3>1, <4>1, <4>2
        <5>2. ad[k] < now - Minute
          BY <3>5, <5>1
        <5>3. ad2[k + PerMinute] = now
          BY <3>2, <4>2
        <5> QED
          BY <2>1, <4>1, <5>2, <5>3
      <4>3. CASE k + PerMinute # d + 1
        <5> DEFINE j == k + PerMinute
        <5>1. k \in 1 .. d - PerMinute /\ j \in 1 .. d
          BY <2>1, <2>4, <3>1, <4>1, <4>3
        <5>2. ad[j] - ad[k] > Minute
          BY <2>5, <5>1
        <5> HIDE DEF j
        <5>3. ad2[j] - ad2[k] > Minute
          BY <3>2, <4>1, <5>1, <5>2
        <5> QED
          BY <5>3 DEF j
      <4> QED
        BY <4>2, <4>3
    <3>9. Len(at2) <= Len(ad2) /\ Len(at2) <= PerMinute
      BY <2>1, <2>4, <3>1, <3>2, <3>3
    <3>10. Rate(at2, ad2, now)
      BY <3>2, <3>3, <3>6, <3>7, <3>8, <3>9 DEF Rate
    <3> QED
      BY <3>10 DEF at2, ad2
  <2> QED
    BY <2>9, <2>10 DEF left, ad
<1>3. ASSUME NEW s \in Socket, Admit(s) \/ Throttle(s) PROVE Rates'
  <2>1. ingressAt[s] \in Seq(0 .. MaxTime)
    BY DEF Types
  <2>2. /\ Rate(Window(s), admitted[s], now)
        /\ Len(Window(s)) < PerMinute => Rate(Append(Window(s), now), Append(admitted[s], now), now)
    BY <1>2, <2>1
  <2>3. /\ now' = now
        /\ \A x \in Socket \ {s} : ingressAt'[x] = ingressAt[x] /\ admitted'[x] = admitted[x]
    BY <1>3 DEF Admit, Throttle, Types
  <2>4. \/ ingressAt'[s] = Window(s) /\ admitted'[s] = admitted[s]
        \/ /\ Len(Window(s)) < PerMinute
           /\ ingressAt'[s] = Append(Window(s), now) /\ admitted'[s] = Append(admitted[s], now)
    BY <1>3 DEF Admit, Throttle, Types
  <2> QED
    BY <2>2, <2>3, <2>4 DEF Rates
<1>4. CASE UNCHANGED <<now, ingressAt, admitted>>
  BY <1>4 DEF Rates
<1>5. CASE EmitElsewhere \/ Rotate \/ UNCHANGED vars
  BY <1>4, <1>5 DEF EmitElsewhere, Rotate, vars, ingress
<1>6. ASSUME NEW s \in Socket,
             \/ \E since \in {None, Invalid} \cup -1 .. Cursor : Upgrade(s, since)
             \/ Read(s) \/ Join(s) \/ Leave(s) \/ CloseEarly(s)
             \/ \E on \in {"yes", "no"} : Typing(s, on)
             \/ Commit(s) \/ RefuseFrame(s) \/ EmitFrame(s)
      PROVE  Rates'
  BY <1>4, <1>6 DEF Upgrade, Read, Join, Leave, CloseEarly, Typing, Commit, RefuseFrame,
     EmitFrame, ingress
<1> QED
  BY <1>1, <1>3, <1>5, <1>6, SocketStep

-----------------------------------------------------------------------------
(* The invariant holds, and the properties follow from it.                 *)

LEMMA RoomInit ==
  ASSUME Init PROVE RoomInv
<1>1. Fresh \in Connection
  BY DEF Fresh, Connection, None
<1>2. \A s \in Socket : sock[s] = Fresh
  BY DEF Init
<1>3. Fresh.phase = "new" /\ Fresh.read = 0 /\ Fresh.joined = 0
  BY DEF Fresh
<1>4. 0 \in 0 .. MaxTime
  BY RoomAssumption DEF RoomAssumption
<1>5. Types
  BY <1>1, <1>2, <1>3, <1>4 DEF Init, Types
<1>6. MembersJoined
  BY <1>2, <1>3 DEF Init, MembersJoined
<1>7. Streams
  BY <1>2, <1>3 DEF Init, Streams, StreamOf
<1>8. Views
  BY <1>2, <1>3 DEF Init, Views
<1>9. Rates
  BY RoomAssumption DEF Init, Rates, Rate, RoomAssumption
<1> QED
  BY <1>5, <1>6, <1>7, <1>8, <1>9 DEF RoomInv

LEMMA RoomAlways == Spec => []RoomInv
<1>1. Init => RoomInv
  BY RoomInit
<1>2. RoomInv /\ [Next]_vars => RoomInv'
  <2> SUFFICES ASSUME RoomInv, [Next]_vars PROVE RoomInv'
    OBVIOUS
  <2> QED
    BY RoomAssumption, TypesStep, MembersStep, StreamsStep, ViewsStep, RatesStep DEF RoomInv
<1> QED
  BY <1>1, <1>2, PTL DEF Spec

\* A member's stream is, in order, exactly the events it is due: backlog and
\* live stream meet without a hole and without a repeat, for any log, retention,
\* cap and number of members (the join handler and the broadcaster of room.ts).
THEOREM BacklogMeetsStream == Spec => []StreamIsWhole
<1>1. RoomInv => StreamIsWhole
  <2> SUFFICES ASSUME RoomInv, NEW s \in members, sock[s].open
               PROVE  got[s] = InOrder({i \in 0 .. Cursor - 1 : IsDue(s, i)})
    BY DEF StreamIsWhole
  <2>1. s \in Socket /\ sock[s].phase = "joined"
    BY DEF RoomInv, MembersJoined
  <2>2. got[s] = InOrder(DueOn(log, sock[s].joined, sock[s].since))
    BY <2>1 DEF RoomInv, Streams, StreamOf
  <2> QED
    BY <2>1, <2>2, DueIsDueOn
<1> QED
  BY <1>1, RoomAlways, PTL

\* Members agree on who is here and who is typing, and no connection gets more
\* than PerMinute frames in within a minute, for any number of sockets and any
\* rate (broadcastPresence, the close and typing handlers and throttled()).
THEOREM RoomStaysOrderly == Spec => []RoomIsOrderly
<1>1. RoomInv => RoomTypeOK
  <2> SUFFICES ASSUME RoomInv PROVE RoomTypeOK
    OBVIOUS
  <2>1. members \subseteq Socket
    BY DEF RoomInv, MembersJoined
  <2>2. \A s \in Socket : sock[s].read \in 0 .. turns
    BY DEF RoomInv, Types, Connection
  <2> QED
    BY <2>1, <2>2 DEF RoomInv, Types, RoomTypeOK, Connection
<1>2. RoomInv => ViewsAgree
  <2> SUFFICES ASSUME RoomInv PROVE ViewsAgree
    OBVIOUS
  <2> QED
    BY DEF RoomInv, Views, ViewsAgree, MembersJoined
<1>3. RoomInv => IngressIsBounded
  BY DEF RoomInv, Rates, Rate, IngressIsBounded
<1>4. RoomInv => RoomIsOrderly
  BY <1>1, <1>2, <1>3 DEF RoomIsOrderly
<1> QED
  BY <1>4, RoomAlways, PTL

-----------------------------------------------------------------------------
(* The replay, step by step.                                               *)

Blank == [value |-> Rows!Null, done |-> FALSE]

Replays(f, stored, k) ==
  f = [n \in 0 .. k |-> IF n = 0 THEN Blank ELSE Rows!Follow(f[n - 1], stored, n - 1)]

LEMMA ReplayExists ==
  ASSUME NEW stored PROVE \A k \in Nat : \E f : Replays(f, stored, k)
<1> DEFINE P == {k \in Nat : \E f : Replays(f, stored, k)}
<1>1. 0 \in P
  <2> DEFINE f == [n \in 0 .. 0 |-> Blank]
  <2>1. Replays(f, stored, 0)
    BY DEF Replays
  <2> QED
    BY <2>1
<1>2. ASSUME NEW k \in Nat, k \in P PROVE k + 1 \in P
  <2>1. PICK f : Replays(f, stored, k)
    BY <1>2
  <2> DEFINE g == [n \in 0 .. k + 1 |-> IF n = k + 1 THEN Rows!Follow(f[k], stored, k) ELSE f[n]]
  <2>2. ASSUME NEW n \in 0 .. k + 1
        PROVE  g[n] = IF n = 0 THEN Blank ELSE Rows!Follow(g[n - 1], stored, n - 1)
    <3>1. CASE n = k + 1
      BY <3>1
    <3>2. CASE n # k + 1
      <4>1. n \in 0 .. k /\ g[n] = f[n] /\ (n # 0 => g[n - 1] = f[n - 1])
        BY <3>2
      <4>2. f[n] = IF n = 0 THEN Blank ELSE Rows!Follow(f[n - 1], stored, n - 1)
        BY <2>1, <4>1 DEF Replays
      <4> QED
        BY <4>1, <4>2
    <3> QED
      BY <3>1, <3>2
  <2> HIDE DEF g
  <2>3. g = [n \in 0 .. k + 1 |-> g[n]]
    BY DEF g
  <2>4. Replays(g, stored, k + 1)
    BY <2>2, <2>3 DEF Replays
  <2> QED
    BY <2>4
<1> HIDE DEF P
<1>3. Nat \subseteq P
  BY <1>1, <1>2, Induction
<1> QED
  BY <1>3 DEF P

LEMMA ReplayIs ==
  ASSUME NEW stored, MaxRows \in Nat
  PROVE  \E f : Replays(f, stored, MaxRows) /\ Rows!Replay(stored) = f[MaxRows]
<1> DEFINE f == CHOOSE f : Replays(f, stored, MaxRows)
<1>1. Replays(f, stored, MaxRows)
  BY ReplayExists
<1>2. Rows!Replay(stored) = f[MaxRows]
  BY DEF Rows!Replay, Replays, Blank
<1> QED
  BY <1>1, <1>2

\* Rows that agree below a step are replayed alike up to it.
LEMMA ReplaysAgree ==
  ASSUME NEW f, NEW g, NEW s, NEW t, NEW k \in Nat, Replays(f, s, MaxRows), Replays(g, t, MaxRows),
         MaxRows \in Nat, k <= MaxRows,
         \A n \in 0 .. k - 1 : \A before : Rows!Follow(before, s, n) = Rows!Follow(before, t, n)
  PROVE  f[k] = g[k]
<1> DEFINE P == {n \in Nat : n <= k => f[n] = g[n]}
<1>1. 0 \in P
  BY DEF Replays
<1>2. ASSUME NEW n \in Nat, n \in P PROVE n + 1 \in P
  <2> SUFFICES ASSUME n + 1 <= k PROVE f[n + 1] = g[n + 1]
    OBVIOUS
  <2>1. f[n] = g[n]
    BY <1>2
  <2>2. f[n + 1] = Rows!Follow(f[n], s, n) /\ g[n + 1] = Rows!Follow(g[n], t, n)
    BY DEF Replays
  <2>3. Rows!Follow(g[n], s, n) = Rows!Follow(g[n], t, n)
    OBVIOUS
  <2> QED
    BY <2>1, <2>2, <2>3
<1> HIDE DEF P
<1>3. Nat \subseteq P
  BY <1>1, <1>2, Induction
<1> QED
  BY <1>3 DEF P

\* Above the last row nothing changes.
LEMMA ReplayRests ==
  ASSUME NEW f, NEW s, NEW k \in Nat, Replays(f, s, MaxRows), MaxRows \in Nat, k <= MaxRows,
         \A n \in k .. MaxRows : n \notin DOMAIN s
  PROVE  f[MaxRows] = f[k]
<1> DEFINE P == {d \in Nat : k + d <= MaxRows => f[k + d] = f[k]}
<1>1. 0 \in P
  OBVIOUS
<1>2. ASSUME NEW d \in Nat, d \in P PROVE d + 1 \in P
  <2> SUFFICES ASSUME k + d + 1 <= MaxRows PROVE f[k + d + 1] = f[k]
    OBVIOUS
  <2>1. f[k + d] = f[k]
    BY <1>2
  <2>2. f[k + d + 1] = Rows!Follow(f[k + d], s, k + d)
    BY DEF Replays
  <2>3. Rows!Follow(f[k + d], s, k + d) = f[k + d]
    BY DEF Rows!Follow
  <2> QED
    BY <2>1, <2>2, <2>3
<1> HIDE DEF P
<1>3. Nat \subseteq P
  BY <1>1, <1>2, Induction
<1>4. MaxRows - k \in P
  BY <1>3
<1> QED
  BY <1>4 DEF P

LEMMA ReplayOfNothing ==
  ASSUME NEW s, DOMAIN s = {}, MaxRows \in Nat
  PROVE  Rows!Replay(s) = Blank
<1>1. PICK f : Replays(f, s, MaxRows) /\ Rows!Replay(s) = f[MaxRows]
  BY ReplayIs
<1>2. f[MaxRows] = f[0]
  BY <1>1, ReplayRests
<1>3. f[0] = Blank
  BY <1>1 DEF Replays
<1> QED
  BY <1>1, <1>2, <1>3

\* A row above the others is replayed last.
LEMMA ReplayGrows ==
  ASSUME NEW s, NEW t, NEW step \in 0 .. MaxRows - 1, MaxRows \in Nat,
         DOMAIN t = DOMAIN s \cup {step}, \A n \in DOMAIN s : n # step => t[n] = s[n],
         DOMAIN s \subseteq 0 .. step - 1
  PROVE  Rows!Replay(t) = Rows!Follow(Rows!Replay(s), t, step)
<1>1. PICK f : Replays(f, s, MaxRows) /\ Rows!Replay(s) = f[MaxRows]
  BY ReplayIs
<1>2. PICK g : Replays(g, t, MaxRows) /\ Rows!Replay(t) = g[MaxRows]
  BY ReplayIs
<1>3. f[step] = g[step]
  <2>1. ASSUME NEW n \in 0 .. step - 1, NEW before PROVE Rows!Follow(before, s, n) = Rows!Follow(before, t, n)
    <3>1. n \in DOMAIN s <=> n \in DOMAIN t
      OBVIOUS
    <3>2. n \in DOMAIN s => t[n] = s[n]
      OBVIOUS
    <3> QED
      BY <3>1, <3>2 DEF Rows!Follow
  <2> QED
    BY <1>1, <1>2, <2>1, ReplaysAgree
<1>4. f[MaxRows] = f[step]
  <2>1. \A n \in step .. MaxRows : n \notin DOMAIN s
    OBVIOUS
  <2>2. step \in Nat /\ step <= MaxRows
    OBVIOUS
  <2> QED
    BY <1>1, <2>1, <2>2, ReplayRests
<1>5. g[MaxRows] = g[step + 1]
  <2>1. \A n \in step + 1 .. MaxRows : n \notin DOMAIN t
    OBVIOUS
  <2>2. step + 1 \in Nat /\ step + 1 <= MaxRows
    OBVIOUS
  <2> QED
    BY <1>2, <2>1, <2>2, ReplayRests
<1>6. g[step + 1] = Rows!Follow(g[step], t, step)
  BY <1>2 DEF Replays
<1> QED
  BY <1>1, <1>2, <1>3, <1>4, <1>5, <1>6

-----------------------------------------------------------------------------
(* Values, and the messages of one as a beginning of another's.            *)

LEMMA ValueIs ==
  ASSUME MaxLength \in Nat
  PROVE  \A v : v \in Rows!Value <=>
           /\ v = [messages |-> v.messages, meta |-> v.meta]
           /\ v.messages \in Seq(Message) /\ Len(v.messages) <= MaxLength /\ v.meta \in Meta
<1>1. \A m : m \in UNION {[1 .. n -> Message] : n \in 0 .. MaxLength}
             <=> m \in Seq(Message) /\ Len(m) <= MaxLength
  <2>1. ASSUME NEW n \in 0 .. MaxLength, NEW m \in [1 .. n -> Message]
        PROVE  m \in Seq(Message) /\ Len(m) <= MaxLength
    OBVIOUS
  <2>2. ASSUME NEW m \in Seq(Message), Len(m) <= MaxLength
        PROVE  \E n \in 0 .. MaxLength : m \in [1 .. n -> Message]
    <3>1. Len(m) \in Nat /\ DOMAIN m = 1 .. Len(m) /\ m = [i \in 1 .. Len(m) |-> m[i]]
      OBVIOUS
    <3>2. \A i \in 1 .. Len(m) : m[i] \in Message
      OBVIOUS
    <3> DEFINE n == Len(m)
    <3>3. n \in 0 .. MaxLength /\ m = [i \in 1 .. n |-> m[i]]
      BY <2>2, <3>1
    <3>4. \A i \in 1 .. n : m[i] \in Message
      BY <3>2
    <3> HIDE DEF n
    <3>5. m \in [1 .. n -> Message]
      BY <3>3, <3>4
    <3> QED
      BY <3>3, <3>5
  <2> QED
    BY <2>1, <2>2
<1> DEFINE M == UNION {[1 .. n -> Message] : n \in 0 .. MaxLength}
<1> HIDE DEF M
<1>2. \A v : v \in [messages : M, meta : Meta] <=>
             v = [messages |-> v.messages, meta |-> v.meta] /\ v.messages \in M /\ v.meta \in Meta
  OBVIOUS
<1>3. Rows!Value = [messages : M, meta : Meta]
  BY DEF Rows!Value, M
<1> QED
  BY <1>1, <1>2, <1>3 DEF M

LEMMA NullIs ==
  ASSUME MaxLength \in Nat, Rows!CheckpointAssumption
  PROVE  Rows!Null \notin Rows!Value /\ Rows!Null.messages = <<>> /\ Rows!Null.meta = "none"
<1>1. Rows!Null.messages = <<>> /\ Rows!Null.meta = "none"
  BY DEF Rows!Null
<1> QED
  BY <1>1, ValueIs DEF Rows!CheckpointAssumption

LEMMA SameValue ==
  ASSUME MaxLength \in Nat, NEW v \in Rows!Value, NEW w, w = [messages |-> v.messages, meta |-> v.meta]
  PROVE  w = v
BY ValueIs

LEMMA PrefixOfItself ==
  ASSUME NEW s \in Seq(Message) PROVE Rows!IsPrefixOf(s, s)
BY DEF Rows!IsPrefixOf

LEMMA PrefixTransitive ==
  ASSUME NEW s \in Seq(Message), NEW t \in Seq(Message), NEW u \in Seq(Message),
         Rows!IsPrefixOf(s, t), Rows!IsPrefixOf(t, u)
  PROVE  Rows!IsPrefixOf(s, u)
<1>1. Len(s) \in Nat /\ Len(t) \in Nat /\ Len(u) \in Nat /\ Len(s) <= Len(t) /\ Len(t) <= Len(u)
  BY DEF Rows!IsPrefixOf
<1>2. \A i \in 1 .. Len(s) : s[i] = t[i]
  <2>1. SubSeq(t, 1, Len(s)) = s
    BY DEF Rows!IsPrefixOf
  <2>2. \A i \in 1 .. Len(s) : SubSeq(t, 1, Len(s))[i] = t[i]
    BY <1>1
  <2> QED
    BY <2>1, <2>2
<1>3. \A i \in 1 .. Len(t) : t[i] = u[i]
  <2>1. SubSeq(u, 1, Len(t)) = t
    BY DEF Rows!IsPrefixOf
  <2>2. \A i \in 1 .. Len(t) : SubSeq(u, 1, Len(t))[i] = u[i]
    BY <1>1
  <2> QED
    BY <2>1, <2>2
<1>4. \A i \in 1 .. Len(s) : s[i] = u[i]
  BY <1>1, <1>2, <1>3
<1>5. SubSeq(u, 1, Len(s)) = s
  BY <1>1, <1>4
<1> QED
  BY <1>1, <1>5 DEF Rows!IsPrefixOf

\* A beginning and the rest of it make the whole.
LEMMA Rejoined ==
  ASSUME NEW s \in Seq(Message), NEW u \in Seq(Message), Rows!IsPrefixOf(s, u)
  PROVE  s \o SubSeq(u, Len(s) + 1, Len(u)) = u
<1> DEFINE rest == SubSeq(u, Len(s) + 1, Len(u))
           both == s \o rest
<1>1. Len(s) \in Nat /\ Len(u) \in Nat /\ Len(s) <= Len(u)
  BY DEF Rows!IsPrefixOf
<1>2. rest \in Seq(Message) /\ Len(rest) = Len(u) - Len(s)
      /\ \A i \in 1 .. Len(u) - Len(s) : rest[i] = u[Len(s) + i]
  BY <1>1
<1>3. \A i \in 1 .. Len(s) : s[i] = u[i]
  <2>1. SubSeq(u, 1, Len(s)) = s
    BY DEF Rows!IsPrefixOf
  <2>2. \A i \in 1 .. Len(s) : SubSeq(u, 1, Len(s))[i] = u[i]
    BY <1>1
  <2> QED
    BY <2>1, <2>2
<1> HIDE DEF rest
<1>4. both \in Seq(Message) /\ Len(both) = Len(u)
  BY <1>1, <1>2
<1>5. ASSUME NEW i \in 1 .. Len(u) PROVE both[i] = u[i]
  <2>0. i \in Nat /\ Len(s) \in Nat
    BY <1>1
  <2>1. CASE i <= Len(s)
    <3>1. i \in 1 .. Len(s) /\ i \in 1 .. Len(s) + Len(rest)
      BY <1>1, <1>2, <2>1
    <3>2. both[i] = s[i]
      BY <1>2, <3>1
    <3> QED
      BY <1>3, <3>1, <3>2
  <2>2. CASE i > Len(s)
    <3>1. i - Len(s) \in 1 .. Len(u) - Len(s) /\ Len(s) + (i - Len(s)) = i
      BY <1>1, <2>2
    <3>2. both[i] = rest[i - Len(s)]
      BY <1>1, <1>2, <2>2
    <3> QED
      BY <1>2, <3>1, <3>2
  <2>3. i <= Len(s) \/ i > Len(s)
    BY <2>0
  <2> QED
    BY <2>1, <2>2, <2>3
<1> HIDE DEF both
<1>6. both = u
  BY <1>4, <1>5
<1> QED
  BY <1>6 DEF both, rest

-----------------------------------------------------------------------------
(* The invariant: what a save in flight holds, and how what is stored goes *)
(* with what its writer believes is.                                       *)

Row(r) ==
  /\ r.kind \in {"full", "delta"}
  /\ r.kind = "full" => r.value \in Rows!Value
  /\ r.kind = "delta" =>
       /\ r.added \in Seq(Message) /\ r.baseCount \in Nat /\ r.meta \in Meta
       /\ r.baseCount + Len(r.added) <= MaxLength

\* A row that stands for `of', alone or over what it was planned on.
RowOf(r, of) ==
  /\ r.kind = "full" => r.value = of
  /\ r.kind = "delta" =>
       /\ r.baseCount <= Len(of.messages) /\ r.meta = of.meta
       /\ r.added = SubSeq(of.messages, r.baseCount + 1, Len(of.messages))

Saving(o) == o.pc \in {"step", "insert"}

Operation(o) ==
  /\ o.pc \in {"idle", "step", "insert", "delete"}
  /\ Saving(o) => Row(o.row) /\ o.of \in Rows!Value /\ o.attempt \in 1 .. 3
  /\ o.pc = "insert" => o.step \in 0 .. MaxRows - 1

RowTypes ==
  /\ live \in [Process -> Rows!Value \cup {Rows!Null}]
  /\ channel \in [Process -> [value : Rows!Value \cup {Rows!Null}, deltas : 0 .. SnapshotEvery]]
  /\ op = [p \in Process |-> op[p]]
  /\ \A p \in Process : Operation(op[p])
  /\ DOMAIN rows \subseteq 0 .. MaxRows - 1
  /\ DOMAIN rows = {} => rows = <<>>
  /\ \A n \in DOMAIN rows : Row(rows[n])
  /\ last \in Rows!Value \cup {Rows!Null} /\ planned \subseteq Rows!Value \cup {Rows!Null} /\ Rows!Null \in planned
  /\ owner \in Process \cup {Rows!Nobody} /\ failed \in BOOLEAN /\ tainted \in BOOLEAN

\* A save in flight writes what its channel has already advanced to.
Planned ==
  \A p \in Process : Saving(op[p]) =>
    op[p].of = channel[p].value /\ op[p].of \in planned /\ RowOf(op[p].row, op[p].of)

\* What the rows stand for is a beginning of what their writer believes is stored,
\* and all of it unless a save was lost - until a delta that did not fit ended it.
Trusts(replay, value, o, lost) ==
  value # Rows!Null /\ ~replay.done =>
    /\ ~Saving(o) =>
         /\ Rows!IsPrefixOf(replay.value.messages, value.messages)
         /\ ~lost => replay.value = value
    /\ Saving(o) /\ o.row.kind = "delta" =>
         /\ Rows!IsPrefixOf(replay.value.messages, o.of.messages)
         /\ Len(replay.value.messages) <= o.row.baseCount
         /\ ~lost => Len(replay.value.messages) = o.row.baseCount

Chain ==
  ~tainted =>
    /\ Rows!Replay(rows).value \in planned
    /\ owner = Rows!Nobody => rows = <<>> /\ last = Rows!Null
    /\ owner # Rows!Nobody => Rows!Replay(rows).value # Rows!Null
    /\ ~failed => Rows!Replay(rows).value = last /\ ~Rows!Replay(rows).done
    /\ \A p \in Process : owner = p => Trusts(Rows!Replay(rows), channel[p].value, op[p], failed)

ChainInv == RowTypes /\ Planned /\ Chain

\* A replay of well-formed rows is a value.
LEMMA FollowTypes ==
  ASSUME Rows!CheckpointAssumption, NEW before, NEW s, NEW n,
         before.value \in Rows!Value \cup {Rows!Null}, n \in DOMAIN s => Row(s[n])
  PROVE  Rows!Follow(before, s, n).value \in Rows!Value \cup {Rows!Null}
<1>1. MaxLength \in Nat
  BY DEF Rows!CheckpointAssumption
<1>2. CASE before.done \/ n \notin DOMAIN s
  BY <1>2 DEF Rows!Follow
<1>3. CASE ~(before.done \/ n \notin DOMAIN s) /\ s[n].kind = "full"
  BY <1>3 DEF Rows!Follow, Row
<1>4. CASE ~(before.done \/ n \notin DOMAIN s) /\ s[n].kind = "delta"
  <2> DEFINE row == s[n]
             value == before.value
  <2>1. Rows!Follow(before, s, n) = Rows!Overlay(value, row)
    BY <1>4 DEF Rows!Follow
  <2>2. /\ row.added \in Seq(Message) /\ row.baseCount \in Nat /\ row.meta \in Meta
        /\ row.baseCount + Len(row.added) <= MaxLength
    BY <1>4 DEF Row
  <2> HIDE DEF row, value
  <2>3. CASE value = Rows!Null \/ Len(value.messages) # row.baseCount
    <3>1. Rows!Overlay(value, row).value = value
      BY <2>3 DEF Rows!Overlay
    <3> QED
      BY <2>1, <3>1 DEF value
  <2>4. CASE value # Rows!Null /\ Len(value.messages) = row.baseCount
    <3> DEFINE whole == value.messages \o row.added
               next == [messages |-> whole, meta |-> row.meta]
    <3>1. Rows!Overlay(value, row).value = next
      BY <2>4 DEF Rows!Overlay
    <3>2. value.messages \in Seq(Message)
      BY <1>1, <2>4, ValueIs DEF value
    <3>3. whole \in Seq(Message) /\ Len(whole) <= MaxLength
      <4>1. whole \in Seq(Message)
        BY <2>2, <3>2
      <4>2. Len(whole) = Len(value.messages) + Len(row.added)
        BY <2>2, <3>2
      <4> QED
        BY <2>2, <2>4, <4>1, <4>2
    <3> HIDE DEF whole
    <3>4. next.messages = whole /\ next.meta = row.meta
      OBVIOUS
    <3>5. next \in Rows!Value
      BY <1>1, <2>2, <3>3, <3>4, ValueIs
    <3> QED
      BY <2>1, <3>1, <3>5
  <2> QED
    BY <2>3, <2>4
<1> QED
  BY <1>2, <1>3, <1>4 DEF Row

LEMMA ReplayTypes ==
  ASSUME Rows!CheckpointAssumption, NEW s, \A n \in DOMAIN s : Row(s[n])
  PROVE  Rows!Replay(s).value \in Rows!Value \cup {Rows!Null}
<1>1. MaxRows \in Nat
  BY DEF Rows!CheckpointAssumption
<1>2. PICK f : Replays(f, s, MaxRows) /\ Rows!Replay(s) = f[MaxRows]
  BY <1>1, ReplayIs
<1> DEFINE P == {n \in Nat : n <= MaxRows => f[n].value \in Rows!Value \cup {Rows!Null}}
<1>3. 0 \in P
  BY <1>1, <1>2 DEF Replays, Blank
<1>4. ASSUME NEW n \in Nat, n \in P PROVE n + 1 \in P
  <2> SUFFICES ASSUME n + 1 <= MaxRows PROVE f[n + 1].value \in Rows!Value \cup {Rows!Null}
    OBVIOUS
  <2>1. f[n].value \in Rows!Value \cup {Rows!Null}
    BY <1>1, <1>4
  <2>2. f[n + 1] = Rows!Follow(f[n], s, n)
    BY <1>1, <1>2 DEF Replays
  <2> QED
    BY <2>1, <2>2, FollowTypes
<1> HIDE DEF P
<1>5. Nat \subseteq P
  BY <1>3, <1>4, Induction
<1> QED
  BY <1>1, <1>2, <1>5 DEF P

\* What planWrite writes stands for the value; a delta of it appends to the value
\* the channel holds.
LEMMA PlanStandsFor ==
  ASSUME Rows!CheckpointAssumption, NEW state, state.value \in Rows!Value \cup {Rows!Null}, NEW next \in Rows!Value,
         NEW row, row = Rows!planWrite(state, next)
  PROVE  /\ Row(row) /\ RowOf(row, next)
         /\ row.kind = "delta" =>
              /\ state.value # Rows!Null /\ ~(state.deltas >= SnapshotEvery)
              /\ Rows!IsPrefixOf(state.value.messages, next.messages)
              /\ row.baseCount = Len(state.value.messages)
<1> DEFINE base == state.value.messages
<1>1. MaxLength \in Nat
  BY DEF Rows!CheckpointAssumption
<1>2. next.messages \in Seq(Message) /\ Len(next.messages) <= MaxLength /\ next.meta \in Meta
  BY <1>1, ValueIs
<1>3. CASE row = Rows!Full(next)
  <2>1. row.kind = "full" /\ row.value = next
    BY <1>3 DEF Rows!Full
  <2> QED
    BY <2>1 DEF Row, RowOf
<1>4. CASE /\ state.value # Rows!Null /\ ~(state.deltas >= SnapshotEvery)
           /\ Rows!IsPrefixOf(base, next.messages) /\ row = Rows!Delta(next, Len(base))
  <2> DEFINE n == Len(base)
             all == next.messages
  <2>1. base \in Seq(Message)
    BY <1>1, <1>4, ValueIs
  <2>2. n \in Nat /\ Len(all) \in Nat /\ n <= Len(all)
    BY <1>2, <1>4, <2>1 DEF Rows!IsPrefixOf
  <2>3. /\ row.kind = "delta" /\ row.added = SubSeq(all, n + 1, Len(all))
        /\ row.baseCount = n /\ row.meta = next.meta
    BY <1>4 DEF Rows!Delta
  <2>4. all \in Seq(Message) /\ Len(all) <= MaxLength
    BY <1>2
  <2> HIDE DEF n, all
  <2>5. row.added \in Seq(Message) /\ n + Len(row.added) = Len(all)
    BY <2>2, <2>3, <2>4
  <2>6. Row(row)
    BY <1>1, <1>2, <2>2, <2>3, <2>4, <2>5 DEF Row
  <2>7. RowOf(row, next)
    BY <2>2, <2>3 DEF RowOf, all
  <2> QED
    BY <1>4, <2>3, <2>6, <2>7 DEF n
<1> QED
  BY <1>3, <1>4 DEF Rows!planWrite

\* A row on top of a replay: what it stands for then, and that a replay that does
\* not end there has become the value of the row.
LEMMA RowLands ==
  ASSUME Rows!CheckpointAssumption, NEW before, NEW s, NEW n, n \in DOMAIN s, NEW of \in Rows!Value, NEW lost,
         before.value \in Rows!Value \cup {Rows!Null}, Row(s[n]), RowOf(s[n], of),
         before.done => before.value # Rows!Null, ~lost => ~before.done,
         s[n].kind = "delta" =>
           /\ before.value # Rows!Null
           /\ ~before.done =>
                /\ Rows!IsPrefixOf(before.value.messages, of.messages)
                /\ ~lost => Len(before.value.messages) = s[n].baseCount,
         NEW after, after = Rows!Follow(before, s, n)
  PROVE  /\ after.value \in {before.value, of} /\ after.value # Rows!Null
         /\ ~after.done => after.value = of
         /\ ~lost => ~after.done
<1>1. MaxLength \in Nat
  BY DEF Rows!CheckpointAssumption
<1>2. Rows!Null \notin Rows!Value
  BY <1>1, NullIs
<1>3. CASE before.done
  <2>1. after = before
    BY <1>3 DEF Rows!Follow
  <2> QED
    BY <1>3, <2>1
<1>4. CASE ~before.done /\ s[n].kind = "full"
  <2>1. after = [value |-> s[n].value, done |-> FALSE]
    BY <1>4 DEF Rows!Follow
  <2>2. after.value = of /\ ~after.done
    BY <1>4, <2>1 DEF RowOf
  <2> QED
    BY <1>2, <2>2
<1>5. CASE ~before.done /\ s[n].kind = "delta"
  <2> DEFINE row == s[n]
             value == before.value
  <2>1. after = Rows!Overlay(value, row)
    BY <1>5 DEF Rows!Follow
  <2>2. value \in Rows!Value /\ Rows!IsPrefixOf(value.messages, of.messages)
        /\ (~lost => Len(value.messages) = row.baseCount)
    BY <1>5
  <2>3. row.meta = of.meta
        /\ row.added = SubSeq(of.messages, row.baseCount + 1, Len(of.messages))
    BY <1>5 DEF RowOf
  <2>4. value.messages \in Seq(Message) /\ of.messages \in Seq(Message)
    BY <1>1, <2>2, ValueIs
  <2>5. value # Rows!Null
    BY <1>2, <2>2
  <2> HIDE DEF row, value
  <2>6. CASE Len(value.messages) # row.baseCount
    <3>1. after = [value |-> value, done |-> TRUE]
      BY <2>1, <2>5, <2>6 DEF Rows!Overlay
    <3>2. after.value = value /\ after.done
      BY <3>1
    <3> QED
      BY <2>2, <2>5, <2>6, <3>2 DEF value
  <2>7. CASE Len(value.messages) = row.baseCount
    <3> DEFINE whole == value.messages \o row.added
               next == [messages |-> whole, meta |-> row.meta]
    <3>1. after = [value |-> next, done |-> FALSE]
      BY <2>1, <2>5, <2>7 DEF Rows!Overlay
    <3>2. whole = of.messages
      BY <2>2, <2>3, <2>4, <2>7, Rejoined
    <3>3. next = of
      BY <1>1, <2>3, <3>2, SameValue
    <3> HIDE DEF next
    <3>4. after.value = of /\ ~after.done
      BY <3>1, <3>3
    <3> QED
      BY <1>2, <3>4
  <2> QED
    BY <2>6, <2>7
<1> QED
  BY <1>3, <1>4, <1>5 DEF Row

-----------------------------------------------------------------------------
(* One operation gives way to the next.                                    *)

Becomes(p, o) == op' = [op EXCEPT ![p] = o]

LEMMA OperationsStep ==
  ASSUME RowTypes, NEW p \in Process, NEW o, Becomes(p, o), Operation(o)
  PROVE  /\ op' = [q \in Process |-> op'[q]] /\ \A q \in Process : Operation(op'[q])
         /\ op'[p] = o /\ \A q \in Process : q # p => op'[q] = op[q]
<1>1. op = [q \in Process |-> op[q]] /\ \A q \in Process : Operation(op[q])
  BY DEF RowTypes
<1>2. op' = [q \in Process |-> IF q = p THEN o ELSE op[q]]
  BY <1>1 DEF Becomes
<1>3. op'[p] = o /\ \A q \in Process : q # p => op'[q] = op[q]
  BY <1>2
<1>4. op' = [q \in Process |-> op'[q]]
  BY <1>2
<1> QED
  BY <1>1, <1>3, <1>4

LEMMA IdleIs == Operation(Rows!Idle) /\ Rows!Idle.pc = "idle" /\ ~Saving(Rows!Idle)
BY DEF Operation, Rows!Idle, Saving

\* The next step is a number.
LEMMA StepIsNumber ==
  ASSUME Rows!CheckpointAssumption, RowTypes PROVE Rows!NextStep \in Nat
<1>1. MaxRows \in Nat /\ DOMAIN rows \subseteq 0 .. MaxRows - 1 /\ (DOMAIN rows = {} => rows = <<>>)
  BY DEF Rows!CheckpointAssumption, RowTypes
<1>2. CASE rows = <<>>
  BY <1>2 DEF Rows!NextStep
<1>3. CASE rows # <<>>
  <2> DEFINE T == {k \in Nat : MaxRows - k \in DOMAIN rows}
             top == CHOOSE n \in DOMAIN rows : \A m \in DOMAIN rows : m <= n
  <2>1. PICK d \in DOMAIN rows : TRUE
    BY <1>1, <1>3
  <2>2. MaxRows - d \in T
    BY <1>1, <2>1
  <2>3. \A m \in DOMAIN rows : MaxRows - m \in T
    BY <1>1
  <2>4. \A k \in T : k \in Nat /\ MaxRows - k \in DOMAIN rows
    OBVIOUS
  <2>5. T \in SUBSET Nat /\ T # {}
    BY <2>2
  <2> HIDE DEF T
  <2>6. PICK k \in T : \A n \in T : k <= n
    BY <2>5, LeastNumber
  <2>7. ASSUME NEW m \in DOMAIN rows PROVE m <= MaxRows - k
    <3>1. k <= MaxRows - m /\ k \in Nat /\ m \in Int
      BY <1>1, <2>3, <2>4, <2>6
    <3> QED
      BY <1>1, <3>1
  <2>8. top \in DOMAIN rows
    BY <2>4, <2>6, <2>7
  <2>9. Rows!NextStep = 1 + top
    BY <1>3 DEF Rows!NextStep
  <2> HIDE DEF top
  <2> QED
    BY <1>1, <2>8, <2>9
<1> QED
  BY <1>2, <1>3

\* What a step does to the operation, the channel and the live value of one process.
LEMMA ChannelsStep ==
  ASSUME RowTypes, NEW p \in Process, NEW value \in Rows!Value \cup {Rows!Null}, NEW deltas \in 0 .. SnapshotEvery,
         NEW state, state = [value |-> value, deltas |-> deltas],
         channel' = [q \in Process |-> IF q = p THEN state ELSE channel[q]]
  PROVE  /\ channel' \in [Process -> [value : Rows!Value \cup {Rows!Null}, deltas : 0 .. SnapshotEvery]]
         /\ channel'[p].value = value /\ \A q \in Process : q # p => channel'[q] = channel[q]
<1> DEFINE State == [value : Rows!Value \cup {Rows!Null}, deltas : 0 .. SnapshotEvery]
<1>1. state \in State /\ state.value = value
  OBVIOUS
<1>2. channel \in [Process -> State]
  BY DEF RowTypes
<1> HIDE DEF State
<1>3. channel' \in [Process -> State]
  BY <1>1, <1>2
<1> QED
  BY <1>1, <1>3 DEF State

LEMMA LivesStep ==
  ASSUME RowTypes, NEW p \in Process, NEW value \in Rows!Value \cup {Rows!Null}, live' = [live EXCEPT ![p] = value]
  PROVE  live' \in [Process -> Rows!Value \cup {Rows!Null}]
BY DEF RowTypes

\* A replay that is trusted through one operation is trusted through the next.
LEMMA TrustPersists ==
  ASSUME NEW replay, NEW state, state.value # Rows!Null, NEW o, ~Saving(o), NEW lost,
         Trusts(replay, state.value, o, lost),
         Rows!CheckpointAssumption, NEW next \in Rows!Value, state.value \in Rows!Value,
         replay.value \in Rows!Value \cup {Rows!Null},
         NEW save, save.of = next, Saving(save),
         save.row.kind = "delta" =>
           /\ Rows!IsPrefixOf(state.value.messages, next.messages)
           /\ save.row.baseCount = Len(state.value.messages)
  PROVE  Trusts(replay, next, save, lost)
<1> SUFFICES ASSUME ~replay.done, save.row.kind = "delta"
             PROVE  /\ Rows!IsPrefixOf(replay.value.messages, save.of.messages)
                    /\ Len(replay.value.messages) <= save.row.baseCount
                    /\ ~lost => Len(replay.value.messages) = save.row.baseCount
  BY DEF Trusts
<1>1. MaxLength \in Nat
  BY DEF Rows!CheckpointAssumption
<1>2. Rows!IsPrefixOf(replay.value.messages, state.value.messages) /\ (~lost => replay.value = state.value)
  BY DEF Trusts
<1>3. /\ next.messages \in Seq(Message) /\ state.value.messages \in Seq(Message)
      /\ replay.value.messages \in Seq(Message)
  <2>1. Rows!Null.messages = <<>> /\ <<>> \in Seq(Message)
    BY <1>1, NullIs
  <2> QED
    BY <1>1, <2>1, ValueIs
<1>4. Rows!IsPrefixOf(replay.value.messages, next.messages)
  BY <1>2, <1>3, PrefixTransitive
<1>5. Len(replay.value.messages) <= Len(state.value.messages)
  BY <1>2 DEF Rows!IsPrefixOf
<1> QED
  BY <1>2, <1>4, <1>5

LEMMA TrustGoesOn ==
  ASSUME NEW replay, NEW value, NEW o, NEW lost, Trusts(replay, value, o, lost),
         NEW next, Saving(o) <=> Saving(next),
         Saving(o) => next.row = o.row /\ next.of = o.of
  PROVE  Trusts(replay, value, next, lost)
BY DEF Trusts

\* A delta that is given up leaves a beginning of the value.
LEMMA TrustAfterLoss ==
  ASSUME NEW replay, NEW value, NEW o, NEW lost, Trusts(replay, value, o, lost),
         Saving(o), o.row.kind = "delta", o.of = value
  PROVE  Trusts(replay, value, Rows!Idle, TRUE)
BY IdleIs DEF Trusts

LEMMA TrustWeakens ==
  ASSUME NEW replay, NEW value, NEW o, NEW lost, Trusts(replay, value, o, lost)
  PROVE  Trusts(replay, value, o, TRUE)
BY DEF Trusts

LEMMA TrustNothing ==
  ASSUME NEW replay, NEW o, NEW lost PROVE Trusts(replay, Rows!Null, o, lost)
BY DEF Trusts

-----------------------------------------------------------------------------
(* The actions.                                                            *)

LEMMA InitHolds == Rows!CheckpointAssumption /\ Rows!Init => ChainInv
<1> SUFFICES ASSUME Rows!CheckpointAssumption, Rows!Init PROVE ChainInv
  OBVIOUS
<1>1. op = [p \in Process |-> Rows!Idle] /\ rows = <<>> /\ owner = Rows!Nobody /\ last = Rows!Null
      /\ planned = {Rows!Null} /\ failed = FALSE /\ tainted = FALSE
  BY DEF Rows!Init
<1>2. \A p \in Process : op[p] = Rows!Idle
  BY <1>1
<1>3. DOMAIN rows = {}
  BY <1>1
<1>4. RowTypes
  <2>1. live \in [Process -> Rows!Value \cup {Rows!Null}]
    BY DEF Rows!Init
  <2>2. channel \in [Process -> [value : Rows!Value \cup {Rows!Null}, deltas : 0 .. SnapshotEvery]]
    <3>1. 0 \in 0 .. SnapshotEvery
      BY DEF Rows!CheckpointAssumption
    <3>2. Rows!NoState \in [value : Rows!Value \cup {Rows!Null}, deltas : 0 .. SnapshotEvery]
      BY <3>1 DEF Rows!NoState
    <3> HIDE DEF Rows!NoState
    <3> QED
      BY <3>2 DEF Rows!Init
  <2>3. op = [p \in Process |-> op[p]] /\ \A p \in Process : Operation(op[p])
    BY <1>1, <1>2, IdleIs
  <2> QED
    BY <1>1, <1>3, <2>1, <2>2, <2>3 DEF RowTypes
<1>5. Planned
  BY <1>2, IdleIs DEF Planned
<1>6. Chain
  <2>1. Rows!Replay(rows) = Blank
    BY <1>3, ReplayOfNothing DEF Rows!CheckpointAssumption
  <2>2. Rows!Replay(rows).value = Rows!Null /\ ~Rows!Replay(rows).done
    BY <2>1 DEF Blank
  <2>3. \A p \in Process : owner # p
    BY <1>1 DEF Rows!CheckpointAssumption, Rows!Nobody
  <2> QED
    BY <1>1, <2>2, <2>3 DEF Chain
<1> QED
  BY <1>4, <1>5, <1>6 DEF ChainInv

LEMMA ChangeHolds ==
  ASSUME Rows!CheckpointAssumption, ChainInv, NEW p \in Process, Rows!Change(p) PROVE ChainInv'
<1>1. RowTypes /\ Planned /\ Chain
  BY DEF ChainInv
<1>2. PICK next \in Rows!Value : live' = [live EXCEPT ![p] = next]
  BY DEF Rows!Change
<1>3. UNCHANGED <<channel, op, rows, planned, last, owner, failed, tainted>>
  BY DEF Rows!Change, Rows!history
<1>4. live' \in [Process -> Rows!Value \cup {Rows!Null}]
  BY <1>1, <1>2, LivesStep
<1>5. RowTypes'
  BY <1>1, <1>3, <1>4 DEF RowTypes
<1>6. Planned' /\ Chain'
  BY <1>1, <1>3 DEF Planned, Chain
<1> QED
  BY <1>5, <1>6 DEF ChainInv

LEMMA HydrateHolds ==
  ASSUME Rows!CheckpointAssumption, ChainInv, NEW p \in Process, Rows!Hydrate(p) PROVE ChainInv'
<1>1. RowTypes /\ Planned /\ Chain
  BY DEF ChainInv
<1> DEFINE value == Rows!reconstructRows(rows)
<1>2. live' = [live EXCEPT ![p] = value]
      /\ UNCHANGED <<channel, op, rows, planned, last, owner, failed, tainted>>
  BY DEF Rows!Hydrate, Rows!history
<1>3. value \in Rows!Value \cup {Rows!Null}
  BY <1>1, ReplayTypes DEF RowTypes, Rows!reconstructRows
<1> HIDE DEF value
<1>4. live' \in [Process -> Rows!Value \cup {Rows!Null}]
  BY <1>1, <1>2, <1>3, LivesStep
<1>5. RowTypes'
  BY <1>1, <1>2, <1>4 DEF RowTypes
<1>6. Planned' /\ Chain'
  BY <1>1, <1>2 DEF Planned, Chain
<1> QED
  BY <1>5, <1>6 DEF ChainInv

LEMMA PersistHolds ==
  ASSUME Rows!CheckpointAssumption, ChainInv, NEW p \in Process, Rows!Persist(p) PROVE ChainInv'
<1>1. RowTypes /\ Planned /\ Chain
  BY DEF ChainInv
<1> DEFINE next == live[p]
           row == Rows!planWrite(channel[p], next)
           save == [pc |-> "step", row |-> row, of |-> next, attempt |-> 1]
           deltas == IF row.kind = "full" THEN 0 ELSE channel[p].deltas + 1
           state == [value |-> next, deltas |-> deltas]
<1>2. /\ op[p] = Rows!Idle /\ next # Rows!Null /\ planned' = planned \cup {next}
      /\ UNCHANGED <<live, rows, last, owner, failed, tainted>>
  BY DEF Rows!Persist
<1>3. op' = [op EXCEPT ![p] = save]
  BY DEF Rows!Persist
<1>4. channel' = [q \in Process |-> IF q = p THEN state ELSE channel[q]]
  <2>1. channel' = [channel EXCEPT ![p] =
                      [value |-> next, deltas |-> IF row.kind = "full" THEN 0 ELSE channel[p].deltas + 1]]
    BY <1>1 DEF Rows!Persist, RowTypes
  <2>2. channel' = [channel EXCEPT ![p] = state]
    BY <2>1
  <2> HIDE DEF state
  <2> QED
    BY <1>1, <2>2 DEF RowTypes
<1>5. next \in Rows!Value /\ channel[p].value \in Rows!Value \cup {Rows!Null} /\ channel[p].deltas \in 0 .. SnapshotEvery
  BY <1>1, <1>2 DEF RowTypes
<1>6. /\ Row(row) /\ RowOf(row, next)
      /\ row.kind = "delta" =>
           /\ channel[p].value # Rows!Null /\ ~(channel[p].deltas >= SnapshotEvery)
           /\ Rows!IsPrefixOf(channel[p].value.messages, next.messages)
           /\ row.baseCount = Len(channel[p].value.messages)
  BY <1>5, PlanStandsFor
<1> HIDE DEF row, next
<1>7. /\ save.pc = "step" /\ save.row = row /\ save.of = next /\ save.attempt \in 1 .. 3
      /\ Saving(save)
  BY DEF Saving
<1> HIDE DEF save
<1>8. Operation(save)
  BY <1>5, <1>6, <1>7 DEF Operation
<1>9. deltas \in 0 .. SnapshotEvery
  <2>1. SnapshotEvery \in Nat /\ row.kind \in {"full", "delta"}
    BY <1>6 DEF Rows!CheckpointAssumption, Row
  <2> QED
    BY <1>5, <1>6, <2>1
<1>10. /\ op' = [q \in Process |-> op'[q]] /\ \A q \in Process : Operation(op'[q])
       /\ op'[p] = save /\ \A q \in Process : q # p => op'[q] = op[q]
  <2>1. Becomes(p, save)
    BY <1>3 DEF Becomes
  <2> QED
    BY <1>1, <1>8, <2>1, OperationsStep
<1> HIDE DEF deltas
<1>11. /\ channel' \in [Process -> [value : Rows!Value \cup {Rows!Null}, deltas : 0 .. SnapshotEvery]]
       /\ channel'[p].value = next /\ \A q \in Process : q # p => channel'[q] = channel[q]
  BY <1>1, <1>4, <1>5, <1>9, ChannelsStep
<1> HIDE DEF state
<1>12. RowTypes'
  BY <1>1, <1>2, <1>5, <1>10, <1>11 DEF RowTypes
<1>13. Planned'
  <2> SUFFICES ASSUME NEW q \in Process, Saving(op'[q])
               PROVE  op'[q].of = channel'[q].value /\ op'[q].of \in planned' /\ RowOf(op'[q].row, op'[q].of)
    BY DEF Planned
  <2>1. CASE q = p
    BY <1>2, <1>6, <1>7, <1>10, <1>11, <2>1
  <2>2. CASE q # p
    BY <1>1, <1>2, <1>10, <1>11, <2>2 DEF Planned
  <2> QED
    BY <2>1, <2>2
<1>14. Chain'
  <2> SUFFICES ASSUME ~tainted' PROVE Chain'
    BY DEF Chain
  <2>1. /\ Rows!Replay(rows).value \in planned
        /\ owner = Rows!Nobody => rows = <<>> /\ last = Rows!Null
        /\ owner # Rows!Nobody => Rows!Replay(rows).value # Rows!Null
        /\ ~failed => Rows!Replay(rows).value = last /\ ~Rows!Replay(rows).done
        /\ \A q \in Process : owner = q => Trusts(Rows!Replay(rows), channel[q].value, op[q], failed)
    BY <1>1, <1>2 DEF Chain
  <2>2. ASSUME NEW q \in Process, owner = q PROVE Trusts(Rows!Replay(rows), channel'[q].value, op'[q], failed)
    <3>1. CASE q # p
      BY <1>10, <1>11, <2>1, <2>2, <3>1
    <3>2. CASE q = p /\ channel[p].value # Rows!Null
      <4>1. Rows!Replay(rows).value \in Rows!Value \cup {Rows!Null}
        BY <1>1, ReplayTypes DEF RowTypes
      <4>2. Trusts(Rows!Replay(rows), channel[p].value, op[p], failed) /\ ~Saving(op[p])
        BY <1>2, <2>1, <2>2, <3>2, IdleIs
      <4>3. channel[p].value \in Rows!Value
        BY <1>5, <3>2
      <4>4. Trusts(Rows!Replay(rows), next, save, failed)
        BY <1>5, <1>6, <1>7, <3>2, <4>1, <4>2, <4>3, TrustPersists
      <4> QED
        BY <1>10, <1>11, <3>2, <4>4
    <3>3. CASE q = p /\ channel[p].value = Rows!Null
      <4>1. save.row.kind # "delta"
        BY <1>6, <1>7, <3>3
      <4>2. Trusts(Rows!Replay(rows), next, save, failed)
        BY <1>7, <4>1 DEF Trusts
      <4> QED
        BY <1>10, <1>11, <3>3, <4>2
    <3> QED
      BY <3>1, <3>2, <3>3
  <2> QED
    BY <1>2, <2>1, <2>2 DEF Chain
<1> QED
  BY <1>12, <1>13, <1>14 DEF ChainInv

\* An operation that goes on with the row it writes, or goes on without one.
LEMMA GoingOnHolds ==
  ASSUME Rows!CheckpointAssumption, ChainInv, NEW p \in Process, NEW o, Becomes(p, o), Operation(o),
         Saving(op[p]) <=> Saving(o), Saving(o) => o.row = op[p].row /\ o.of = op[p].of,
         UNCHANGED <<live, channel, rows, planned, last, owner, failed, tainted>>
  PROVE  ChainInv'
<1>1. RowTypes /\ Planned /\ Chain
  BY DEF ChainInv
<1>2. /\ op' = [q \in Process |-> op'[q]] /\ \A q \in Process : Operation(op'[q])
      /\ op'[p] = o /\ \A q \in Process : q # p => op'[q] = op[q]
  BY <1>1, OperationsStep
<1>3. RowTypes'
  BY <1>1, <1>2 DEF RowTypes
<1>4. Planned'
  <2> SUFFICES ASSUME NEW q \in Process, Saving(op'[q])
               PROVE  op'[q].of = channel'[q].value /\ op'[q].of \in planned' /\ RowOf(op'[q].row, op'[q].of)
    BY DEF Planned
  <2>1. Saving(op[q]) /\ op'[q].row = op[q].row /\ op'[q].of = op[q].of
    BY <1>2
  <2>2. op[q].of = channel[q].value /\ op[q].of \in planned /\ RowOf(op[q].row, op[q].of)
    BY <1>1, <2>1 DEF Planned
  <2> QED
    BY <2>1, <2>2
<1>5. Chain'
  <2>1. ASSUME NEW q \in Process, Trusts(Rows!Replay(rows), channel[q].value, op[q], failed)
        PROVE  Trusts(Rows!Replay(rows), channel[q].value, op'[q], failed)
    <3>1. CASE q # p
      BY <1>2, <2>1, <3>1
    <3>2. CASE q = p
      <4>1. Trusts(Rows!Replay(rows), channel[p].value, o, failed)
        BY <2>1, <3>2, TrustGoesOn
      <4> QED
        BY <1>2, <3>2, <4>1
    <3> QED
      BY <3>1, <3>2
  <2> QED
    BY <1>1, <2>1 DEF Chain
<1> QED
  BY <1>3, <1>4, <1>5 DEF ChainInv

LEMMA ReadStepHolds ==
  ASSUME Rows!CheckpointAssumption, ChainInv, NEW p \in Process, Rows!ReadStep(p) PROVE ChainInv'
<1>1. RowTypes
  BY DEF ChainInv
<1> DEFINE old == op[p]
           n == Rows!NextStep
           o == [pc |-> "insert", row |-> old.row, of |-> old.of, attempt |-> old.attempt, step |-> n]
<1>2. old.pc = "step" /\ n < MaxRows
      /\ UNCHANGED <<live, channel, rows, planned, last, owner, failed, tainted>>
  BY DEF Rows!ReadStep, Rows!history
<1>3. n \in 0 .. MaxRows - 1
  BY <1>1, <1>2, StepIsNumber DEF Rows!CheckpointAssumption
<1>4. Becomes(p, o)
  BY <1>1 DEF Rows!ReadStep, Becomes, RowTypes
<1>5. Operation(old)
  BY <1>1 DEF RowTypes
<1> HIDE DEF old, n
<1>6. /\ o.pc = "insert" /\ o.row = old.row /\ o.of = old.of /\ o.attempt = old.attempt
      /\ o.step = n
  OBVIOUS
<1> HIDE DEF o
<1>7. Saving(old) /\ Saving(o)
  BY <1>2, <1>6 DEF Saving
<1>8. Operation(o)
  BY <1>3, <1>5, <1>6, <1>7 DEF Operation
<1> QED
  BY <1>2, <1>4, <1>6, <1>7, <1>8, GoingOnHolds DEF old

LEMMA RetryHolds ==
  ASSUME Rows!CheckpointAssumption, ChainInv, NEW p \in Process, Rows!Collide(p), op[p].attempt # 3
  PROVE  ChainInv'
<1>1. RowTypes
  BY DEF ChainInv
<1> DEFINE old == op[p]
           o == [pc |-> "step", row |-> old.row, of |-> old.of, attempt |-> old.attempt + 1]
<1>2. old.pc = "insert" /\ old.attempt # 3
      /\ UNCHANGED <<live, channel, rows, planned, last, owner, failed, tainted>>
  BY DEF Rows!Collide, Rows!history
<1>3. Becomes(p, o)
  BY <1>1 DEF Rows!Collide, Becomes, RowTypes
<1>4. Operation(old)
  BY <1>1 DEF RowTypes
<1> HIDE DEF old
<1>5. /\ o.pc = "step" /\ o.row = old.row /\ o.of = old.of /\ o.attempt = old.attempt + 1
  OBVIOUS
<1> HIDE DEF o
<1>6. Saving(old) /\ Saving(o)
  BY <1>2, <1>5 DEF Saving
<1>7. old.attempt \in 1 .. 3 /\ Row(old.row) /\ old.of \in Rows!Value
  BY <1>4, <1>6 DEF Operation
<1>8. o.attempt \in 1 .. 3
  BY <1>2, <1>5, <1>7
<1>9. Operation(o)
  BY <1>5, <1>7, <1>8 DEF Operation
<1> QED
  BY <1>2, <1>3, <1>5, <1>6, <1>9, GoingOnHolds DEF old

LEMMA DropFailsHolds ==
  ASSUME Rows!CheckpointAssumption, ChainInv, NEW p \in Process, Rows!DropFails(p) PROVE ChainInv'
<1>1. op[p].pc = "delete" /\ Becomes(p, Rows!Idle)
      /\ UNCHANGED <<live, channel, rows, planned, last, owner, failed, tainted>>
  BY DEF Rows!DropFails, Becomes, Rows!history
<1>2. ~Saving(op[p])
  BY <1>1 DEF Saving
<1> QED
  BY <1>1, <1>2, IdleIs, GoingOnHolds

LEMMA GiveUpHolds ==
  ASSUME Rows!CheckpointAssumption, ChainInv, NEW p \in Process, Saving(op[p]), Rows!GiveUp(p)
  PROVE  ChainInv'
<1>1. RowTypes /\ Planned /\ Chain
  BY DEF ChainInv
<1>2. Becomes(p, Rows!Idle) /\ failed' = TRUE /\ tainted' = (tainted \/ op[p].row.kind = "full")
      /\ UNCHANGED <<live, channel, rows, planned, last, owner>>
  BY DEF Rows!GiveUp, Becomes
<1>3. /\ op' = [q \in Process |-> op'[q]] /\ \A q \in Process : Operation(op'[q])
      /\ op'[p] = Rows!Idle /\ \A q \in Process : q # p => op'[q] = op[q]
  BY <1>1, <1>2, IdleIs, OperationsStep
<1>4. RowTypes'
  <2>1. tainted' \in BOOLEAN /\ failed' \in BOOLEAN
    BY <1>1, <1>2 DEF RowTypes
  <2> QED
    BY <1>1, <1>2, <1>3, <2>1 DEF RowTypes
<1>5. Planned'
  BY <1>1, <1>2, <1>3, IdleIs DEF Planned
<1>6. Chain'
  <2> SUFFICES ASSUME ~tainted' PROVE Chain'
    BY DEF Chain
  <2>1. ~tainted /\ op[p].row.kind # "full"
    BY <1>2
  <2>2. op[p].row.kind = "delta" /\ op[p].of = channel[p].value
    BY <1>1, <2>1 DEF RowTypes, Operation, Row, Planned
  <2>3. ASSUME NEW q \in Process, Trusts(Rows!Replay(rows), channel[q].value, op[q], failed)
        PROVE  Trusts(Rows!Replay(rows), channel[q].value, op'[q], TRUE)
    <3>1. CASE q # p
      BY <1>3, <2>3, <3>1, TrustWeakens
    <3>2. CASE q = p
      <4>1. Trusts(Rows!Replay(rows), channel[p].value, Rows!Idle, TRUE)
        BY <2>2, <2>3, <3>2, TrustAfterLoss
      <4> QED
        BY <1>3, <3>2, <4>1
    <3> QED
      BY <3>1, <3>2
  <2> QED
    BY <1>1, <1>2, <2>1, <2>3 DEF Chain
<1> QED
  BY <1>4, <1>5, <1>6 DEF ChainInv

LEMMA CollideHolds ==
  ASSUME Rows!CheckpointAssumption, ChainInv, NEW p \in Process, Rows!Collide(p) PROVE ChainInv'
<1>1. CASE op[p].attempt # 3
  BY <1>1, RetryHolds
<1>2. CASE op[p].attempt = 3
  <2>1. Rows!GiveUp(p) /\ Saving(op[p])
    BY <1>2 DEF Rows!Collide, Saving
  <2> QED
    BY <2>1, GiveUpHolds
<1> QED
  BY <1>1, <1>2

LEMMA SaveFailsHolds ==
  ASSUME Rows!CheckpointAssumption, ChainInv, NEW p \in Process, Rows!SaveFails(p) PROVE ChainInv'
<1>1. Rows!GiveUp(p) /\ Saving(op[p])
  BY DEF Rows!SaveFails, Saving
<1> QED
  BY <1>1, GiveUpHolds

\* A process that forgets what it holds trusts nothing.
Forgets(p) == live' = [live EXCEPT ![p] = Rows!Null] /\ channel' = [channel EXCEPT ![p] = Rows!NoState]

LEMMA ForgettingHolds ==
  ASSUME Rows!CheckpointAssumption, ChainInv, NEW p \in Process, NEW o, Becomes(p, o),
         Operation(o), ~Saving(o), Forgets(p),
         UNCHANGED <<rows, planned, last, owner, failed, tainted>>
  PROVE  ChainInv'
<1>1. RowTypes /\ Planned /\ Chain
  BY DEF ChainInv
<1>2. /\ op' = [q \in Process |-> op'[q]] /\ \A q \in Process : Operation(op'[q])
      /\ op'[p] = o /\ \A q \in Process : q # p => op'[q] = op[q]
  BY <1>1, OperationsStep
<1>3. live' \in [Process -> Rows!Value \cup {Rows!Null}]
  BY <1>1 DEF RowTypes, Forgets
<1>4. /\ channel' \in [Process -> [value : Rows!Value \cup {Rows!Null}, deltas : 0 .. SnapshotEvery]]
      /\ channel'[p].value = Rows!Null /\ \A q \in Process : q # p => channel'[q] = channel[q]
  <2>1. Rows!NoState = [value |-> Rows!Null, deltas |-> 0] /\ 0 \in 0 .. SnapshotEvery
    BY DEF Rows!NoState, Rows!CheckpointAssumption
  <2>2. channel' = [q \in Process |-> IF q = p THEN Rows!NoState ELSE channel[q]]
    BY <1>1 DEF RowTypes, Forgets
  <2> HIDE DEF Rows!NoState
  <2> QED
    BY <1>1, <2>1, <2>2, ChannelsStep
<1>5. RowTypes'
  BY <1>1, <1>2, <1>3, <1>4 DEF RowTypes
<1>6. Planned'
  BY <1>1, <1>2, <1>4 DEF Planned
<1>7. Chain'
  <2>1. ASSUME NEW q \in Process, Trusts(Rows!Replay(rows), channel[q].value, op[q], failed)
        PROVE  Trusts(Rows!Replay(rows), channel'[q].value, op'[q], failed)
    <3>1. CASE q # p
      BY <1>2, <1>4, <2>1, <3>1
    <3>2. CASE q = p
      BY <1>4, <3>2, TrustNothing
    <3> QED
      BY <3>1, <3>2
  <2> QED
    BY <1>1, <2>1 DEF Chain
<1> QED
  BY <1>5, <1>6, <1>7 DEF ChainInv

LEMMA DropHolds ==
  ASSUME Rows!CheckpointAssumption, ChainInv, NEW p \in Process, Rows!Drop(p) PROVE ChainInv'
<1> DEFINE o == [pc |-> "delete"]
<1>1. /\ Becomes(p, o) /\ Forgets(p)
      /\ UNCHANGED <<rows, planned, last, owner, failed, tainted>>
  BY DEF Rows!Drop, Becomes, Forgets, Rows!history
<1>2. o.pc = "delete"
  OBVIOUS
<1> HIDE DEF o
<1>3. Operation(o) /\ ~Saving(o)
  BY <1>2 DEF Operation, Saving
<1> QED
  BY <1>1, <1>3, ForgettingHolds

LEMMA CrashHolds ==
  ASSUME Rows!CheckpointAssumption, ChainInv, NEW p \in Process, Rows!Crash(p) PROVE ChainInv'
<1>1. /\ Becomes(p, Rows!Idle) /\ Forgets(p)
      /\ UNCHANGED <<rows, planned, last, owner, failed, tainted>>
  BY DEF Rows!Crash, Becomes, Forgets, Rows!history
<1> QED
  BY <1>1, IdleIs, ForgettingHolds

LEMMA DeleteRowsHolds ==
  ASSUME Rows!CheckpointAssumption, ChainInv, NEW p \in Process, Rows!DeleteRows(p) PROVE ChainInv'
<1>1. RowTypes /\ Planned /\ Chain
  BY DEF ChainInv
<1>2. /\ op[p].pc = "delete" /\ Becomes(p, Rows!Idle) /\ rows' = <<>> /\ last' = Rows!Null /\ owner' = Rows!Nobody
      /\ UNCHANGED <<live, channel, planned, failed, tainted>>
  BY DEF Rows!DeleteRows, Becomes
<1>3. /\ op' = [q \in Process |-> op'[q]] /\ \A q \in Process : Operation(op'[q])
      /\ op'[p] = Rows!Idle /\ \A q \in Process : q # p => op'[q] = op[q]
  BY <1>1, <1>2, IdleIs, OperationsStep
<1>4. DOMAIN rows' = {}
  BY <1>2
<1>5. RowTypes'
  BY <1>1, <1>2, <1>3, <1>4 DEF RowTypes
<1>6. Planned'
  BY <1>1, <1>2, <1>3, IdleIs DEF Planned
<1>7. Chain'
  <2>1. Rows!Replay(rows') = Blank
    BY <1>4, ReplayOfNothing DEF Rows!CheckpointAssumption
  <2>2. Rows!Replay(rows').value = Rows!Null /\ ~Rows!Replay(rows').done
    BY <2>1 DEF Blank
  <2>3. \A q \in Process : owner' # q
    BY <1>2 DEF Rows!CheckpointAssumption, Rows!Nobody
  <2>4. Rows!Null \in planned'
    BY <1>1, <1>2 DEF RowTypes
  <2> QED
    BY <1>2, <2>2, <2>3, <2>4 DEF Chain
<1> QED
  BY <1>5, <1>6, <1>7 DEF ChainInv

LEMMA InsertHolds ==
  ASSUME Rows!CheckpointAssumption, ChainInv, NEW p \in Process, Rows!Insert(p) PROVE ChainInv'
<1>1. RowTypes /\ Planned /\ Chain
  BY DEF ChainInv
<1> DEFINE row == op[p].row
           of == op[p].of
           step == op[p].step
<1>2. /\ op[p].pc = "insert" /\ step \notin DOMAIN rows
      /\ rows' = [n \in DOMAIN rows \cup {step} |-> IF n = step THEN row ELSE rows[n]]
      /\ last' = of /\ owner' = p /\ tainted' = (tainted \/ Rows!Discontinuous(p))
      /\ UNCHANGED <<live, channel, planned, failed>>
  BY DEF Rows!Insert
<1>3. Becomes(p, Rows!Idle)
  BY DEF Rows!Insert, Becomes
<1>4. /\ op' = [q \in Process |-> op'[q]] /\ \A q \in Process : Operation(op'[q])
      /\ op'[p] = Rows!Idle /\ \A q \in Process : q # p => op'[q] = op[q]
  BY <1>1, <1>3, IdleIs, OperationsStep
<1>5. Saving(op[p]) /\ Operation(op[p])
  BY <1>1, <1>2 DEF Saving, RowTypes
<1>6. Row(row) /\ of \in Rows!Value /\ step \in 0 .. MaxRows - 1
  BY <1>2, <1>5 DEF Operation
<1>7. of = channel[p].value /\ of \in planned /\ RowOf(row, of)
  BY <1>1, <1>5 DEF Planned
<1>8. /\ DOMAIN rows' = DOMAIN rows \cup {step} /\ rows'[step] = row
      /\ \A n \in DOMAIN rows : n # step => rows'[n] = rows[n]
  <2> HIDE DEF row, step
  <2> QED
    BY <1>2
<1>9. ~tainted' => /\ ~tainted /\ (row.kind = "delta" => owner = p)
                   /\ DOMAIN rows \subseteq 0 .. step - 1
  <2> SUFFICES ASSUME ~tainted'
               PROVE  /\ ~tainted /\ (row.kind = "delta" => owner = p)
                      /\ DOMAIN rows \subseteq 0 .. step - 1
    OBVIOUS
  <2>1. ~tainted /\ ~Rows!Discontinuous(p)
    BY <1>2
  <2>2. (row.kind = "delta" => owner = p) /\ \A n \in DOMAIN rows : ~(n > step)
    BY <2>1 DEF Rows!Discontinuous
  <2>3. DOMAIN rows \subseteq 0 .. MaxRows - 1 /\ MaxRows \in Nat
    BY <1>1 DEF RowTypes, Rows!CheckpointAssumption
  <2>4. ASSUME NEW n \in DOMAIN rows PROVE n \in 0 .. step - 1
    <3>1. n \in Nat /\ step \in Nat /\ n # step /\ ~(n > step)
      BY <1>2, <1>6, <2>2, <2>3
    <3> HIDE DEF step
    <3> QED
      BY <3>1
  <2> QED
    BY <2>1, <2>2, <2>4
<1> HIDE DEF row, of, step
<1>10. RowTypes'
  <2>1. DOMAIN rows' \subseteq 0 .. MaxRows - 1 /\ DOMAIN rows' # {}
    BY <1>1, <1>6, <1>8 DEF RowTypes
  <2>2. \A n \in DOMAIN rows' : Row(rows'[n])
    BY <1>1, <1>6, <1>8 DEF RowTypes
  <2>3. tainted' \in BOOLEAN
    BY <1>2
  <2> QED
    BY <1>1, <1>2, <1>4, <1>6, <2>1, <2>2, <2>3 DEF RowTypes
<1>11. Planned'
  BY <1>1, <1>2, <1>4, IdleIs DEF Planned
<1>12. Chain'
  <2> SUFFICES ASSUME ~tainted' PROVE Chain'
    BY DEF Chain
  <2>1. ~tainted /\ (row.kind = "delta" => owner = p) /\ DOMAIN rows \subseteq 0 .. step - 1
    BY <1>9
  <2> DEFINE before == Rows!Replay(rows)
             after == Rows!Replay(rows')
  <2>2. /\ before.value \in planned
        /\ owner = Rows!Nobody => rows = <<>> /\ last = Rows!Null
        /\ owner # Rows!Nobody => before.value # Rows!Null
        /\ ~failed => before.value = last /\ ~before.done
        /\ \A q \in Process : owner = q => Trusts(before, channel[q].value, op[q], failed)
    BY <1>1, <2>1 DEF Chain
  <2>3. after = Rows!Follow(before, rows', step)
    BY <1>6, <1>8, <2>1, ReplayGrows DEF Rows!CheckpointAssumption
  <2>4. before.value \in Rows!Value \cup {Rows!Null}
    BY <1>1, ReplayTypes DEF RowTypes
  <2>5. before.done => before.value # Rows!Null
    <3>1. CASE owner = Rows!Nobody
      <4>1. DOMAIN rows = {}
        BY <2>2, <3>1
      <4>2. before = Blank
        BY <4>1, ReplayOfNothing DEF Rows!CheckpointAssumption
      <4> QED
        BY <4>2 DEF Blank
    <3> QED
      BY <2>2, <3>1
  <2>6. ASSUME row.kind = "delta"
        PROVE  /\ before.value # Rows!Null
               /\ ~before.done => /\ Rows!IsPrefixOf(before.value.messages, of.messages)
                                  /\ ~failed => Len(before.value.messages) = row.baseCount
    <3>1. owner = p /\ p # Rows!Nobody
      BY <2>1, <2>6 DEF Rows!CheckpointAssumption, Rows!Nobody
    <3>2. Trusts(before, channel[p].value, op[p], failed) /\ before.value # Rows!Null
      BY <2>2, <3>1
    <3>3. channel[p].value # Rows!Null
      BY <1>6, <1>7, NullIs DEF Rows!CheckpointAssumption
    <3> QED
      BY <1>5, <2>6, <3>2, <3>3 DEF Trusts, row, of
  <2>7. rows'[step] = row /\ step \in DOMAIN rows'
    BY <1>8
  <2> HIDE DEF before, after
  <2>8. /\ after.value \in {before.value, of} /\ after.value # Rows!Null
        /\ ~after.done => after.value = of
        /\ ~failed => ~after.done
    BY <1>6, <1>7, <2>2, <2>3, <2>4, <2>5, <2>6, <2>7, RowLands
  <2>9. Trusts(after, of, Rows!Idle, failed)
    <3>1. of.messages \in Seq(Message)
      BY <1>6, ValueIs DEF Rows!CheckpointAssumption
    <3> QED
      BY <2>8, <3>1, PrefixOfItself, IdleIs DEF Trusts
  <2>10. owner' # Rows!Nobody
    BY <1>2 DEF Rows!CheckpointAssumption, Rows!Nobody
  <2>11. \A q \in Process : owner' = q => Trusts(after, channel'[q].value, op'[q], failed')
    BY <1>2, <1>4, <1>7, <2>9
  <2>12. after.value \in planned'
    BY <1>2, <1>7, <2>2, <2>8
  <2>13. ~failed' => after.value = last' /\ ~after.done
    BY <1>2, <2>8
  <2> QED
    BY <2>8, <2>10, <2>11, <2>12, <2>13 DEF Chain, after
<1> QED
  BY <1>10, <1>11, <1>12 DEF ChainInv

-----------------------------------------------------------------------------
(* The theorems.                                                           *)

LEMMA StepHolds ==
  ASSUME Rows!CheckpointAssumption, ChainInv, [Rows!Next]_(Rows!vars) PROVE ChainInv'
<1>1. CASE Rows!Next
  <2>1. PICK p \in Process :
          \/ Rows!Change(p) \/ Rows!Persist(p) \/ Rows!ReadStep(p) \/ Rows!Insert(p) \/ Rows!Collide(p) \/ Rows!SaveFails(p)
          \/ Rows!Hydrate(p) \/ Rows!Drop(p) \/ Rows!DeleteRows(p) \/ Rows!DropFails(p) \/ Rows!Crash(p)
    BY <1>1 DEF Rows!Next
  <2> QED
    BY <2>1, ChangeHolds, PersistHolds, ReadStepHolds, InsertHolds, CollideHolds, SaveFailsHolds,
       HydrateHolds, DropHolds, DeleteRowsHolds, DropFailsHolds, CrashHolds
<1>2. CASE UNCHANGED Rows!vars
  BY <1>2 DEF Rows!vars, ChainInv, RowTypes, Planned, Chain
<1> QED
  BY <1>1, <1>2

\* The typing of the runs, from the invariant's.
LEMMA TypesAreOK == ASSUME Rows!CheckpointAssumption, RowTypes PROVE Rows!CheckpointTypeOK
<1>1. ASSUME NEW p \in Process
      PROVE  /\ channel[p].value \in Rows!Value \cup {Rows!Null} /\ channel[p].deltas \in 0 .. SnapshotEvery
             /\ op[p].pc \in {"idle", "step", "insert", "delete"}
             /\ op[p].pc \in {"step", "insert"} => op[p].attempt \in 1 .. 3
  BY DEF RowTypes, Operation, Saving
<1> QED
  BY <1>1 DEF Rows!CheckpointTypeOK, RowTypes

\* The rows of a behavior of MCResume are those of a behavior of Checkpoints.
LEMMA RowsBehave == MCSpec => Rows!Spec
<1>1. MCInit => Rows!Init
  BY DEF MCInit
<1>2. [MCNext]_<<part, vars, checkpoint>> => [Rows!Next]_(Rows!vars)
  <2> SUFFICES ASSUME [MCNext]_<<part, vars, checkpoint>> PROVE [Rows!Next]_(Rows!vars)
    OBVIOUS
  <2>1. Rows!Next \/ UNCHANGED checkpoint
    BY DEF MCNext
  <2> QED
    BY <2>1 DEF Rows!vars, checkpoint
<1> QED
  BY <1>1, <1>2, PTL DEF MCSpec, Rows!Spec

\* However saves of several processes interleave, collide, fail or die: the rows
\* stand for a value some process saved, never for messages of two histories,
\* while every delta follows a row of its own writer and no full row was lost.
THEOREM ResumesFromASave == MCSpec => []ChainIsWhole
<1>1. Rows!Init => ChainInv
  BY RowsAssumption, InitHolds
<1>2. ChainInv /\ [Rows!Next]_(Rows!vars) => ChainInv'
  BY RowsAssumption, StepHolds
<1>3. ChainInv => ChainIsWhole
  BY RowsAssumption, TypesAreOK
     DEF ChainInv, Chain, ChainIsWhole, Rows!ChainIsWhole, Rows!NeverSplices, Rows!reconstructRows
<1> QED
  BY <1>1, <1>2, <1>3, RowsBehave, PTL DEF Rows!Spec

\* And when no save failed, they stand for the value stored last.
THEOREM LosesNothing == MCSpec => []ServesTheLastRow
<1>1. Rows!Init => ChainInv
  BY RowsAssumption, InitHolds
<1>2. ChainInv /\ [Rows!Next]_(Rows!vars) => ChainInv'
  BY RowsAssumption, StepHolds
<1>3. ChainInv => ServesTheLastRow
  BY DEF ChainInv, Chain, ServesTheLastRow, Rows!ServesTheLastRow, Rows!reconstructRows
<1> QED
  BY <1>1, <1>2, <1>3, RowsBehave, PTL DEF Rows!Spec
=============================================================================
