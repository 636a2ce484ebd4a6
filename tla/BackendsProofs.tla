---------------------------- MODULE BackendsProofs ----------------------------
(***************************************************************************)
(* The schema of the store, for any daemons, channels and environments:    *)
(* whoever boots, rolls back, dies or is made to wait, the record of the   *)
(* migrations describes the tables, every statement finds what it needs,   *)
(* and no rows go but those a daemon was told to drop.  The books, for any *)
(* calls: the store in memory and the tables keep the same.  And the       *)
(* sessions: memory and tables each implement SessionContract.             *)
(***************************************************************************)
EXTENDS MCBackends, Integers, FiniteSetTheorems, SequenceTheorems, TLAPS

-----------------------------------------------------------------------------
(* The tables, and what may be in them.                                    *)

Runs == "run_checkpoints"

\* The version that creates a table.
Born(t) ==
  CASE t = "session_events" -> 1 [] t = "projects" -> 2 [] t = "sessions" -> 3
    [] t \in {"users", "api_keys"} -> 4 [] t = Runs -> 5 [] OTHER -> 6

LEMMA CreatesAre ==
  /\ Schema!Creates[1] = {"session_events"} /\ Schema!Creates[2] = {"projects"}
  /\ Schema!Creates[3] = {"sessions"} /\ Schema!Creates[4] = {"users", "api_keys"}
  /\ Schema!Creates[5] = {Runs} /\ Schema!Creates[6] = {"daily_cost_buckets"}
  /\ Schema!Creates[7] = {}
  BY DEF Schema!Creates, Runs

LEMMA TablesAre ==
  Schema!Tables = {"session_events", "projects", "sessions", "users", "api_keys", Runs,
                   "daily_cost_buckets"}
<1>1. ASSUME NEW n \in Schema!Versions
      PROVE  n = 1 \/ n = 2 \/ n = 3 \/ n = 4 \/ n = 5 \/ n = 6 \/ n = 7
  BY DEF Schema!Versions
<1>2. {1, 2, 3, 4, 5, 6, 7} \subseteq Schema!Versions
  BY DEF Schema!Versions
<1>3. ASSUME NEW t
      PROVE  t \in Schema!Tables <=> \E n \in Schema!Versions : t \in Schema!Creates[n]
  BY DEF Schema!Tables
<1> QED
  BY <1>1, <1>2, <1>3, CreatesAre

LEMMA Birth ==
  ASSUME NEW t \in Schema!Tables
  PROVE  /\ Born(t) \in 1 .. 6 /\ (Born(t) = 5 <=> t = Runs)
         /\ \A n \in 1 .. 7 : t \in Schema!Creates[n] <=> n = Born(t)
         /\ \A n \in 1 .. 7 : t \in Schema!Touched(n) <=> n = Born(t) \/ (n = 7 /\ t = Runs)
<1>1. Born(t) \in 1 .. 6 /\ (Born(t) = 5 <=> t = Runs)
  BY TablesAre DEF Born, Runs
<1>2. ASSUME NEW n \in 1 .. 7 PROVE t \in Schema!Creates[n] <=> n = Born(t)
  <2>1. n = 1 \/ n = 2 \/ n = 3 \/ n = 4 \/ n = 5 \/ n = 6 \/ n = 7
    OBVIOUS
  <2> QED
    BY <2>1, TablesAre, CreatesAre DEF Born, Runs
<1>3. ASSUME NEW n \in 1 .. 7
      PROVE  t \in Schema!Touched(n) <=> n = Born(t) \/ (n = 7 /\ t = Runs)
  BY <1>1, <1>2 DEF Schema!Touched, Runs
<1> QED
  BY <1>1, <1>2, <1>3

LEMMA TouchedIs ==
  ASSUME NEW n \in 1 .. 7
  PROVE  Schema!Touched(n) \subseteq Schema!Tables /\ Schema!Touched(n) # {}
<1>1. n = 1 \/ n = 2 \/ n = 3 \/ n = 4 \/ n = 5 \/ n = 6 \/ n = 7
  OBVIOUS
<1> QED
  BY <1>1, TablesAre, CreatesAre DEF Schema!Touched, Runs

\* The rows of a table with the first k versions applied: none, and no table; a row
\* of no interest; a row per channel; a chain of rows per channel, of bounded length.
Legacy == [id : Channel, data : Int]
Link == [id : Channel, kind : {"full", "delta"}, step : Nat, data : Int]
Bounded(s) == \E b \in Nat : \A r \in s : r.step <= b

Shape(t, k, s) ==
  IF k < Born(t) THEN s = Schema!Absent
  ELSE IF t # Runs THEN s = {} \/ s = {[id |-> "row"]}
  ELSE IF k < 7 THEN s \subseteq Legacy ELSE s \subseteq Link /\ Bounded(s)

LEMMA ShapesTell ==
  ASSUME NEW t \in Schema!Tables, NEW k \in 0 .. 7, NEW s, Shape(t, k, s)
  PROVE  /\ s = Schema!Absent <=> k < Born(t)
         /\ k >= Born(t) => \A r \in s : "kind" \in DOMAIN r <=> (t = Runs /\ k = 7)
<1> DEFINE gone == [id |-> "no table"]
<1>1. Schema!Absent = {gone}
  BY DEF Schema!Absent
<1>2. DOMAIN gone = {"id"} /\ gone # [id |-> "row"]
  <2>1. gone.id # "row"
    OBVIOUS
  <2> QED
    BY <2>1
<1>3. \A r \in Legacy : DOMAIN r = {"id", "data"}
  BY DEF Legacy
<1>4. \A r \in Link : DOMAIN r = {"id", "kind", "step", "data"}
  BY DEF Link
<1>5. DOMAIN [id |-> "row"] = {"id"}
  OBVIOUS
<1>6. Born(t) \in 1 .. 6 /\ (Born(t) = 5 <=> t = Runs)
  BY Birth
<1> HIDE DEF gone
<1>7. "data" \notin {"id"} /\ "kind" \notin {"id"} /\ "kind" \notin {"id", "data"}
  OBVIOUS
<1>8. CASE k < Born(t)
  BY <1>6, <1>8 DEF Shape
<1>9. CASE k >= Born(t) /\ t # Runs
  <2>1. s = {} \/ s = {[id |-> "row"]}
    BY <1>6, <1>9 DEF Shape
  <2> QED
    BY <1>1, <1>2, <1>5, <1>6, <1>7, <1>9, <2>1
<1>10. CASE k >= Born(t) /\ t = Runs /\ k < 7
  <2>1. s \subseteq Legacy
    BY <1>6, <1>10 DEF Shape
  <2>2. gone \notin Legacy
    BY <1>2, <1>3, <1>7
  <2> QED
    BY <1>1, <1>3, <1>6, <1>7, <1>10, <2>1, <2>2
<1>11. CASE k >= Born(t) /\ t = Runs /\ k = 7
  <2>1. s \subseteq Link
    BY <1>6, <1>11 DEF Shape
  <2>2. gone \notin Link
    BY <1>2, <1>4, <1>7
  <2> QED
    BY <1>1, <1>4, <1>6, <1>11, <2>1, <2>2
<1> QED
  BY <1>6, <1>8, <1>9, <1>10, <1>11

-----------------------------------------------------------------------------
(* A database of the first k versions, and what one migration makes of it. *)

Good(db, k) ==
  /\ db = [applied |-> 1 .. k, rows |-> db.rows]
  /\ db.rows = [t \in Schema!Tables |-> db.rows[t]]
  /\ \A t \in Schema!Tables : Shape(t, k, db.rows[t])

\* The data of the last full rows of a channel.
Data(db, c) == {r.data : r \in Schema!LatestFull(db, c)}

\* It depends on nothing else.
LEMMA DataAlike ==
  ASSUME NEW db, NEW new, new.rows[Runs] = db.rows[Runs], 7 \in new.applied <=> 7 \in db.applied
  PROVE  \A c : Data(new, c) = Data(db, c)
  BY DEF Data, Schema!LatestFull, Runs

\* A set of numbers that holds everything below each of its members is 1 .. its size.
LEMMA DownwardClosed ==
  ASSUME NEW n \in Nat, NEW D \in SUBSET (1 .. n), \A i \in D : 1 .. i \subseteq D
  PROVE  D = 1 .. Cardinality(D) /\ Cardinality(D) \in 0 .. n /\ IsFiniteSet(D)
<1> DEFINE k == Cardinality(D)
<1>1. IsFiniteSet(1 .. n) /\ Cardinality(1 .. n) = n
  BY FS_Interval
<1>2. IsFiniteSet(D) /\ k \in Nat /\ k <= n
  BY <1>1, FS_Subset, FS_CardinalityType
<1>3. ASSUME NEW i \in D PROVE i <= k
  <2>1. Cardinality(1 .. i) = i
    BY FS_Interval
  <2>2. Cardinality(1 .. i) <= k
    BY <1>2, FS_Subset
  <2> QED
    BY <1>2, <2>1, <2>2
<1>4. D \subseteq 1 .. k
  BY <1>2, <1>3
<1>5. IsFiniteSet(1 .. k) /\ Cardinality(1 .. k) = k
  BY <1>2, FS_Interval
<1>6. D = 1 .. k
  BY <1>4, <1>5, FS_Subset
<1> QED
  BY <1>2, <1>6

\* A set of naturals with a bound has a greatest one.
LEMMA GreatestIs ==
  ASSUME NEW S \in SUBSET Nat, S # {}, NEW b \in Nat, \A n \in S : n <= b
  PROVE  Schema!Best(S) \in S /\ \A n \in S : n <= Schema!Best(S)
<1> DEFINE D == {i \in 1 .. b + 1 : \E n \in S : i <= n + 1}
           k == Cardinality(D)
<1>1. D \in SUBSET (1 .. b + 1) /\ \A i \in D : 1 .. i \subseteq D
  OBVIOUS
<1>2. \A n \in S : n + 1 \in D
  OBVIOUS
<1>3. \A i \in D : \E n \in S : i <= n + 1
  OBVIOUS
<1> HIDE DEF D
<1>4. D = 1 .. k /\ k \in 0 .. b + 1
  BY <1>1, DownwardClosed
<1> HIDE DEF k
<1>5. \A n \in S : n \in Nat /\ n + 1 <= k
  <2>1. \A i \in D : i <= k
    BY <1>4
  <2> QED
    BY <1>2, <2>1
<1>6. k \in D
  <2>1. PICK n \in S : TRUE
    OBVIOUS
  <2>2. n + 1 \in 1 .. k
    BY <1>2, <1>4
  <2> QED
    BY <1>4, <2>2
<1>7. PICK m \in S : k <= m + 1
  BY <1>3, <1>6
<1>8. \A n \in S : n <= m
  <2>1. \A n \in Nat : n + 1 <= k => n <= m
    BY <1>4, <1>7
  <2> QED
    BY <1>5, <2>1
<1> QED
  BY <1>7, <1>8 DEF Schema!Best

LEMMA ChainedKeeps ==
  ASSUME NEW s, s \subseteq Legacy
  PROVE  /\ Schema!Chained(s) \subseteq Link /\ Bounded(Schema!Chained(s))
         /\ \A c : {r.data : r \in {q \in s : q.id = c}} =
                   {r.data : r \in {q \in Schema!Chained(s) : q.id = c}}
         /\ \A r \in Schema!Chained(s) : r.kind = "full" /\ r.step = 0
<1>1. \A r \in s : r.id \in Channel /\ r.data \in Int
  BY DEF Legacy
<1> DEFINE L(r) == [id |-> r.id, kind |-> "full", step |-> 0, data |-> r.data]
<1>2. Schema!Chained(s) = {L(r) : r \in s}
  BY DEF Schema!Chained
<1>3. \A r \in s : L(r) \in Link
  BY <1>1 DEF Link
<1>4. \A r : L(r).id = r.id /\ L(r).kind = "full" /\ L(r).step = 0 /\ L(r).data = r.data
  OBVIOUS
<1> HIDE DEF L
<1>5. \A r \in Schema!Chained(s) : r.kind = "full" /\ r.step = 0
  BY <1>2, <1>4
<1>6. Bounded(Schema!Chained(s))
  BY <1>5 DEF Bounded
<1>7. ASSUME NEW c
      PROVE  {r.data : r \in {q \in s : q.id = c}} =
             {r.data : r \in {q \in Schema!Chained(s) : q.id = c}}
  BY <1>2, <1>4
<1> QED
  BY <1>2, <1>3, <1>5, <1>6, <1>7

LEMMA FoldedKeeps ==
  ASSUME dialect \in {"postgres", "sqlite"}, NEW s, s \subseteq Link, Bounded(s)
  PROVE  /\ Schema!Folded(s) \subseteq Legacy
         /\ \A c : {r.data : r \in {q \in Schema!Folded(s) : q.id = c}} =
                   {r.data : r \in {q \in Schema!Fulls(s, c) :
                      q.step = Schema!Best({p.step : p \in Schema!Fulls(s, c)})}}
<1>1. \A r \in s : r.id \in Channel /\ r.data \in Int /\ r.step \in Nat
  BY DEF Link
<1> DEFINE steps(c) == {p.step : p \in Schema!Fulls(s, c)}
           F(r) == [id |-> r.id, data |-> r.data]
           kept == {r \in s : r.kind = "full" /\ r.step = Schema!Best(steps(r.id))}
<1>2. ASSUME NEW c, NEW r \in Schema!Fulls(s, c)
      PROVE  Schema!Best(steps(c)) \in steps(c) /\ \A n \in steps(c) : n <= Schema!Best(steps(c))
  <2>1. steps(c) \in SUBSET Nat /\ steps(c) # {}
    BY <1>1 DEF Schema!Fulls
  <2>2. PICK b \in Nat : \A n \in steps(c) : n <= b
    BY DEF Bounded, Schema!Fulls
  <2> HIDE DEF steps
  <2> QED
    BY <2>1, <2>2, GreatestIs
<1>3. Schema!WithMaxStep(s) = kept
  BY DEF Schema!WithMaxStep
<1>4. Schema!DistinctOn(s) = kept
  <2>1. ASSUME NEW r \in s, r.kind = "full"
        PROVE  (\A q \in Schema!Fulls(s, r.id) : r.step >= q.step) <=>
               r.step = Schema!Best(steps(r.id))
    <3>1. r \in Schema!Fulls(s, r.id)
      BY <2>1 DEF Schema!Fulls
    <3>2. Schema!Best(steps(r.id)) \in steps(r.id)
          /\ \A n \in steps(r.id) : n <= Schema!Best(steps(r.id))
      BY <1>2, <3>1
    <3>3. steps(r.id) \subseteq Nat /\ r.step \in steps(r.id)
      BY <1>1, <3>1 DEF Schema!Fulls
    <3>4. (\A q \in Schema!Fulls(s, r.id) : r.step >= q.step) <=>
          \A n \in steps(r.id) : r.step >= n
      OBVIOUS
    <3> DEFINE best == Schema!Best(steps(r.id))
               all == steps(r.id)
    <3> HIDE DEF steps, best, all
    <3>5. best \in all /\ all \subseteq Nat /\ r.step \in all /\ \A n \in all : n <= best
      BY <3>2, <3>3 DEF best, all
    <3>6. PICK x : x = r.step
      OBVIOUS
    <3>7. x \in all /\ x \in Nat /\ best \in Nat /\ x <= best
      BY <3>5, <3>6
    <3>8. (\A n \in all : x >= n) => x = best
      BY <3>5, <3>7
    <3>9. x = best => \A n \in all : x >= n
      BY <3>5, <3>7
    <3> QED
      BY <3>4, <3>6, <3>8, <3>9 DEF best, all
  <2>2. \A r \in s : r \in Schema!Fulls(s, r.id) <=> r.kind = "full"
    BY DEF Schema!Fulls
  <2> HIDE DEF steps
  <2> QED
    BY <2>1, <2>2 DEF Schema!DistinctOn
<1>5. Schema!Folded(s) = {F(r) : r \in kept}
  BY <1>3, <1>4 DEF Schema!Folded
<1>6. \A r \in kept : F(r) \in Legacy
  BY <1>1 DEF Legacy
<1>7. \A r : F(r).id = r.id /\ F(r).data = r.data
  OBVIOUS
<1>8. ASSUME NEW c
      PROVE  {q \in kept : q.id = c} = {q \in Schema!Fulls(s, c) : q.step = Schema!Best(steps(c))}
  BY DEF Schema!Fulls
<1> HIDE DEF F, kept
<1>9. ASSUME NEW c
      PROVE  {r.data : r \in {q \in Schema!Folded(s) : q.id = c}} =
             {r.data : r \in {q \in kept : q.id = c}}
  BY <1>5, <1>7
<1> QED
  BY <1>5, <1>6, <1>8, <1>9

LEMMA UpHolds ==
  ASSUME NEW k \in 0 .. 6, NEW db, Good(db, k)
  PROVE  /\ Schema!Fits(k + 1, "up", db)
         /\ Good(Schema!Up(k + 1, db), k + 1)
         /\ \A t \in Schema!Tables \ Schema!Touched(k + 1) :
              Schema!Up(k + 1, db).rows[t] = db.rows[t]
         /\ k >= 5 => \A c : Data(Schema!Up(k + 1, db), c) = Data(db, c)
<1> DEFINE n == k + 1
           R == db.rows
           new == Schema!Up(n, db)
<1>1. n \in 1 .. 7 /\ (1 .. k) \cup {n} = 1 .. n
  OBVIOUS
<1>2. db = [applied |-> 1 .. k, rows |-> R]
  BY DEF Good
<1>3. new = [applied |-> db.applied \cup {n},
             rows |-> [t \in Schema!Tables |->
               IF t \notin Schema!Touched(n) THEN R[t]
               ELSE IF n = 7 THEN Schema!Chained(R[t]) ELSE {}]]
  BY DEF Schema!Up
<1>4. /\ new.applied = 1 .. n
      /\ new.rows = [t \in Schema!Tables |->
           IF t \notin Schema!Touched(n) THEN R[t]
           ELSE IF n = 7 THEN Schema!Chained(R[t]) ELSE {}]
      /\ new = [applied |-> 1 .. n, rows |-> new.rows]
  <2>1. PICK A : A = db.applied
    OBVIOUS
  <2>2. A = 1 .. k
    BY <1>2, <2>1
  <2> DEFINE F == [t \in Schema!Tables |->
                    IF t \notin Schema!Touched(n) THEN R[t]
                    ELSE IF n = 7 THEN Schema!Chained(R[t]) ELSE {}]
  <2>3. new = [applied |-> 1 .. n, rows |-> F]
    BY <1>1, <1>3, <2>1, <2>2
  <2> HIDE DEF F, new
  <2>4. new.applied = 1 .. n /\ new.rows = F
    BY <2>3
  <2> QED
    BY <2>3, <2>4 DEF F
<1> HIDE DEF new
<1>5. \A t \in Schema!Tables : Shape(t, k, R[t])
  BY DEF Good
<1> HIDE DEF R
<1>6. \A t \in Schema!Tables :
        new.rows[t] = IF t \notin Schema!Touched(n) THEN R[t]
                      ELSE IF n = 7 THEN Schema!Chained(R[t]) ELSE {}
  BY <1>4
<1>7. Schema!Fits(n, "up", db)
  <2> SUFFICES ASSUME NEW t \in Schema!Touched(n)
               PROVE  ("up" = "up" /\ n # 7) <=> R[t] = Schema!Absent
    BY DEF Schema!Fits, R
  <2>1. t \in Schema!Tables /\ Born(t) \in 1 .. 6 /\ (n = Born(t) \/ (n = 7 /\ Born(t) = 5))
    BY <1>1, TouchedIs, Birth
  <2>2. R[t] = Schema!Absent <=> k < Born(t)
    BY <1>5, <2>1, ShapesTell
  <2> QED
    BY <2>1, <2>2
<1>8. ASSUME NEW t \in Schema!Tables PROVE Shape(t, n, new.rows[t])
  <2>1. /\ Born(t) \in 1 .. 6 /\ (Born(t) = 5 <=> t = Runs)
        /\ t \in Schema!Touched(n) <=> n = Born(t) \/ (n = 7 /\ t = Runs)
    BY <1>1, Birth
  <2>2. CASE t \notin Schema!Touched(n)
    <3>1. new.rows[t] = R[t] /\ Shape(t, k, R[t])
      BY <1>5, <1>6, <2>2
    <3>2. k < Born(t) <=> n < Born(t)
      BY <2>1, <2>2
    <3>3. t = Runs => (k < 7 <=> n < 7)
      BY <2>1, <2>2
    <3> QED
      BY <3>1, <3>2, <3>3 DEF Shape
  <2>3. CASE t \in Schema!Touched(n) /\ n = 7
    <3>1. t = Runs /\ Born(t) = 5 /\ k = 6
      BY <2>1, <2>3
    <3>2. R[t] \subseteq Legacy
      BY <1>5, <3>1 DEF Shape
    <3>3. new.rows[t] = Schema!Chained(R[t])
      BY <1>6, <2>3
    <3> QED
      BY <2>3, <3>1, <3>2, <3>3, ChainedKeeps DEF Shape
  <2>4. CASE t \in Schema!Touched(n) /\ n # 7
    <3>1. new.rows[t] = {} /\ Born(t) = n
      BY <1>6, <2>1, <2>4
    <3> QED
      BY <2>1, <2>4, <3>1 DEF Shape
  <2> QED
    BY <2>2, <2>3, <2>4
<1>9. Good(new, n)
  BY <1>4, <1>8 DEF Good
<1>10. ASSUME k >= 5 PROVE \A c : Data(new, c) = Data(db, c)
  <2>1. Runs \in Schema!Tables /\ Born(Runs) = 5
    BY TablesAre, Birth
  <2>2. 7 \in new.applied <=> n = 7
    BY <1>1, <1>4
  <2>3. 7 \notin db.applied
    BY <1>2
  <2>4. CASE n # 7
    <3>1. Runs \notin Schema!Touched(n)
      BY <1>1, <1>10, <2>1, <2>4, Birth
    <3>2. new.rows[Runs] = db.rows[Runs]
      BY <1>6, <2>1, <3>1 DEF R
    <3> QED
      BY <2>2, <2>3, <2>4, <3>2, DataAlike
  <2>5. CASE n = 7
    <3>1. Runs \in Schema!Touched(n)
      BY <1>1, <2>1, <2>5, Birth
    <3>2. new.rows[Runs] = Schema!Chained(R[Runs]) /\ R[Runs] \subseteq Legacy
      BY <1>5, <1>6, <2>1, <2>5, <3>1 DEF Shape
    <3> SUFFICES ASSUME NEW c PROVE Data(new, c) = Data(db, c)
      OBVIOUS
    <3> DEFINE was == {q \in R[Runs] : q.id = c}
               is == {q \in Schema!Chained(R[Runs]) : q.id = c}
    <3>3. Schema!LatestFull(db, c) = was
      BY <2>3 DEF Schema!LatestFull, R, Runs
    <3>4. Schema!LatestFull(new, c) = is
      <4>1. \A r \in is : r.kind = "full" /\ r.step = 0
        <5>1. \A r \in Schema!Chained(R[Runs]) : r.kind = "full" /\ r.step = 0
          BY <3>2, ChainedKeeps
        <5> QED
          BY <5>1
      <4>2. Schema!LatestFull(new, c) =
              {r \in {q \in is : q.kind = "full"} :
                 r.step = Schema!Best({q.step : q \in {p \in is : p.kind = "full"}})}
        BY <2>2, <2>5, <3>2 DEF Schema!LatestFull, Runs
      <4> HIDE DEF is
      <4>3. {q \in is : q.kind = "full"} = is
        BY <4>1
      <4>4. is # {} => {q.step : q \in is} = {0}
        BY <4>1
      <4>5. Schema!Best({0}) = 0
        BY DEF Schema!Best
      <4> QED
        BY <4>1, <4>2, <4>3, <4>4, <4>5
    <3>5. {r.data : r \in was} = {r.data : r \in is}
      <4>1. \A x : {r.data : r \in {q \in R[Runs] : q.id = x}} =
                    {r.data : r \in {q \in Schema!Chained(R[Runs]) : q.id = x}}
        BY <3>2, ChainedKeeps
      <4> QED
        BY <4>1
    <3> QED
      BY <3>3, <3>4, <3>5 DEF Data
  <2> QED
    BY <2>4, <2>5
<1> QED
  BY <1>6, <1>7, <1>9, <1>10 DEF R, new

LEMMA DownHolds ==
  ASSUME dialect \in {"postgres", "sqlite"}, NEW k \in 1 .. 7, NEW db, Good(db, k)
  PROVE  /\ Schema!Fits(k, "down", db)
         /\ Good(Schema!Down(k, db), k - 1)
         /\ \A t \in Schema!Tables \ Schema!Touched(k) :
              Schema!Down(k, db).rows[t] = db.rows[t]
         /\ k - 1 >= 5 => \A c : Data(Schema!Down(k, db), c) = Data(db, c)
<1> DEFINE n == k - 1
           R == db.rows
           new == Schema!Down(k, db)
<1>1. n \in 0 .. 6 /\ (1 .. k) \ {k} = 1 .. n
  OBVIOUS
<1>2. db = [applied |-> 1 .. k, rows |-> R]
  BY DEF Good
<1>3. new = [applied |-> db.applied \ {k},
             rows |-> [t \in Schema!Tables |->
               IF t \notin Schema!Touched(k) THEN R[t]
               ELSE IF k = 7 THEN Schema!Folded(R[t]) ELSE Schema!Absent]]
  BY DEF Schema!Down
<1>4. /\ new.applied = 1 .. n
      /\ new.rows = [t \in Schema!Tables |->
           IF t \notin Schema!Touched(k) THEN R[t]
           ELSE IF k = 7 THEN Schema!Folded(R[t]) ELSE Schema!Absent]
      /\ new = [applied |-> 1 .. n, rows |-> new.rows]
  <2>1. PICK A : A = db.applied
    OBVIOUS
  <2>2. A = 1 .. k
    BY <1>2, <2>1
  <2> DEFINE F == [t \in Schema!Tables |->
                    IF t \notin Schema!Touched(k) THEN R[t]
                    ELSE IF k = 7 THEN Schema!Folded(R[t]) ELSE Schema!Absent]
  <2>3. new = [applied |-> 1 .. n, rows |-> F]
    BY <1>1, <1>3, <2>1, <2>2
  <2> HIDE DEF F, new
  <2>4. new.applied = 1 .. n /\ new.rows = F
    BY <2>3
  <2> QED
    BY <2>3, <2>4 DEF F
<1> HIDE DEF new
<1>5. \A t \in Schema!Tables : Shape(t, k, R[t])
  BY DEF Good
<1> HIDE DEF R
<1>6. \A t \in Schema!Tables :
        new.rows[t] = IF t \notin Schema!Touched(k) THEN R[t]
                      ELSE IF k = 7 THEN Schema!Folded(R[t]) ELSE Schema!Absent
  BY <1>4
<1>7. Schema!Fits(k, "down", db)
  <2> SUFFICES ASSUME NEW t \in Schema!Touched(k) PROVE R[t] # Schema!Absent
    BY DEF Schema!Fits, R
  <2>1. t \in Schema!Tables /\ Born(t) \in 1 .. 6 /\ (k = Born(t) \/ (k = 7 /\ Born(t) = 5))
    BY TouchedIs, Birth
  <2>2. R[t] = Schema!Absent <=> k < Born(t)
    BY <1>5, <2>1, ShapesTell
  <2> QED
    BY <2>1, <2>2
<1>8. ASSUME NEW t \in Schema!Tables PROVE Shape(t, n, new.rows[t])
  <2>1. /\ Born(t) \in 1 .. 6 /\ (Born(t) = 5 <=> t = Runs)
        /\ t \in Schema!Touched(k) <=> k = Born(t) \/ (k = 7 /\ t = Runs)
    BY Birth
  <2>2. CASE t \notin Schema!Touched(k)
    <3>1. new.rows[t] = R[t] /\ Shape(t, k, R[t])
      BY <1>5, <1>6, <2>2
    <3>2. k < Born(t) <=> n < Born(t)
      BY <2>1, <2>2
    <3>3. t = Runs => (k < 7 <=> n < 7)
      BY <2>1, <2>2
    <3> QED
      BY <3>1, <3>2, <3>3 DEF Shape
  <2>3. CASE t \in Schema!Touched(k) /\ k = 7
    <3>1. t = Runs /\ Born(t) = 5 /\ n = 6
      BY <2>1, <2>3
    <3>2. R[t] \subseteq Link /\ Bounded(R[t])
      BY <1>5, <2>3, <3>1 DEF Shape
    <3>3. new.rows[t] = Schema!Folded(R[t])
      BY <1>6, <2>3
    <3>4. Schema!Folded(R[t]) \subseteq Legacy
      BY <3>2, FoldedKeeps
    <3> QED
      BY <3>1, <3>3, <3>4 DEF Shape
  <2>4. CASE t \in Schema!Touched(k) /\ k # 7
    <3>1. new.rows[t] = Schema!Absent /\ Born(t) = k
      BY <1>6, <2>1, <2>4
    <3> QED
      BY <3>1 DEF Shape
  <2> QED
    BY <2>2, <2>3, <2>4
<1>9. Good(new, n)
  BY <1>4, <1>8 DEF Good
<1>10. ASSUME n >= 5 PROVE \A c : Data(new, c) = Data(db, c)
  <2>1. Runs \in Schema!Tables /\ Born(Runs) = 5
    BY TablesAre, Birth
  <2>2. 7 \notin new.applied
    BY <1>1, <1>4
  <2>3. 7 \in db.applied <=> k = 7
    BY <1>2
  <2>4. CASE k # 7
    <3>1. Runs \notin Schema!Touched(k)
      BY <1>10, <2>1, <2>4, Birth
    <3>2. new.rows[Runs] = db.rows[Runs]
      BY <1>6, <2>1, <3>1 DEF R
    <3> QED
      BY <2>2, <2>3, <2>4, <3>2, DataAlike
  <2>5. CASE k = 7
    <3>1. Runs \in Schema!Touched(k)
      BY <2>1, <2>5, Birth
    <3>2. new.rows[Runs] = Schema!Folded(R[Runs]) /\ R[Runs] \subseteq Link /\ Bounded(R[Runs])
      BY <1>5, <1>6, <2>1, <2>5, <3>1 DEF Shape
    <3> SUFFICES ASSUME NEW c PROVE Data(new, c) = Data(db, c)
      OBVIOUS
    <3> DEFINE is == {q \in Schema!Folded(R[Runs]) : q.id = c}
               was == {q \in Schema!Fulls(R[Runs], c) :
                         q.step = Schema!Best({p.step : p \in Schema!Fulls(R[Runs], c)})}
    <3>3. Schema!LatestFull(new, c) = is
      BY <2>2, <3>2 DEF Schema!LatestFull, Runs
    <3>4. Schema!LatestFull(db, c) = was
      <4> DEFINE mine == {r \in R[Runs] : r.id = c}
                 fulls == {r \in mine : r.kind = "full"}
      <4>1. fulls = Schema!Fulls(R[Runs], c)
        BY DEF Schema!Fulls
      <4>2. Schema!LatestFull(db, c) =
              {r \in fulls : r.step = Schema!Best({q.step : q \in fulls})}
        BY <2>3, <2>5 DEF Schema!LatestFull, R, Runs
      <4> HIDE DEF fulls
      <4> QED
        BY <4>1, <4>2
    <3>5. {r.data : r \in was} = {r.data : r \in is}
      <4>1. \A x : {r.data : r \in {q \in Schema!Folded(R[Runs]) : q.id = x}} =
                    {r.data : r \in {q \in Schema!Fulls(R[Runs], x) :
                       q.step = Schema!Best({p.step : p \in Schema!Fulls(R[Runs], x)})}}
        BY <3>2, FoldedKeeps
      <4> QED
        BY <4>1
    <3> QED
      BY <3>3, <3>4, <3>5 DEF Data
  <2> QED
    BY <2>4, <2>5
<1> QED
  BY <1>6, <1>7, <1>9, <1>10 DEF R, new

-----------------------------------------------------------------------------
(* A transaction: from the k versions that are committed to the j it has.  *)

Between(k, j) == (k + 1 .. j) \cup (j + 1 .. k)
TouchedBetween(k, j) == UNION {Schema!Touched(n) : n \in Between(k, j)}

\* What would be committed.
Merged(b, db) ==
  [applied |-> b.work.applied,
   rows |-> [t \in Schema!Tables |-> IF t \in b.dirty THEN b.work.rows[t] ELSE db.rows[t]]]

Target(b) == Schema!Parsed(b.env.down)

TxAt(b, db, on, k, j) ==
  /\ b.work = [applied |-> 1 .. j, rows |-> b.work.rows]
  /\ b.dirty = TouchedBetween(k, j)
  /\ Good(Merged(b, db), j)
  /\ IF b.way = "up" THEN k <= j /\ b.todo = j + 1 .. 7
     ELSE /\ j <= k /\ b.todo = {n \in 1 .. j : n > Target(b)}
          /\ \A n \in j + 1 .. k : n > Target(b)
  /\ on = "sqlite" => \A t \in Schema!Tables \ b.dirty : b.work.rows[t] = db.rows[t]
  /\ k >= 5 /\ j >= 5 => \A c : Data(Merged(b, db), c) = Data(db, c)
Tx(b, db, on, k) == \E j \in 0 .. 7 : TxAt(b, db, on, k, j)

LEMMA UntouchedIs ==
  ASSUME NEW k \in 0 .. 7, NEW j \in 0 .. 7, NEW t \in Schema!Tables, t \notin TouchedBetween(k, j)
  PROVE  (k < Born(t) <=> j < Born(t)) /\ (t = Runs => (k < 7 <=> j < 7))
<1>1. \A n \in Between(k, j) : n \in 1 .. 7 /\ t \notin Schema!Touched(n)
  BY DEF Between, TouchedBetween
<1>2. Born(t) \in 1 .. 6 /\ Born(t) \notin Between(k, j)
  BY <1>1, Birth
<1>3. t = Runs => 7 \notin Between(k, j)
  BY <1>1, Birth
<1> QED
  BY <1>2, <1>3 DEF Between

LEMMA NothingTouched ==
  ASSUME NEW k \in 0 .. 7, NEW j \in 0 .. 7, TouchedBetween(k, j) = {} PROVE k = j
<1> SUFFICES ASSUME k # j PROVE FALSE
  OBVIOUS
<1>1. PICK n \in Between(k, j) : n \in 1 .. 7
  <2>1. k < j => k + 1 \in Between(k, j) /\ k + 1 \in 1 .. 7
    BY DEF Between
  <2>2. j < k => j + 1 \in Between(k, j) /\ j + 1 \in 1 .. 7
    BY DEF Between
  <2> QED
    BY <2>1, <2>2
<1> QED
  BY <1>1, TouchedIs DEF TouchedBetween

LEMMA MergedIs ==
  ASSUME NEW b, NEW db
  PROVE  /\ Merged(b, db).applied = b.work.applied
         /\ Merged(b, db).rows =
              [t \in Schema!Tables |-> IF t \in b.dirty THEN b.work.rows[t] ELSE db.rows[t]]
  BY DEF Merged

LEMMA SeenIs ==
  ASSUME dialect \in {"postgres", "sqlite"}, NEW d, NEW k, NEW j, TxAt(boot[d], database, dialect, k, j)
  PROVE  Schema!Seen(d) = Merged(boot[d], database)
<1> DEFINE A == 1 .. j
           R == boot[d].work.rows
           D == boot[d].dirty
           Q == database.rows
<1>1. boot[d].work = [applied |-> A, rows |-> R]
  BY DEF TxAt
<1>2. dialect = "sqlite" => \A t \in Schema!Tables \ D : R[t] = Q[t]
  BY DEF TxAt
<1>3. Schema!Seen(d) =
        [boot[d].work EXCEPT !.rows =
           [t \in Schema!Tables |-> IF t \in D \/ dialect = "sqlite" THEN @[t] ELSE Q[t]]]
  BY DEF Schema!Seen
<1>4. Merged(boot[d], database) =
        [applied |-> boot[d].work.applied,
         rows |-> [t \in Schema!Tables |-> IF t \in D THEN R[t] ELSE Q[t]]]
  BY DEF Merged
<1>5. boot[d].work.applied = A
  BY <1>1
<1> HIDE DEF A, R, D, Q
<1>6. Schema!Seen(d) =
        [applied |-> A,
         rows |-> [t \in Schema!Tables |-> IF t \in D \/ dialect = "sqlite" THEN R[t] ELSE Q[t]]]
  BY <1>1, <1>3
<1>7. [t \in Schema!Tables |-> IF t \in D \/ dialect = "sqlite" THEN R[t] ELSE Q[t]] =
      [t \in Schema!Tables |-> IF t \in D THEN R[t] ELSE Q[t]]
  BY <1>2
<1> QED
  BY <1>4, <1>5, <1>6, <1>7

\* A transaction begins with what is committed.
LEMMA TxBegins ==
  ASSUME NEW b, NEW db, NEW on, NEW k \in 0 .. 7, Good(db, k), b.way \in {"up", "down"},
         b.work = db, b.dirty = {}, b.todo = Schema!Plan(b.way, Target(b), db.applied)
  PROVE  Tx(b, db, on, k)
<1>1. db = [applied |-> 1 .. k, rows |-> db.rows]
      /\ db.rows = [t \in Schema!Tables |-> db.rows[t]]
  BY DEF Good
<1>2. db.applied = 1 .. k
  BY <1>1
<1>3. Merged(b, db) = db
  <2>1. Merged(b, db) = [applied |-> db.applied, rows |-> [t \in Schema!Tables |-> db.rows[t]]]
    BY DEF Merged
  <2> QED
    BY <1>1, <1>2, <2>1
<1>4. TouchedBetween(k, k) = {}
  BY DEF TouchedBetween, Between
<1>5. Schema!Versions \ (1 .. k) = k + 1 .. 7 /\ k + 1 .. k = {}
  BY DEF Schema!Versions
<1> QED
  <2>1. b.work = [applied |-> 1 .. k, rows |-> b.work.rows] /\ b.dirty = TouchedBetween(k, k)
    BY <1>1, <1>4
  <2>2. Good(Merged(b, db), k) /\ \A c : Data(Merged(b, db), c) = Data(db, c)
    BY <1>3
  <2>3. b.way = "up" => b.todo = k + 1 .. 7
    BY <1>2, <1>5 DEF Schema!Plan
  <2>4. b.way # "up" => b.todo = {n \in 1 .. k : n > Target(b)}
    BY <1>2 DEF Schema!Plan
  <2>5. k <= k /\ \A n \in k + 1 .. k : n > Target(b)
    BY <1>5
  <2>6. \A t \in Schema!Tables \ b.dirty : b.work.rows[t] = db.rows[t]
    OBVIOUS
  <2>7. TxAt(b, db, on, k, k)
    BY <2>1, <2>2, <2>3, <2>4, <2>5, <2>6 DEF TxAt
  <2> QED
    BY <2>7 DEF Tx

\* It goes on by a migration that fits.
LEMMA TxSteps ==
  ASSUME NEW b, NEW db, NEW on, NEW k \in 0 .. 7, NEW j \in 0 .. 7, TxAt(b, db, on, k, j),
         NEW n \in 1 .. 7, NEW i \in 0 .. 7, NEW new, Good(new, i),
         \A t \in Schema!Tables \ Schema!Touched(n) : new.rows[t] = Merged(b, db).rows[t],
         TouchedBetween(k, i) = TouchedBetween(k, j) \cup Schema!Touched(n),
         k >= 5 /\ i >= 5 => \A c : Data(new, c) = Data(db, c),
         IF b.way = "up" THEN k <= i /\ b.todo \ {n} = i + 1 .. 7
         ELSE /\ i <= k /\ b.todo \ {n} = {m \in 1 .. i : m > Target(b)}
              /\ \A m \in i + 1 .. k : m > Target(b)
  PROVE  Tx(Schema!Stepping(b, new, b.dirty \cup Schema!Touched(n), b.todo \ {n}), db, on, k)
<1>1. PICK next : next = Schema!Stepping(b, new, b.dirty \cup Schema!Touched(n), b.todo \ {n})
  OBVIOUS
<1>2. /\ next.work = new /\ next.dirty = b.dirty \cup Schema!Touched(n)
      /\ next.todo = b.todo \ {n} /\ next.way = b.way /\ next.env = b.env
  BY <1>1 DEF Schema!Stepping
<1>3. new = [applied |-> 1 .. i, rows |-> new.rows]
      /\ new.rows = [t \in Schema!Tables |-> new.rows[t]]
  BY DEF Good
<1>4. ASSUME NEW t \in Schema!Tables, t \notin next.dirty PROVE new.rows[t] = db.rows[t]
  <2>1. t \notin b.dirty /\ t \notin Schema!Touched(n)
    BY <1>2, <1>4
  <2>2. new.rows[t] = Merged(b, db).rows[t]
    BY <2>1
  <2>3. Merged(b, db).rows =
          [u \in Schema!Tables |-> IF u \in b.dirty THEN b.work.rows[u] ELSE db.rows[u]]
    BY MergedIs
  <2> QED
    BY <2>1, <2>2, <2>3
<1>5. Merged(next, db) = new
  <2>1. Merged(next, db).rows = [t \in Schema!Tables |-> new.rows[t]]
    <3>1. Merged(next, db).rows =
            [t \in Schema!Tables |-> IF t \in next.dirty THEN next.work.rows[t] ELSE db.rows[t]]
      BY MergedIs
    <3>2. next.work = new
      BY <1>2
    <3> QED
      BY <1>4, <3>1, <3>2
  <2>2. Merged(next, db) = [applied |-> new.applied, rows |-> Merged(next, db).rows]
    BY <1>2 DEF Merged
  <2>3. new.applied = 1 .. i
    BY <1>3
  <2> QED
    BY <1>3, <2>1, <2>2, <2>3
<1>6. Target(next) = Target(b)
  BY <1>2 DEF Target
<1>7. next.dirty = TouchedBetween(k, i)
  BY <1>2 DEF TxAt
<1>8. TxAt(next, db, on, k, i)
  BY <1>2, <1>3, <1>4, <1>5, <1>6, <1>7 DEF TxAt
<1> QED
  BY <1>1, <1>8 DEF Tx

LEMMA TxMigrates ==
  ASSUME dialect \in {"postgres", "sqlite"}, NEW b, NEW db, NEW k \in 0 .. 7, NEW j \in 0 .. 7,
         TxAt(b, db, dialect, k, j), b.way \in {"up", "down"}, b.way = "down" => Target(b) \in Nat,
         b.todo # {}
  PROVE  LET n == Schema!NextOf(b.way, b.todo)
             before == Merged(b, db)
             work == IF b.way = "up" THEN Schema!Up(n, before) ELSE Schema!Down(n, before)
         IN /\ Schema!Fits(n, b.way, before)
            /\ b.way = "up" => n \notin 1 .. k
            /\ Tx(Schema!Stepping(b, work, b.dirty \cup Schema!Touched(n), b.todo \ {n}), db, dialect, k)
<1>1. Good(Merged(b, db), j)
  BY DEF TxAt
<1>2. CASE b.way = "up"
  <2> DEFINE i == j + 1
             new == Schema!Up(i, Merged(b, db))
  <2>1. k <= j /\ b.todo = i .. 7
    BY <1>2 DEF TxAt
  <2>2. j \in 0 .. 6 /\ i \in 1 .. 7 /\ i \in 0 .. 7
    BY <2>1
  <2>3. Schema!NextOf("up", b.todo) = i
    BY <2>1, <2>2 DEF Schema!NextOf
  <2>4. /\ Schema!Fits(i, "up", Merged(b, db)) /\ Good(new, i)
        /\ \A t \in Schema!Tables \ Schema!Touched(i) : new.rows[t] = Merged(b, db).rows[t]
        /\ j >= 5 => \A c : Data(new, c) = Data(Merged(b, db), c)
    BY <1>1, <2>2, UpHolds
  <2>5. TouchedBetween(k, i) = TouchedBetween(k, j) \cup Schema!Touched(i)
    <3>1. Between(k, i) = Between(k, j) \cup {i}
      BY <2>1, <2>2 DEF Between
    <3> HIDE DEF i
    <3> QED
      BY <3>1 DEF TouchedBetween
  <2>6. k >= 5 /\ i >= 5 => \A c : Data(new, c) = Data(db, c)
    BY <2>1, <2>4 DEF TxAt
  <2>7. k <= i /\ b.todo \ {i} = i + 1 .. 7
    BY <2>1, <2>2
  <2> HIDE DEF new, i
  <2>8. Tx(Schema!Stepping(b, new, b.dirty \cup Schema!Touched(i), b.todo \ {i}), db, dialect, k)
    BY <1>2, <2>2, <2>4, <2>5, <2>6, <2>7, TxSteps
  <2>9. i \notin 1 .. k
    BY <2>1, <2>2 DEF i
  <2> QED
    BY <1>2, <2>3, <2>4, <2>8, <2>9 DEF new
<1>3. CASE b.way = "down"
  <2> DEFINE i == j - 1
             new == Schema!Down(j, Merged(b, db))
  <2>1. /\ j <= k /\ b.todo = {n \in 1 .. j : n > Target(b)} /\ Target(b) \in Nat
        /\ \A n \in j + 1 .. k : n > Target(b)
    BY <1>3 DEF TxAt
  <2>2. j \in 1 .. 7 /\ i \in 0 .. 7 /\ j > Target(b) /\ j \in b.todo
    BY <2>1
  <2>3. Schema!NextOf("down", b.todo) = j
    <3>1. \A m \in b.todo : m \in 1 .. j
      BY <2>1
    <3>2. \A m \in b.todo : m <= j
      BY <3>1
    <3>3. ASSUME NEW n \in b.todo, \A m \in b.todo : m <= n PROVE n = j
      BY <2>2, <3>1, <3>3
    <3> QED
      BY <2>2, <3>2, <3>3 DEF Schema!NextOf
  <2>4. /\ Schema!Fits(j, "down", Merged(b, db)) /\ Good(new, i)
        /\ \A t \in Schema!Tables \ Schema!Touched(j) : new.rows[t] = Merged(b, db).rows[t]
        /\ i >= 5 => \A c : Data(new, c) = Data(Merged(b, db), c)
    BY <1>1, <2>2, DownHolds
  <2>5. TouchedBetween(k, i) = TouchedBetween(k, j) \cup Schema!Touched(j)
    <3>1. Between(k, i) = Between(k, j) \cup {j}
      BY <2>1, <2>2 DEF Between
    <3> HIDE DEF i
    <3> QED
      BY <3>1 DEF TouchedBetween
  <2>6. k >= 5 /\ i >= 5 => \A c : Data(new, c) = Data(db, c)
    BY <2>1, <2>4 DEF TxAt
  <2>7. /\ i <= k /\ b.todo \ {j} = {m \in 1 .. i : m > Target(b)}
        /\ \A m \in i + 1 .. k : m > Target(b)
    <3> DEFINE g == Target(b)
    <3>1. g \in Nat /\ j > g /\ b.todo = {n \in 1 .. j : n > g} /\ \A n \in j + 1 .. k : n > g
      BY <2>1, <2>2
    <3> HIDE DEF g
    <3>2. i <= k /\ b.todo \ {j} = {m \in 1 .. i : m > g} /\ \A m \in i + 1 .. k : m > g
      BY <2>1, <2>2, <3>1
    <3> QED
      BY <3>2 DEF g
  <2> HIDE DEF new, i
  <2>8. Tx(Schema!Stepping(b, new, b.dirty \cup Schema!Touched(j), b.todo \ {j}), db, dialect, k)
    BY <1>3, <2>2, <2>4, <2>5, <2>6, <2>7, TxSteps
  <2> QED
    BY <1>3, <2>3, <2>4, <2>8 DEF new
<1> QED
  BY <1>2, <1>3

\* One table is rewritten in its shape.
Rewritten(db, new, k, t, s) ==
  /\ Shape(t, k, s) /\ db.applied = 1 .. k /\ new.applied = 1 .. k
  /\ new.rows[t] = s /\ \A u \in Schema!Tables \ {t} : new.rows[u] = db.rows[u]

\* What others write meanwhile is not what it has touched.
LEMMA TxKept ==
  ASSUME NEW on, on # "sqlite", NEW b, NEW db, NEW k \in 0 .. 7, NEW j \in 0 .. 7, TxAt(b, db, on, k, j),
         NEW t \in Schema!Tables, t \notin b.dirty, NEW s, NEW new, Rewritten(db, new, k, t, s)
  PROVE  TxAt(b, new, on, k, j)
<1> USE DEF Rewritten
<1> DEFINE was == Merged(b, db)
           is == Merged(b, new)
<1>1. b.dirty = TouchedBetween(k, j) /\ Good(was, j)
      /\ b.work = [applied |-> 1 .. j, rows |-> b.work.rows]
  BY DEF TxAt
<1>2. b.work.applied = 1 .. j
  BY <1>1
<1>3. \A u \in Schema!Tables :
        /\ was.rows[u] = IF u \in b.dirty THEN b.work.rows[u] ELSE db.rows[u]
        /\ is.rows[u] = IF u \in b.dirty THEN b.work.rows[u] ELSE new.rows[u]
  <2>1. was.rows = [u \in Schema!Tables |-> IF u \in b.dirty THEN b.work.rows[u] ELSE db.rows[u]]
    BY MergedIs
  <2>2. is.rows = [u \in Schema!Tables |-> IF u \in b.dirty THEN b.work.rows[u] ELSE new.rows[u]]
    BY MergedIs
  <2> HIDE DEF was, is
  <2> QED
    BY <2>1, <2>2
<1>4. is = [applied |-> 1 .. j, rows |-> is.rows] /\ is.applied = 1 .. j /\ was.applied = 1 .. j
      /\ is.rows = [u \in Schema!Tables |-> is.rows[u]]
  BY <1>2 DEF Merged
<1> HIDE DEF is, was
<1>5. Good(is, j)
  <2> SUFFICES ASSUME NEW u \in Schema!Tables PROVE Shape(u, j, is.rows[u])
    BY <1>4 DEF Good
  <2>1. CASE u # t
    <3>1. is.rows[u] = was.rows[u]
      BY <1>3, <2>1
    <3> QED
      BY <1>1, <3>1 DEF Good
  <2>2. CASE u = t
    <3>1. is.rows[u] = s
      BY <1>3, <2>2
    <3>2. (k < Born(t) <=> j < Born(t)) /\ (t = Runs => (k < 7 <=> j < 7))
      BY <1>1, UntouchedIs
    <3> QED
      BY <2>2, <3>1, <3>2 DEF Shape
  <2> QED
    BY <2>1, <2>2
<1>6. ASSUME k >= 5, j >= 5 PROVE \A c : Data(is, c) = Data(new, c)
  <2>1. Runs \in Schema!Tables
    BY TablesAre
  <2>2. CASE Runs \in b.dirty
    <3>1. is.rows[Runs] = was.rows[Runs] /\ new.rows[Runs] = db.rows[Runs]
      BY <1>3, <2>1, <2>2
    <3>2. (7 \in is.applied <=> 7 \in was.applied) /\ (7 \in new.applied <=> 7 \in db.applied)
      BY <1>4
    <3>3. \A c : Data(is, c) = Data(was, c)
      BY <3>1, <3>2, DataAlike
    <3>4. \A c : Data(new, c) = Data(db, c)
      BY <3>1, <3>2, DataAlike
    <3>5. \A c : Data(was, c) = Data(db, c)
      BY <1>6 DEF TxAt, was
    <3> QED
      BY <3>3, <3>4, <3>5
  <2>3. CASE Runs \notin b.dirty
    <3>1. is.rows[Runs] = new.rows[Runs]
      BY <1>3, <2>1, <2>3
    <3>2. k < 7 <=> j < 7
      BY <1>1, <2>1, <2>3, UntouchedIs
    <3>3. 7 \in is.applied <=> 7 \in new.applied
      BY <1>4, <3>2
    <3> QED
      BY <3>1, <3>3, DataAlike
  <2> QED
    BY <2>2, <2>3
<1> QED
  BY <1>1, <1>5, <1>6 DEF TxAt, is

-----------------------------------------------------------------------------
(* The invariant: what is committed is a good database, and so is what     *)
(* each transaction would make of it.                                      *)

Phase(b) ==
  /\ b.pc \in {"off", "begin", "read", "step", "serving", "busy", "refused"}
  /\ b.pc \in {"begin", "read", "step"} =>
       b.way \in {"up", "down"} /\ (b.way = "down" => Target(b) \in Nat)

OneAtATime ==
  dialect = "postgres" => \A d, e \in Daemon : Schema!InTx(d) /\ Schema!InTx(e) => d = e

SchemaInv ==
  /\ dialect \in {"postgres", "sqlite"} /\ writes \in Nat
  /\ boot = [d \in Daemon |-> boot[d]] /\ \A d \in Daemon : Phase(boot[d])
  /\ OneAtATime
  /\ \E k \in 0 .. 7 : Good(database, k)
  /\ \A k \in 0 .. 7 : Good(database, k) =>
       \A d \in Daemon : boot[d].pc = "step" => Tx(boot[d], database, dialect, k)

LEMMA LeftIsGood == ASSUME NEW n \in {0, 4, 6, 7} PROVE Good(Schema!Left(n), n)
<1> DEFINE new == Schema!Left(n)
           RowOf(t) == IF \A v \in 1 .. n : t \notin Schema!Creates[v] THEN Schema!Absent
                     ELSE IF t # Runs THEN {}
                     ELSE IF n = 7 THEN UNION {Schema!Chain(c) : c \in Channel}
                     ELSE {[id |-> c, data |-> 0] : c \in Channel}
<1>1. new = [applied |-> 1 .. n, rows |-> [t \in Schema!Tables |-> RowOf(t)]]
  BY DEF Schema!Left, Runs
<1>2. ASSUME NEW t \in Schema!Tables PROVE Shape(t, n, RowOf(t))
  <2>1. (\A v \in 1 .. n : t \notin Schema!Creates[v]) <=> n < Born(t)
    <3>1. Born(t) \in 1 .. 6 /\ \A v \in 1 .. 7 : t \in Schema!Creates[v] <=> v = Born(t)
      BY Birth
    <3>2. \A v \in 1 .. n : v \in 1 .. 7
      OBVIOUS
    <3> QED
      BY <3>1, <3>2
  <2>2. CASE n < Born(t)
    BY <2>1, <2>2 DEF Shape
  <2>3. CASE ~(n < Born(t)) /\ t # Runs
    BY <2>1, <2>3 DEF Shape
  <2>4. CASE ~(n < Born(t)) /\ t = Runs /\ n # 7
    <3>1. RowOf(t) = {[id |-> c, data |-> 0] : c \in Channel}
      BY <2>1, <2>4
    <3>2. \A c \in Channel : [id |-> c, data |-> 0] \in Legacy
      BY DEF Legacy
    <3>3. RowOf(t) \subseteq Legacy
      BY <3>1, <3>2
    <3>4. n < 7
      BY <2>4
    <3> HIDE DEF RowOf
    <3> QED
      BY <2>4, <3>3, <3>4 DEF Shape
  <2>5. CASE ~(n < Born(t)) /\ t = Runs /\ n = 7
    <3>1. RowOf(t) = UNION {Schema!Chain(c) : c \in Channel}
      BY <2>1, <2>5
    <3>2. ASSUME NEW c \in Channel, NEW r \in Schema!Chain(c) PROVE r \in Link /\ r.step <= 3
      <4>1. PICK m \in 0 .. 3 :
              r = [id |-> c, kind |-> IF m \in {0, 2} THEN "full" ELSE "delta", step |-> m, data |-> 0 - m]
        BY DEF Schema!Chain
      <4>2. PICK kind \in {"full", "delta"}, low \in Int :
              r = [id |-> c, kind |-> kind, step |-> m, data |-> low]
        BY <4>1
      <4>3. m \in Nat /\ m <= 3
        OBVIOUS
      <4> QED
        BY <4>2, <4>3 DEF Link
    <3>3. RowOf(t) \subseteq Link /\ \A r \in RowOf(t) : r.step <= 3
      BY <3>1, <3>2
    <3> HIDE DEF RowOf
    <3>4. Bounded(RowOf(t))
      BY <3>3 DEF Bounded
    <3> QED
      BY <2>5, <3>3, <3>4 DEF Shape
  <2> QED
    BY <2>2, <2>3, <2>4, <2>5
<1> HIDE DEF RowOf
<1>3. new.rows = [t \in Schema!Tables |-> RowOf(t)] /\ new = [applied |-> 1 .. n, rows |-> new.rows]
  BY <1>1
<1> HIDE DEF new
<1>4. \A t \in Schema!Tables : new.rows[t] = RowOf(t)
  BY <1>3
<1> QED
  BY <1>2, <1>3, <1>4 DEF Good, new

LEMMA SchemaStarts == ASSUME Schema!Init PROVE SchemaInv
<1>1. PICK n \in {0, 4, 6, 7} : database = Schema!Left(n)
  BY DEF Schema!Init
<1>2. n \in 0 .. 7 /\ Good(database, n)
  BY <1>1, LeftIsGood
<1>3. boot = [d \in Daemon |-> [pc |-> "off"]]
  BY DEF Schema!Init, Schema!Off
<1>4. \A d \in Daemon : boot[d].pc = "off"
  BY <1>3
<1>5. boot = [d \in Daemon |-> boot[d]]
  BY <1>3
<1> QED
  BY <1>2, <1>4, <1>5 DEF SchemaInv, OneAtATime, Phase, Schema!InTx, Schema!Init

\* A step of one daemon that commits nothing.
LEMMA Quiet ==
  ASSUME SchemaInv, NEW d \in Daemon, NEW b, boot' = [boot EXCEPT ![d] = b], Phase(b),
         dialect' = dialect, database' = database, writes' = writes,
         dialect = "postgres" /\ b.pc \in {"read", "step"} =>
           \A e \in Daemon \ {d} : ~Schema!InTx(e),
         b.pc = "step" => \A k \in 0 .. 7 : Good(database, k) => Tx(b, database, dialect, k)
  PROVE  SchemaInv'
<1>1. boot'[d] = b /\ (\A e \in Daemon \ {d} : boot'[e] = boot[e])
      /\ boot' = [e \in Daemon |-> boot'[e]]
  BY DEF SchemaInv
<1>2. \A e \in Daemon : Phase(boot'[e])
  BY <1>1 DEF SchemaInv
<1>3. OneAtATime'
  BY <1>1 DEF SchemaInv, OneAtATime, Schema!InTx
<1>4. ASSUME NEW k \in 0 .. 7, Good(database, k), NEW e \in Daemon, boot'[e].pc = "step"
      PROVE  Tx(boot'[e], database, dialect, k)
  <2>1. CASE e = d
    BY <1>1, <1>4, <2>1
  <2>2. CASE e # d
    BY <1>1, <1>4, <2>2 DEF SchemaInv
  <2> QED
    BY <2>1, <2>2
<1> QED
  BY <1>1, <1>2, <1>3, <1>4 DEF SchemaInv

-----------------------------------------------------------------------------
(* The steps.                                                              *)

\* What a step may do to what is committed.
Kept ==
  database'.applied # database.applied /\ 5 \in database.applied /\ 5 \in database'.applied =>
    \A c : Data(database, c) = Data(database', c)
Told ==
  \A n \in database.applied \ database'.applied :
    \E d \in Daemon : boot[d].pc = "step" /\ boot[d].way = "down" /\ n > Target(boot[d])

Moved == SchemaInv' /\ Kept /\ Told

LEMMA Unversioned ==
  ASSUME SchemaInv', database'.applied = database.applied PROVE Moved
  BY DEF Moved, Kept, Told

LEMMA Version ==
  ASSUME NEW db, NEW k \in 0 .. 7, Good(db, k)
  PROVE  db.applied = 1 .. k
<1>1. db = [applied |-> 1 .. k, rows |-> db.rows]
  BY DEF Good
<1> QED
  BY <1>1

LEMMA OneVersion ==
  ASSUME NEW k \in 0 .. 7, NEW j \in 0 .. 7, 1 .. k = 1 .. j PROVE k = j
<1>1. k > j => k \in 1 .. k /\ k \notin 1 .. j
  OBVIOUS
<1>2. j > k => j \in 1 .. j /\ j \notin 1 .. k
  OBVIOUS
<1> QED
  BY <1>1, <1>2

LEMMA ReadHolds ==
  ASSUME SchemaInv, NEW d \in Daemon, Schema!ReadApplied(d) PROVE SchemaInv'
<1> DEFINE was == boot[d]
           todo == Schema!Plan(was.way, Target(was), database.applied)
<1>1. PICK b : b = Schema!Stepping(was, database, {}, todo)
  OBVIOUS
<1>2. /\ b.pc = "step" /\ b.way = was.way /\ b.env = was.env
      /\ b.work = database /\ b.dirty = {} /\ b.todo = todo
  BY <1>1 DEF Schema!Stepping
<1>3. boot' = [boot EXCEPT ![d] = b]
  BY <1>1 DEF Schema!ReadApplied, Target, SchemaInv
<1>4. was.pc = "read" /\ Phase(was) /\ Target(b) = Target(was)
  BY <1>2 DEF Schema!ReadApplied, SchemaInv, Target
<1>5. Phase(b)
  BY <1>2, <1>4 DEF Phase
<1>6. b.way \in {"up", "down"}
  BY <1>4, <1>2 DEF Phase
<1> HIDE DEF was, todo
<1>7. \A k \in 0 .. 7 : Good(database, k) => Tx(b, database, dialect, k)
  BY <1>2, <1>4, <1>6, TxBegins DEF todo
<1>8. dialect = "postgres" => \A e \in Daemon \ {d} : ~Schema!InTx(e)
  BY <1>4 DEF SchemaInv, OneAtATime, Schema!InTx, was
<1>9. dialect' = dialect /\ database' = database /\ writes' = writes
  BY DEF Schema!ReadApplied
<1> QED
  BY <1>3, <1>5, <1>7, <1>8, <1>9, Quiet

LEMMA MigrateHolds ==
  ASSUME SchemaInv, NEW d \in Daemon, Schema!Migrate(d) PROVE SchemaInv'
<1> DEFINE was == boot[d]
           n == Schema!NextOf(was.way, was.todo)
           before == Schema!Seen(d)
           work == IF was.way = "up" THEN Schema!Up(n, before) ELSE Schema!Down(n, before)
           b == Schema!Stepping(was, work, was.dirty \cup Schema!Touched(n), was.todo \ {n})
<1>1. was.pc = "step" /\ was.todo # {} /\ Phase(was)
  BY DEF Schema!Migrate, SchemaInv
<1>2. was.way \in {"up", "down"} /\ (was.way = "down" => Target(was) \in Nat)
  BY <1>1 DEF Phase
<1>3. ASSUME NEW k \in 0 .. 7, Good(database, k)
      PROVE  /\ Schema!Fits(n, was.way, before) /\ (was.way = "up" => n \notin database.applied)
             /\ Tx(b, database, dialect, k)
  <2>1. PICK j \in 0 .. 7 : TxAt(was, database, dialect, k, j)
    BY <1>1, <1>3 DEF SchemaInv, Tx
  <2>2. before = Merged(was, database)
    BY <2>1, SeenIs DEF SchemaInv
  <2>3. database.applied = 1 .. k
    BY <1>3, Version
  <2>4. dialect \in {"postgres", "sqlite"}
    BY DEF SchemaInv
  <2> HIDE DEF was, before
  <2> QED
    BY <1>1, <1>2, <2>1, <2>2, <2>3, <2>4, TxMigrates
<1>4. PICK k \in 0 .. 7 : Good(database, k)
  BY DEF SchemaInv
<1>5. boot' = [boot EXCEPT ![d] = b]
  <2>1. Schema!Fits(n, was.way, before) /\ (was.way = "up" => n \notin database.applied)
    BY <1>3, <1>4
  <2>2. IF Schema!Fits(n, was.way, before) /\ (was.way = "up" => n \notin database.applied)
        THEN boot' = [boot EXCEPT ![d] = b] ELSE Schema!Stop(d, "error")
    BY DEF Schema!Migrate, SchemaInv
  <2> HIDE DEF n, before, b
  <2> QED
    BY <2>1, <2>2
<1>6. b.pc = "step" /\ b.way = was.way /\ b.env = was.env
  BY DEF Schema!Stepping
<1>7. Phase(b)
  <2> HIDE DEF b
  <2>1. Target(b) = Target(was)
    BY <1>6 DEF Target
  <2> QED
    BY <1>2, <1>6, <2>1 DEF Phase
<1>8. dialect = "postgres" => \A e \in Daemon \ {d} : ~Schema!InTx(e)
  BY <1>1 DEF SchemaInv, OneAtATime, Schema!InTx
<1>9. dialect' = dialect /\ database' = database /\ writes' = writes
  BY DEF Schema!Migrate
<1> HIDE DEF was, b
<1>10. \A i \in 0 .. 7 : Good(database, i) => Tx(b, database, dialect, i)
  BY <1>3
<1> QED
  BY <1>5, <1>7, <1>8, <1>9, <1>10, Quiet

LEMMA AfterUpIs ==
  ASSUME NEW env
  PROVE  /\ Phase(Schema!AfterUp(env))
         /\ Schema!AfterUp(env).pc \in {"serving", "refused", "begin"}
<1>1. CASE Schema!Parsed(env.down) = Schema!Unset
  BY <1>1 DEF Schema!AfterUp, Phase
<1>2. CASE /\ Schema!Parsed(env.down) # Schema!Unset
           /\ Schema!Parsed(env.down) \notin Nat \/ (env.production /\ ~env.allowDown)
  BY <1>2 DEF Schema!AfterUp, Phase
<1>3. CASE /\ Schema!Parsed(env.down) # Schema!Unset
           /\ ~(Schema!Parsed(env.down) \notin Nat \/ (env.production /\ ~env.allowDown))
  <2>1. PICK b : b = [pc |-> "begin", way |-> "down", env |-> env]
    OBVIOUS
  <2>2. Schema!AfterUp(env) = b
    BY <1>3, <2>1 DEF Schema!AfterUp
  <2>3. b.pc = "begin" /\ b.way = "down" /\ b.env = env
    BY <2>1
  <2> QED
    BY <1>3, <2>2, <2>3 DEF Phase, Target
<1> QED
  BY <1>1, <1>2, <1>3

LEMMA CommitHolds ==
  ASSUME SchemaInv, NEW d \in Daemon, Schema!Commit(d) PROVE Moved
<1> DEFINE was == boot[d]
<1>1. was.pc = "step" /\ was.todo = {} /\ Phase(was)
  BY DEF Schema!Commit, SchemaInv
<1>2. PICK b : b = IF was.way = "up" THEN Schema!AfterUp(was.env) ELSE [pc |-> "serving"]
  OBVIOUS
<1>3. Phase(b) /\ b.pc \in {"serving", "refused", "begin"}
  BY <1>2, AfterUpIs DEF Phase
<1>4. boot' = [boot EXCEPT ![d] = b] /\ dialect' = dialect /\ writes' = writes
  BY <1>2 DEF Schema!Commit, SchemaInv
<1>5. database' = [applied |-> IF Schema!Wrote(d) THEN was.work.applied ELSE database.applied,
                   rows |-> [t \in Schema!Tables |->
                     IF t \in was.dirty THEN was.work.rows[t] ELSE database.rows[t]]]
  BY DEF Schema!Commit
<1>6. PICK k \in 0 .. 7 : Good(database, k)
  BY DEF SchemaInv
<1>7. PICK j \in 0 .. 7 : TxAt(was, database, dialect, k, j)
  BY <1>1, <1>6 DEF SchemaInv, Tx
<1>8. CASE was.dirty = {}
  <2>1. ~Schema!Wrote(d)
    BY <1>8 DEF Schema!Wrote
  <2>2. database = [applied |-> 1 .. k, rows |-> database.rows]
        /\ database.rows = [t \in Schema!Tables |-> database.rows[t]]
    BY <1>6 DEF Good
  <2>3. database.applied = 1 .. k
    BY <2>2
  <2>4. database' = [applied |-> database.applied,
                     rows |-> [t \in Schema!Tables |-> database.rows[t]]]
    BY <1>5, <1>8, <2>1
  <2>5. database' = database
    BY <2>2, <2>3, <2>4
  <2> HIDE DEF was
  <2>6. SchemaInv'
    BY <1>3, <1>4, <2>5, Quiet
  <2> QED
    BY <2>5, <2>6, Unversioned
<1>9. CASE was.dirty # {}
  <2>1. Schema!Wrote(d)
    BY <1>1, <1>9 DEF Schema!Wrote
  <2>2. database' = Merged(was, database)
    BY <1>5, <2>1 DEF Merged
  <2>3. Good(database', j)
    BY <1>7, <2>2 DEF TxAt
  <2>4. database'.applied = 1 .. j /\ database.applied = 1 .. k
    BY <1>6, <2>3, Version
  <2>5. \A e \in Daemon \ {d} : boot[e].pc # "step"
    BY <1>1, <2>1 DEF Schema!Commit, SchemaInv, OneAtATime, Schema!InTx
  <2> HIDE DEF was
  <2>6. boot'[d] = b /\ (\A e \in Daemon \ {d} : boot'[e] = boot[e])
        /\ boot' = [e \in Daemon |-> boot'[e]]
    BY <1>4 DEF SchemaInv
  <2>7. \A e \in Daemon : boot'[e].pc # "step" /\ Phase(boot'[e])
    BY <1>3, <2>5, <2>6 DEF SchemaInv
  <2>8. OneAtATime'
    BY <1>3, <1>4, <2>6 DEF SchemaInv, OneAtATime, Schema!InTx
  <2>9. SchemaInv'
    BY <1>4, <2>3, <2>6, <2>7, <2>8 DEF SchemaInv
  <2>10. Kept
    <3>1. 5 \in 1 .. k => k >= 5
      OBVIOUS
    <3>2. 5 \in 1 .. j => j >= 5
      OBVIOUS
    <3>3. k >= 5 /\ j >= 5 => \A c : Data(Merged(was, database), c) = Data(database, c)
      BY <1>7 DEF TxAt
    <3> QED
      BY <2>2, <2>4, <3>1, <3>2, <3>3 DEF Kept
  <2>11. Told
    <3> SUFFICES ASSUME NEW n \in (1 .. k) \ (1 .. j)
                 PROVE  was.pc = "step" /\ was.way = "down" /\ n > Target(was)
      BY <2>4 DEF Told, was
    <3>1. n \in j + 1 .. k /\ ~(k <= j)
      OBVIOUS
    <3>2. was.way # "up"
      BY <1>7, <3>1 DEF TxAt
    <3>3. was.way = "down"
      BY <1>1, <3>2 DEF Phase
    <3>4. n > Target(was)
      BY <1>7, <3>1, <3>2 DEF TxAt
    <3> QED
      BY <1>1, <3>3, <3>4
  <2> QED
    BY <2>9, <2>10, <2>11 DEF Moved
<1> QED
  BY <1>8, <1>9

LEMMA NextStepIs ==
  ASSUME database.rows[Runs] \subseteq Link, Bounded(database.rows[Runs])
  PROVE  \A c : Schema!NextStep(c) \in Nat
<1> SUFFICES ASSUME NEW c PROVE Schema!NextStep(c) \in Nat
  OBVIOUS
<1> DEFINE steps == {r.step : r \in {q \in database.rows[Runs] : q.id = c}}
<1>1. Schema!NextStep(c) = IF steps = {} THEN 0 ELSE Schema!Best(steps) + 1
  BY DEF Schema!NextStep, Runs
<1>2. \A r \in database.rows[Runs] : r.step \in Nat
  BY DEF Link
<1>3. steps \in SUBSET Nat
  BY <1>2
<1>4. PICK b \in Nat : \A n \in steps : n <= b
  BY DEF Bounded
<1> HIDE DEF steps
<1>5. steps # {} => Schema!Best(steps) \in steps
  BY <1>3, <1>4, GreatestIs
<1>6. CASE steps = {}
  BY <1>1, <1>6
<1>7. CASE steps # {}
  <2> DEFINE best == Schema!Best(steps)
  <2>1. best \in Nat
    BY <1>3, <1>5, <1>7
  <2> HIDE DEF best
  <2>2. best + 1 \in Nat
    BY <2>1
  <2> QED
    BY <1>1, <1>7, <2>2 DEF best
<1> QED
  BY <1>6, <1>7

LEMMA WriteHolds ==
  ASSUME SchemaInv, NEW d \in Daemon, Schema!Write(d) PROVE Moved
<1>1. PICK k \in 0 .. 7 : Good(database, k)
  BY DEF SchemaInv
<1>2. /\ database = [applied |-> 1 .. k, rows |-> database.rows] /\ database.applied = 1 .. k
      /\ database.rows = [u \in Schema!Tables |-> database.rows[u]]
      /\ \A u \in Schema!Tables : Shape(u, k, database.rows[u])
  BY <1>1, Version DEF Good
<1>3. boot[d].pc = "serving" /\ dialect' = dialect /\ boot' = boot /\ writes' = writes + 1
  BY DEF Schema!Write
<1>4. writes \in Nat /\ writes' \in Nat
  BY <1>3 DEF SchemaInv
<1>5. PICK t \in Schema!Tables :
        /\ database.rows[t] # Schema!Absent /\ ~Schema!Locked(d, t)
        /\ IF t # Runs THEN database' = Schema!Filled(t, {[id |-> "row"]})
           ELSE /\ 7 \in database.applied
                /\ \E c \in Channel, kind \in {"full", "delta"} :
                     database' = Schema!Filled(t, database.rows[t] \cup
                       {[id |-> c, kind |-> kind, step |-> Schema!NextStep(c), data |-> writes']})
  BY DEF Schema!Write, Runs
<1>6. Born(t) \in 1 .. 6 /\ ~(k < Born(t)) /\ (Born(t) = 5 <=> t = Runs)
  BY <1>2, <1>5, Birth, ShapesTell
<1>7. PICK s : database' = Schema!Filled(t, s) /\ Shape(t, k, s)
  <2>1. CASE t # Runs
    BY <1>5, <1>6, <2>1 DEF Shape
  <2>2. CASE t = Runs
    <3>1. k = 7
      BY <1>2, <1>5, <2>2
    <3>2. database.rows[t] \subseteq Link /\ Bounded(database.rows[t])
      BY <1>2, <1>6, <2>2, <3>1 DEF Shape
    <3>3. PICK c \in Channel, kind \in {"full", "delta"} :
            database' = Schema!Filled(t, database.rows[t] \cup
              {[id |-> c, kind |-> kind, step |-> Schema!NextStep(c), data |-> writes']})
      BY <1>5, <2>2
    <3>4. PICK n \in Nat : n = Schema!NextStep(c)
      BY <2>2, <3>2, NextStepIs
    <3>5. PICK row : row = [id |-> c, kind |-> kind, step |-> n, data |-> writes']
      OBVIOUS
    <3>6. writes' \in Int
      BY <1>4
    <3>7. row \in Link /\ row.step = n
      BY <3>5, <3>6 DEF Link
    <3>8. PICK more : more = database.rows[t] \cup {row}
      OBVIOUS
    <3>9. more \subseteq Link
      BY <3>2, <3>7, <3>8
    <3>10. Bounded(more)
      <4>1. PICK m \in Nat : \A r \in database.rows[t] : r.step <= m
        BY <3>2 DEF Bounded
      <4>2. PICK top \in Nat : m <= top /\ n <= top
        <5>1. m <= m + n /\ n <= m + n /\ m + n \in Nat
          OBVIOUS
        <5> QED
          BY <5>1
      <4>3. \A r \in database.rows[t] : r.step \in Nat
        BY <3>2 DEF Link
      <4>4. \A r \in database.rows[t] : r.step <= top
        BY <4>1, <4>2, <4>3
      <4>5. \A r \in more : r.step <= top
        BY <3>7, <3>8, <4>2, <4>4
      <4> QED
        BY <4>5 DEF Bounded
    <3>11. Shape(t, k, more)
      BY <1>6, <2>2, <3>1, <3>9, <3>10 DEF Shape
    <3>12. database' = Schema!Filled(t, more)
      BY <3>3, <3>4, <3>5, <3>8
    <3> QED
      BY <3>11, <3>12
  <2> QED
    BY <2>1, <2>2
<1>8. database' = [applied |-> 1 .. k,
                   rows |-> [u \in Schema!Tables |-> IF u = t THEN s ELSE database.rows[u]]]
  <2> DEFINE R == database.rows
  <2>1. database' = [database EXCEPT !.rows = [@ EXCEPT ![t] = s]]
    BY <1>7 DEF Schema!Filled
  <2>2. database = [applied |-> 1 .. k, rows |-> R] /\ R = [u \in Schema!Tables |-> R[u]]
    BY <1>2
  <2> HIDE DEF R
  <2>3. [R EXCEPT ![t] = s] = [u \in Schema!Tables |-> IF u = t THEN s ELSE R[u]]
    BY <2>2
  <2>4. database' = [applied |-> 1 .. k, rows |-> [R EXCEPT ![t] = s]]
    BY <2>1, <2>2
  <2> QED
    BY <2>3, <2>4 DEF R
<1>9. /\ database'.applied = 1 .. k /\ database'.rows[t] = s
      /\ \A u \in Schema!Tables \ {t} : database'.rows[u] = database.rows[u]
      /\ database' = [applied |-> 1 .. k, rows |-> database'.rows]
      /\ database'.rows = [u \in Schema!Tables |-> database'.rows[u]]
  BY <1>8
<1>10. Good(database', k)
  <2>1. \A u \in Schema!Tables : Shape(u, k, database'.rows[u])
    BY <1>2, <1>7, <1>9
  <2> QED
    BY <1>9, <2>1 DEF Good
<1>11. ASSUME NEW i \in 0 .. 7, Good(database', i), NEW e \in Daemon, boot[e].pc = "step"
       PROVE  Tx(boot[e], database', dialect, i)
  <2>1. i = k
    BY <1>9, <1>11, Version, OneVersion
  <2>2. PICK j \in 0 .. 7 : TxAt(boot[e], database, dialect, k, j)
    BY <1>1, <1>11 DEF SchemaInv, Tx
  <2>3. dialect # "sqlite" /\ dialect = "postgres"
    BY <1>5, <1>11 DEF Schema!Locked, SchemaInv
  <2>4. e # d
    BY <1>3, <1>11
  <2>5. t \notin boot[e].dirty
    BY <1>5, <1>11, <2>3, <2>4 DEF Schema!Locked, Schema!Blocked, Schema!Holds, Schema!Wrote
  <2>6. TxAt(boot[e], database', dialect, k, j)
    <3>1. Rewritten(database, database', k, t, s)
      BY <1>2, <1>7, <1>9 DEF Rewritten
    <3> QED
      BY <2>2, <2>3, <2>5, <3>1, TxKept
  <2> QED
    BY <2>1, <2>6 DEF Tx
<1>12. SchemaInv'
  BY <1>3, <1>4, <1>10, <1>11 DEF SchemaInv, OneAtATime, Schema!InTx
<1> QED
  BY <1>2, <1>9, <1>12, Unversioned

LEMMA SchemaHolds == ASSUME SchemaInv, [Schema!Next]_(Schema!vars) PROVE Moved
<1>1. ASSUME NEW d \in Daemon, NEW env, Schema!Start(d, env) PROVE Moved
  <2>1. PICK b : b = [pc |-> "begin", way |-> "up", env |-> env]
    OBVIOUS
  <2>2. b.pc = "begin" /\ b.way = "up"
    BY <2>1
  <2>3. boot' = [boot EXCEPT ![d] = b] /\ UNCHANGED <<dialect, database, writes>>
    BY <1>1, <2>1 DEF Schema!Start
  <2>4. Phase(b)
    BY <2>2 DEF Phase
  <2>5. SchemaInv'
    BY <2>2, <2>3, <2>4, Quiet
  <2> QED
    BY <2>3, <2>5, Unversioned
<1>2. ASSUME NEW d \in Daemon, Schema!Begin(d) PROVE Moved
  <2>1. PICK b : b = [pc |-> "read", way |-> boot[d].way, env |-> boot[d].env]
    OBVIOUS
  <2>2. b.pc = "read" /\ b.way = boot[d].way /\ b.env = boot[d].env
    BY <2>1
  <2>3. boot' = [boot EXCEPT ![d] = b] /\ UNCHANGED <<dialect, database, writes>>
    BY <1>2, <2>1 DEF Schema!Begin, SchemaInv
  <2>4. boot[d].pc = "begin" /\ Phase(boot[d])
    BY <1>2 DEF Schema!Begin, SchemaInv
  <2>5. Phase(b)
    BY <2>2, <2>4 DEF Phase, Target
  <2>6. dialect = "postgres" => \A e \in Daemon \ {d} : ~Schema!InTx(e)
    BY <1>2 DEF Schema!Begin
  <2>7. SchemaInv'
    BY <2>2, <2>3, <2>5, <2>6, Quiet
  <2> QED
    BY <2>3, <2>7, Unversioned
<1>3. ASSUME NEW d \in Daemon, NEW why \in {"busy", "off"}, Schema!Stop(d, why),
             UNCHANGED <<dialect, database, writes>>
      PROVE  Moved
  <2>1. PICK b : b = [pc |-> why]
    OBVIOUS
  <2>2. b.pc = why
    BY <2>1
  <2>3. boot' = [boot EXCEPT ![d] = b]
    BY <1>3, <2>1 DEF Schema!Stop
  <2>4. Phase(b)
    BY <2>2 DEF Phase
  <2>5. SchemaInv'
    BY <1>3, <2>2, <2>3, <2>4, Quiet
  <2> QED
    BY <1>3, <2>5, Unversioned
<1>4. ASSUME NEW d \in Daemon, Schema!ReadApplied(d) PROVE Moved
  BY <1>4, ReadHolds, Unversioned DEF Schema!ReadApplied
<1>5. ASSUME NEW d \in Daemon, Schema!Migrate(d) PROVE Moved
  BY <1>5, MigrateHolds, Unversioned DEF Schema!Migrate
<1>6. ASSUME NEW d \in Daemon, Schema!Busy(d) PROVE Moved
  BY <1>3, <1>6 DEF Schema!Busy
<1>7. ASSUME NEW d \in Daemon, Schema!Crash(d) PROVE Moved
  BY <1>3, <1>7 DEF Schema!Crash
<1>8. CASE UNCHANGED Schema!vars
  <2>1. /\ dialect' = dialect /\ database' = database /\ boot' = boot /\ writes' = writes
    BY <1>8 DEF Schema!vars
  <2>2. SchemaInv'
    BY <2>1 DEF SchemaInv, OneAtATime, Schema!InTx
  <2> QED
    BY <2>1, <2>2, Unversioned
<1> QED
  BY <1>1, <1>2, <1>4, <1>5, <1>6, <1>7, <1>8, CommitHolds, WriteHolds DEF Schema!Next

-----------------------------------------------------------------------------
(* What a daemon finds.                                                    *)

LEMMA FindsIt == ASSUME SchemaInv PROVE Schema!SchemaIsSound
<1>1. Schema!NoStatementFails
  BY DEF SchemaInv, Phase, Schema!NoStatementFails
<1>2. PICK k \in 0 .. 7 : Good(database, k)
  BY DEF SchemaInv
<1>3. database.applied = 1 .. k
  BY <1>2, Version
<1>4. ASSUME NEW t \in Schema!Tables
      PROVE  /\ (database.rows[t] # Schema!Absent) <=>
                  \E n \in database.applied : t \in Schema!Creates[n]
             /\ database.rows[t] # Schema!Absent =>
                  \A r \in database.rows[t] :
                    "kind" \in DOMAIN r <=> (t = "run_checkpoints" /\ 7 \in database.applied)
  <2>1. Shape(t, k, database.rows[t])
    BY <1>2 DEF Good
  <2>2. database.rows[t] = Schema!Absent <=> k < Born(t)
    BY <2>1, ShapesTell
  <2>3. Born(t) \in 1 .. 6 /\ \A n \in 1 .. 7 : t \in Schema!Creates[n] <=> n = Born(t)
    BY Birth
  <2>4. (\E n \in 1 .. k : t \in Schema!Creates[n]) <=> ~(k < Born(t))
    <3>1. \A n \in 1 .. k : n \in 1 .. 7
      OBVIOUS
    <3>2. Born(t) \in 1 .. k <=> ~(k < Born(t))
      BY <2>3
    <3> QED
      BY <2>3, <3>1, <3>2
  <2>5. k >= Born(t) => \A r \in database.rows[t] : "kind" \in DOMAIN r <=> (t = Runs /\ k = 7)
    BY <2>1, ShapesTell
  <2>6. (k >= Born(t) <=> ~(k < Born(t))) /\ (7 \in 1 .. k <=> k = 7)
    BY <2>3
  <2> QED
    BY <1>3, <2>2, <2>4, <2>5, <2>6 DEF Runs
<1> QED
  BY <1>1, <1>4 DEF Schema!SchemaIsSound, Schema!RecordMatchesTables

\* Whichever daemons boot together, roll back, die or are made to wait: the record
\* describes the tables, no statement fails, a migration that keeps the checkpoint
\* table keeps the last full row of every channel, and only what a daemon was told
\* to roll back is dropped.
THEOREM MigrationsAreSafe == Spec => MigratesSafely
<1>1. Init => SchemaInv
  BY SchemaStarts DEF Init
<1>2. SchemaInv /\ [Next]_vars => SchemaInv' /\ Kept /\ Told
  <2>1. [Next]_vars => [Schema!Next]_(Schema!vars)
    BY DEF Next, vars, schema, Schema!vars
  <2> QED
    BY <2>1, SchemaHolds DEF Moved
<1>3. SchemaInv => Schema!SchemaIsSound
  BY FindsIt
<1>4. Kept =>
        (database'.applied # database.applied /\ 5 \in database.applied /\ 5 \in database'.applied =>
           \A c \in Channel :
             {r.data : r \in Schema!LatestFull(database, c)} =
             {r.data : r \in Schema!LatestFull(database', c)})
  BY DEF Kept, Data
<1>5. Told =>
        \A n \in database.applied \ database'.applied :
          \E d \in Daemon : boot[d].pc = "step" /\ boot[d].way = "down" /\ n > Schema!Parsed(boot[d].env.down)
  BY DEF Told, Target
<1>6. Spec => []Schema!SchemaIsSound
  BY <1>1, <1>2, <1>3, PTL DEF Spec
<1>7. Spec => Schema!LastFullRowSurvives
  BY <1>1, <1>2, <1>4, PTL DEF Spec, Schema!LastFullRowSurvives
<1>8. Spec => Schema!OnlyAboveTheTarget
  BY <1>1, <1>2, <1>5, PTL DEF Spec, Schema!OnlyAboveTheTarget
<1> QED
  BY <1>6, <1>7, <1>8, PTL DEF MigratesSafely, Schema!MigratesSafely, Schema!DataSurvives

-----------------------------------------------------------------------------
(* The books: checkpoint rows.                                             *)

ACall ==
  [op : {"save"}, tenant : Tenant, id : Channel, row : Row]
  \cup [op : {"delete"}, tenant : Tenant, id : Channel]
  \cup [op : {"record"}, tenant : Tenant, usage : Books!Usage]

About(t, id) ==
  {i \in DOMAIN calls : calls[i].op # "record" /\ calls[i].tenant = t /\ calls[i].id = id}
Retained(t, id) == {i \in About(t, id) : \A j \in About(t, id) : calls[j].op = "delete" => j < i}

\* i is the nth of K.
Place(K, n, i) == i \in K /\ Cardinality({j \in K : j < i}) = n - 1

Entry == [kind : {row.kind : row \in Row}, baseCount : {row.baseCount : row \in Row},
          data : {row.data : row \in Row}, step : Nat]

\* An id's rows, in memory, are those saved since it was last deleted, in order; and in the
\* tables they are the same.
RowsAre(t, id) ==
  LET q == Books!RowsOf(t, id)
      K == Retained(t, id)
  IN /\ q \in Seq(Entry) /\ IsFiniteSet(K) /\ Len(q) = Cardinality(K)
     /\ \A n \in 1 .. Len(q) :
          \E i \in DOMAIN calls : Place(K, n, i) /\ q[n] = Books!Stepped(calls[i].row, n - 1)

LinesAre(t, id) ==
  LET q == Books!RowsOf(t, id)
  IN Books!OfId(t, id) = {Books!Line(t, id, q[n]) : n \in DOMAIN q}

CheckpointInv ==
  /\ calls \in Seq(ACall)
  /\ \A t \in Tenant, id \in Channel : RowsAre(t, id) /\ LinesAre(t, id)

LEMMA SteppedIs ==
  ASSUME NEW row \in Row, NEW n \in Nat
  PROVE  Books!Stepped(row, n) \in Entry /\ Books!Stepped(row, n).step = n
  BY DEF Books!Stepped, Entry

LEMMA LineIs ==
  ASSUME NEW e \in Entry, NEW t, NEW id
  PROVE  LET l == Books!Line(t, id, e) IN
         /\ l.step = e.step /\ l.tenant = t /\ l.id = id
         /\ Books!Selected(l) = e
  BY DEF Books!Line, Books!Selected, Books!Stepped, Entry

LEMMA Counting == ASSUME NEW S PROVE Books!Cardinality(S) = Cardinality(S)
  BY DEF Books!Cardinality, Cardinality, Books!IsFiniteSet, IsFiniteSet

\* At most one number is the nth, and the numbers below it stay below it.
LEMMA OnePlace ==
  ASSUME NEW K \in SUBSET Nat, IsFiniteSet(K), NEW n \in Nat \ {0},
         NEW i, NEW k, Place(K, n, i), Place(K, n, k)
  PROVE  i = k
<1> DEFINE below(x) == {j \in K : j < x}
<1>1. ASSUME NEW x \in K, NEW y \in K, x < y PROVE Cardinality(below(x)) < Cardinality(below(y))
  <2>1. IsFiniteSet(below(y)) /\ below(x) \subseteq below(y)
    <3>1. below(y) \subseteq K /\ \A j \in K : j < x => j < y
      BY <1>1
    <3> QED
      BY <3>1, FS_Subset
  <2>2. x \in below(y) /\ x \notin below(x)
    BY <1>1
  <2>3. below(x) # below(y)
    BY <2>2
  <2> HIDE DEF below
  <2> QED
    BY <2>1, <2>3, FS_Subset, FS_CardinalityType
<1>2. /\ i \in K /\ k \in K /\ Cardinality(below(i)) = n - 1 /\ Cardinality(below(k)) = n - 1
  BY DEF Place
<1>3. ~(i < k) /\ ~(k < i)
  BY <1>1, <1>2
<1> QED
  BY <1>2, <1>3

LEMMA NthIs ==
  ASSUME NEW K \in SUBSET Nat, IsFiniteSet(K), NEW n \in Nat \ {0}, NEW i, Place(K, n, i)
  PROVE  Books!Nth(K, n) = i
<1> DEFINE c == Books!Nth(K, n)
<1>1. Place(K, n, c)
  <2>1. \E x \in K : Books!Cardinality({j \in K : j < x}) = n - 1
    BY Counting DEF Place
  <2>2. c \in K /\ Books!Cardinality({j \in K : j < c}) = n - 1
    BY <2>1 DEF Books!Nth
  <2> QED
    BY <2>2, Counting DEF Place
<1> QED
  BY <1>1, OnePlace

LEMMA PlacesAfter ==
  ASSUME NEW K \in SUBSET Nat, IsFiniteSet(K), NEW x \in Nat, \A j \in K : j < x
  PROVE  /\ \A n, i : Place(K, n, i) => Place(K \cup {x}, n, i)
         /\ Place(K \cup {x}, Cardinality(K) + 1, x)
         /\ IsFiniteSet(K \cup {x}) /\ Cardinality(K \cup {x}) = Cardinality(K) + 1
<1>1. ASSUME NEW n, NEW i, Place(K, n, i) PROVE Place(K \cup {x}, n, i)
  <2>1. i \in K /\ i < x
    BY <1>1 DEF Place
  <2>2. {j \in K \cup {x} : j < i} = {j \in K : j < i}
    BY <2>1
  <2> QED
    BY <1>1, <2>2 DEF Place
<1>2. {j \in K \cup {x} : j < x} = K /\ x \notin K
  <2>1. \A j \in K : j < x /\ j \in Nat
    OBVIOUS
  <2>2. ~(x < x)
    OBVIOUS
  <2> QED
    BY <2>1, <2>2
<1>3. IsFiniteSet(K \cup {x}) /\ Cardinality(K \cup {x}) = Cardinality(K) + 1
  BY <1>2, FS_AddElement
<1>4. Cardinality(K) \in Nat
  BY FS_CardinalityType
<1>5. Place(K \cup {x}, Cardinality(K) + 1, x)
  <2>1. x \in K \cup {x} /\ Cardinality({j \in K \cup {x} : j < x}) = Cardinality(K)
    BY <1>2
  <2>2. (Cardinality(K) + 1) - 1 = Cardinality(K)
    BY <1>4
  <2> QED
    BY <2>1, <2>2 DEF Place
<1> QED
  BY <1>1, <1>3, <1>5


LEMMA KeptAfter ==
  ASSUME calls \in Seq(ACall), NEW c \in ACall, calls' = Append(calls, c), NEW t, NEW id
  PROVE  /\ Retained(t, id) \in SUBSET Nat /\ \A i \in Retained(t, id) : i < Len(calls) + 1
         /\ c.op = "save" /\ c.tenant = t /\ c.id = id =>
              Retained(t, id)' = Retained(t, id) \cup {Len(calls) + 1}
         /\ c.op = "delete" /\ c.tenant = t /\ c.id = id => Retained(t, id)' = {}
         /\ (c.op = "record" \/ c.tenant # t \/ c.id # id) => Retained(t, id)' = Retained(t, id)
<1> DEFINE n == Len(calls)
           Mine(x) == x.op # "record" /\ x.tenant = t /\ x.id = id
<1>1. /\ n \in Nat /\ DOMAIN calls = 1 .. n /\ DOMAIN calls' = 1 .. n + 1
      /\ calls'[n + 1] = c /\ \A i \in 1 .. n : calls'[i] = calls[i]
  OBVIOUS
<1>2. \A i : i \in About(t, id) <=> i \in 1 .. n /\ Mine(calls[i])
  BY <1>1 DEF About
<1>3. \A i : i \in About(t, id)' <=> i \in 1 .. n + 1 /\ Mine(calls'[i])
  BY <1>1 DEF About
<1>4. \A i : i \in Retained(t, id) <=>
        i \in About(t, id) /\ \A j \in About(t, id) : calls[j].op = "delete" => j < i
  BY DEF Retained
<1>5. \A i : i \in Retained(t, id)' <=>
        i \in About(t, id)' /\ \A j \in About(t, id)' : calls'[j].op = "delete" => j < i
  BY DEF Retained
<1> HIDE DEF n, Mine
<1>6. \A i : i \in 1 .. n + 1 <=> i \in 1 .. n \/ i = n + 1
  BY <1>1
<1>7. \A i \in 1 .. n : i \in Nat /\ i < n + 1 /\ ~(n + 1 < i)
  BY <1>1
<1>8. \A i : i \in About(t, id)' <=> i \in About(t, id) \/ (i = n + 1 /\ Mine(c))
  BY <1>1, <1>2, <1>3, <1>6, <1>7
<1>9. \A i \in About(t, id) : i \in 1 .. n /\ calls'[i] = calls[i]
  BY <1>1, <1>2
<1>10. Retained(t, id) \in SUBSET Nat /\ \A i \in Retained(t, id) : i < n + 1
  BY <1>4, <1>7, <1>9
<1>11. CASE Mine(c) /\ c.op = "save"
  <2>1. Retained(t, id)' = Retained(t, id) \cup {n + 1}
    <3>1. ASSUME NEW i PROVE i \in Retained(t, id)' <=> i \in Retained(t, id) \/ i = n + 1
      <4>1. \A j \in About(t, id)' : calls'[j].op = "delete" =>
              j \in About(t, id) /\ calls[j].op = "delete"
        BY <1>1, <1>8, <1>9, <1>11
      <4>2. \A j \in About(t, id) : calls[j].op = "delete" =>
              j \in About(t, id)' /\ calls'[j].op = "delete"
        BY <1>8, <1>9
      <4> QED
        BY <1>4, <1>5, <1>7, <1>8, <1>9, <1>11, <4>1, <4>2
    <3> QED
      BY <3>1
  <2> QED
    BY <1>10, <1>11, <2>1 DEF n, Mine
<1>12. CASE Mine(c) /\ c.op = "delete"
  <2>1. Retained(t, id)' = {}
    <3>1. n + 1 \in About(t, id)' /\ calls'[n + 1].op = "delete"
      BY <1>1, <1>8, <1>12
    <3>2. \A i \in About(t, id)' : ~(n + 1 < i)
      BY <1>1, <1>7, <1>8, <1>9
    <3> QED
      BY <1>5, <3>1, <3>2
  <2> QED
    BY <1>10, <1>12, <2>1 DEF n, Mine
<1>13. CASE ~Mine(c)
  <2>1. About(t, id)' = About(t, id)
    BY <1>8, <1>13
  <2>2. Retained(t, id)' = Retained(t, id)
    BY <1>4, <1>5, <1>9, <2>1
  <2> QED
    BY <1>10, <1>13, <2>2 DEF n, Mine
<1>14. Mine(c) => c.op = "save" \/ c.op = "delete"
  BY DEF Mine, ACall
<1> QED
  BY <1>11, <1>12, <1>13, <1>14

\* Another id's rows, and another tenant's of the same id, stay as they are.
LEMMA RowsStay ==
  ASSUME calls \in Seq(ACall), NEW c \in ACall, calls' = Append(calls, c), NEW t, NEW id,
         RowsAre(t, id), Books!RowsOf(t, id)' = Books!RowsOf(t, id), Retained(t, id)' = Retained(t, id)
  PROVE  RowsAre(t, id)'
<1>1. /\ DOMAIN calls \subseteq DOMAIN calls'
      /\ \A i \in DOMAIN calls : calls'[i] = calls[i]
  OBVIOUS
<1> QED
  BY <1>1 DEF RowsAre

LEMMA RowsGrow ==
  ASSUME calls \in Seq(ACall), NEW c \in ACall, calls' = Append(calls, c), NEW t, NEW id,
         c.op = "save", c.tenant = t, c.id = id, c.row \in Row, RowsAre(t, id),
         Books!RowsOf(t, id)'
           = Append(Books!RowsOf(t, id), Books!Stepped(c.row, Len(Books!RowsOf(t, id))))
  PROVE  RowsAre(t, id)'
<1> DEFINE q == Books!RowsOf(t, id)
           r == Books!RowsOf(t, id)'
           K == Retained(t, id)
           x == Len(calls) + 1
           e == Books!Stepped(c.row, Len(q))
<1>1. /\ q \in Seq(Entry) /\ IsFiniteSet(K) /\ Len(q) = Cardinality(K)
      /\ \A n \in 1 .. Len(q) :
           \E i \in DOMAIN calls : Place(K, n, i) /\ q[n] = Books!Stepped(calls[i].row, n - 1)
  BY DEF RowsAre
<1>2. K \in SUBSET Nat /\ (\A i \in K : i < x) /\ Retained(t, id)' = K \cup {x}
  BY KeptAfter
<1>3. x \in Nat /\ x \in DOMAIN calls' /\ calls'[x] = c
      /\ \A i \in DOMAIN calls : i \in DOMAIN calls' /\ calls'[i] = calls[i]
  OBVIOUS
<1>4. Len(q) \in Nat /\ e \in Entry
  BY <1>1, SteppedIs
<1>5. /\ r \in Seq(Entry) /\ Len(r) = Len(q) + 1 /\ r[Len(q) + 1] = e
      /\ \A n \in 1 .. Len(q) : r[n] = q[n]
  BY <1>1, <1>4
<1> HIDE DEF q, r, K, x
<1>6. /\ \A n, i : Place(K, n, i) => Place(K \cup {x}, n, i)
      /\ Place(K \cup {x}, Cardinality(K) + 1, x)
      /\ IsFiniteSet(K \cup {x}) /\ Cardinality(K \cup {x}) = Cardinality(K) + 1
  BY <1>1, <1>2, <1>3, PlacesAfter
<1>7. ASSUME NEW n \in 1 .. Len(r)
      PROVE  \E i \in DOMAIN calls' :
               Place(K \cup {x}, n, i) /\ r[n] = Books!Stepped(calls'[i].row, n - 1)
  <2>1. CASE n \in 1 .. Len(q)
    <3>1. PICK i \in DOMAIN calls : Place(K, n, i) /\ q[n] = Books!Stepped(calls[i].row, n - 1)
      BY <1>1, <2>1
    <3>2. i \in DOMAIN calls' /\ calls'[i] = calls[i] /\ r[n] = q[n]
      BY <1>3, <1>5, <2>1
    <3> QED
      BY <1>6, <3>1, <3>2
  <2>2. CASE n = Len(q) + 1
    <3>1. n - 1 = Len(q) /\ n = Cardinality(K) + 1
      BY <1>1, <1>4, <2>2
    <3>2. r[n] = Books!Stepped(calls'[x].row, n - 1)
      BY <1>3, <1>5, <2>2, <3>1
    <3> QED
      BY <1>3, <1>6, <3>1, <3>2
  <2>3. n \in 1 .. Len(q) \/ n = Len(q) + 1
    <3>1. Len(q) \in Nat /\ Len(r) = Len(q) + 1
      BY <1>4, <1>5
    <3> QED
      BY <3>1
  <2> QED
    BY <2>1, <2>2, <2>3
<1>8. Len(r) = Cardinality(K \cup {x})
  BY <1>1, <1>5, <1>6
<1> QED
  BY <1>2, <1>5, <1>6, <1>7, <1>8 DEF RowsAre, r

LEMMA RowsGo ==
  ASSUME NEW t, NEW id, Books!RowsOf(t, id)' = <<>>, Retained(t, id)' = {} PROVE RowsAre(t, id)'
  BY FS_EmptySet DEF RowsAre


\* The table numbers an id's rows as the memory does.
LEMMA StepsAre ==
  ASSUME NEW t, NEW id, RowsAre(t, id), LinesAre(t, id)
  PROVE  LET q == Books!RowsOf(t, id) IN
         /\ Len(q) \in Nat /\ q \in Seq(Entry) /\ \A n \in 1 .. Len(q) : q[n].step = n - 1
         /\ Books!Max(Books!StepsOf(t, id) \cup {-1}) + 1 = Len(q)
<1> DEFINE q == Books!RowsOf(t, id)
           S == Books!StepsOf(t, id) \cup {-1}
<1>1. q \in Seq(Entry) /\ Len(q) \in Nat /\ DOMAIN q = 1 .. Len(q)
  BY DEF RowsAre
<1>2. \A n \in 1 .. Len(q) : q[n].step = n - 1
  BY DEF RowsAre, Books!Stepped
<1>3. ASSUME NEW n \in 1 .. Len(q) PROVE Books!Line(t, id, q[n]).step = n - 1
  BY <1>2 DEF Books!Line
<1>4. \A s : s \in S <=> s = -1 \/ \E n \in 1 .. Len(q) : s = n - 1
  BY <1>1, <1>3 DEF Books!StepsOf, LinesAre
<1> HIDE DEF q, S
<1> DEFINE L == Len(q)
<1>5. L \in Nat /\ \A s : s \in S <=> s = -1 \/ \E n \in 1 .. L : s = n - 1
  BY <1>1, <1>4
<1> HIDE DEF L
<1>6. L - 1 \in S /\ \A s \in S : s \in Int /\ s <= L - 1
  <2>1. L - 1 \in S
    <3>1. L = 0 => L - 1 = -1
      BY <1>5
    <3>2. L # 0 => L \in 1 .. L
      BY <1>5
    <3> QED
      BY <1>5, <3>1, <3>2
  <2>2. ASSUME NEW s \in S PROVE s \in Int /\ s <= L - 1
    <3>1. CASE s = -1
      BY <1>5, <3>1
    <3>2. CASE \E n \in 1 .. L : s = n - 1
      BY <1>5, <3>2
    <3> QED
      BY <1>5, <3>1, <3>2
  <2> QED
    BY <2>1, <2>2
<1>7. Books!Max(S) = L - 1
  <2> DEFINE m == Books!Max(S)
  <2>1. \E x \in S : \A y \in S : x >= y
    BY <1>5, <1>6
  <2>2. m \in S /\ \A y \in S : m >= y
    BY <2>1 DEF Books!Max
  <2>3. m \in Int /\ m <= L - 1 /\ m >= L - 1
    BY <1>6, <2>2
  <2> HIDE DEF m
  <2>4. m = L - 1
    BY <1>5, <2>3
  <2> QED
    BY <2>4 DEF m
<1>8. Books!Max(S) + 1 = L
  BY <1>5, <1>7
<1> QED
  BY <1>1, <1>2, <1>8 DEF q, S, L

LEMMA LinesGrow ==
  ASSUME NEW t, NEW id, NEW row \in Row, RowsAre(t, id), LinesAre(t, id),
         Books!insertCheckpointRow(t, id, row),
         Books!RowsOf(t, id)'
           = Append(Books!RowsOf(t, id), Books!Stepped(row, Len(Books!RowsOf(t, id))))
  PROVE  LinesAre(t, id)'
<1> DEFINE q == Books!RowsOf(t, id)
           r == Books!RowsOf(t, id)'
           e == Books!Stepped(row, Len(q))
           l == Books!Line(t, id, e)
<1>1. /\ Len(q) \in Nat /\ q \in Seq(Entry)
      /\ Books!Max(Books!StepsOf(t, id) \cup {-1}) + 1 = Len(q)
  BY StepsAre
<1>2. run_checkpoints' = run_checkpoints \cup {l}
  BY <1>1 DEF Books!insertCheckpointRow
<1>3. l.tenant = t /\ l.id = id /\ e \in Entry
  BY <1>1, SteppedIs, LineIs
<1> HIDE DEF e
<1>4. /\ DOMAIN q = 1 .. Len(q) /\ DOMAIN r = 1 .. Len(q) + 1 /\ r[Len(q) + 1] = e
      /\ \A n \in 1 .. Len(q) : r[n] = q[n]
  BY <1>1, <1>3 DEF e
<1> HIDE DEF q, r
<1>5. Books!OfId(t, id)' = Books!OfId(t, id) \cup {l}
  BY <1>2, <1>3 DEF Books!OfId
<1>6. Books!OfId(t, id) = {Books!Line(t, id, q[n]) : n \in DOMAIN q}
  BY DEF LinesAre, q
<1>7. \A n : n \in DOMAIN r <=> n \in DOMAIN q \/ n = Len(q) + 1
  <2>1. Len(q) \in Nat
    BY <1>1
  <2> QED
    BY <1>4, <2>1
<1>8. Books!OfId(t, id)' = {Books!Line(t, id, r[n]) : n \in DOMAIN r}
  <2>1. ASSUME NEW y \in Books!OfId(t, id)' PROVE \E n \in DOMAIN r : y = Books!Line(t, id, r[n])
    <3>1. CASE y = l
      BY <1>4, <1>7, <3>1
    <3>2. CASE y \in Books!OfId(t, id)
      <4>1. PICK n \in DOMAIN q : y = Books!Line(t, id, q[n])
        BY <1>6, <3>2
      <4> QED
        BY <1>4, <1>7, <4>1
    <3> QED
      BY <1>5, <3>1, <3>2
  <2>2. ASSUME NEW n \in DOMAIN r PROVE Books!Line(t, id, r[n]) \in Books!OfId(t, id)'
    <3>1. CASE n = Len(q) + 1
      BY <1>4, <1>5, <3>1
    <3>2. CASE n \in DOMAIN q
      <4>1. Books!Line(t, id, q[n]) \in Books!OfId(t, id)
        BY <1>6, <3>2
      <4> QED
        BY <1>4, <1>5, <3>2, <4>1
    <3> QED
      BY <1>7, <3>1, <3>2
  <2> QED
    BY <2>1, <2>2
<1> QED
  BY <1>8 DEF LinesAre, r

LEMMA LinesStay ==
  ASSUME NEW t, NEW id, LinesAre(t, id), Books!OfId(t, id)' = Books!OfId(t, id),
         Books!RowsOf(t, id)' = Books!RowsOf(t, id)
  PROVE  LinesAre(t, id)'
  BY DEF LinesAre

\* A save, a delete and a record.
LEMMA SaveKeeps ==
  ASSUME Books!InputsKnown, CheckpointInv, NEW t \in Tenant, NEW id \in Channel, NEW row \in Row,
         Books!Save(t, id, row)
  PROVE  CheckpointInv'
<1> DEFINE c == [op |-> "save", tenant |-> t, id |-> id, row |-> row]
           q == Books!RowsOf(t, id)
<1>1. calls \in Seq(ACall) /\ \A u \in Tenant, d \in Channel : RowsAre(u, d) /\ LinesAre(u, d)
  BY DEF CheckpointInv
<1>2. c \in ACall /\ c.op = "save" /\ c.tenant = t /\ c.id = id /\ c.row = row
  BY DEF ACall
<1>3. calls' = Append(calls, c)
  BY DEF Books!Save, Books!Made
<1>4. calls' \in Seq(ACall)
  BY <1>1, <1>2, <1>3
<1>5. checkpoints' = Books!set(checkpoints, <<t, id>>, Append(q, Books!Stepped(row, Len(q))))
  BY DEF Books!Save, Books!appendCheckpointRow
<1>6. Books!insertCheckpointRow(t, id, row)
  BY DEF Books!Save
<1> HIDE DEF c
<1>7. ASSUME NEW u, NEW d, u # t \/ d # id
      PROVE  Books!RowsOf(u, d)' = Books!RowsOf(u, d) /\ Books!OfId(u, d)' = Books!OfId(u, d)
  <2>1. <<u, d>> # <<t, id>>
    BY <1>7
  <2>2. Books!RowsOf(u, d)' = Books!RowsOf(u, d)
    BY <1>5, <2>1 DEF Books!RowsOf, Books!set
  <2>3. Books!OfId(u, d)' = Books!OfId(u, d)
    BY <1>6, <1>7 DEF Books!OfId, Books!insertCheckpointRow, Books!Line
  <2> QED
    BY <2>2, <2>3
<1>8. Books!RowsOf(t, id)' = Append(q, Books!Stepped(row, Len(q)))
  BY <1>5 DEF Books!RowsOf, Books!set
<1>9. ASSUME NEW u \in Tenant, NEW d \in Channel PROVE RowsAre(u, d)' /\ LinesAre(u, d)'
  <2>1. CASE u = t /\ d = id
    <3>1. RowsAre(t, id)'
      BY <1>1, <1>2, <1>3, <1>8, RowsGrow
    <3>2. LinesAre(t, id)'
      BY <1>1, <1>6, <1>8, LinesGrow
    <3> QED
      BY <2>1, <3>1, <3>2
  <2>2. CASE u # t \/ d # id
    <3>1. Retained(u, d)' = Retained(u, d)
      BY <1>1, <1>2, <1>3, <2>2, KeptAfter
    <3>2. RowsAre(u, d)'
      BY <1>1, <1>2, <1>3, <1>7, <2>2, <3>1, RowsStay
    <3>3. LinesAre(u, d)'
      BY <1>1, <1>7, <2>2, LinesStay
    <3> QED
      BY <3>2, <3>3
  <2> QED
    BY <2>1, <2>2
<1> QED
  BY <1>4, <1>9 DEF CheckpointInv

LEMMA DeleteKeeps ==
  ASSUME CheckpointInv, NEW t \in Tenant, NEW id \in Channel, Books!Delete(t, id)
  PROVE  CheckpointInv'
<1> DEFINE c == [op |-> "delete", tenant |-> t, id |-> id]
<1>1. calls \in Seq(ACall) /\ \A u \in Tenant, d \in Channel : RowsAre(u, d) /\ LinesAre(u, d)
  BY DEF CheckpointInv
<1>2. c \in ACall /\ c.op = "delete" /\ c.tenant = t /\ c.id = id
  BY DEF ACall
<1>3. calls' = Append(calls, c)
  BY DEF Books!Delete, Books!Made
<1>4. calls' \in Seq(ACall)
  BY <1>1, <1>2, <1>3
<1>5. checkpoints' = [k \in DOMAIN checkpoints \ {<<t, id>>} |-> checkpoints[k]]
  BY DEF Books!Delete, Books!MemoryDelete
<1>6. run_checkpoints' = run_checkpoints \ Books!OfId(t, id)
  BY DEF Books!Delete, Books!TablesDelete
<1> HIDE DEF c
<1>7. ASSUME NEW u, NEW d, u # t \/ d # id
      PROVE  Books!RowsOf(u, d)' = Books!RowsOf(u, d) /\ Books!OfId(u, d)' = Books!OfId(u, d)
  <2>1. <<u, d>> # <<t, id>>
    BY <1>7
  <2>2. Books!RowsOf(u, d)' = Books!RowsOf(u, d)
    BY <1>5, <2>1 DEF Books!RowsOf
  <2>3. Books!OfId(u, d)' = Books!OfId(u, d)
    BY <1>6, <1>7 DEF Books!OfId
  <2> QED
    BY <2>2, <2>3
<1>8. Books!RowsOf(t, id)' = <<>> /\ Books!OfId(t, id)' = {}
  BY <1>5, <1>6 DEF Books!RowsOf, Books!OfId
<1>9. ASSUME NEW u \in Tenant, NEW d \in Channel PROVE RowsAre(u, d)' /\ LinesAre(u, d)'
  <2>1. CASE u = t /\ d = id
    <3>1. Retained(t, id)' = {}
      BY <1>1, <1>2, <1>3, KeptAfter
    <3>2. RowsAre(t, id)'
      BY <1>8, <3>1, RowsGo
    <3>3. LinesAre(t, id)'
      BY <1>8 DEF LinesAre
    <3> QED
      BY <2>1, <3>2, <3>3
  <2>2. CASE u # t \/ d # id
    <3>1. Retained(u, d)' = Retained(u, d)
      BY <1>1, <1>2, <1>3, <2>2, KeptAfter
    <3>2. RowsAre(u, d)'
      BY <1>1, <1>2, <1>3, <1>7, <2>2, <3>1, RowsStay
    <3>3. LinesAre(u, d)'
      BY <1>1, <1>7, <2>2, LinesStay
    <3> QED
      BY <3>2, <3>3
  <2> QED
    BY <2>1, <2>2
<1> QED
  BY <1>4, <1>9 DEF CheckpointInv

LEMMA RecordKeeps ==
  ASSUME CheckpointInv, NEW t \in Tenant, NEW u \in Books!Usage, Books!Record(t, u)
  PROVE  CheckpointInv'
<1> DEFINE c == [op |-> "record", tenant |-> t, usage |-> u]
<1>1. calls \in Seq(ACall) /\ \A v \in Tenant, d \in Channel : RowsAre(v, d) /\ LinesAre(v, d)
  BY DEF CheckpointInv
<1>2. c \in ACall /\ c.op = "record"
  BY DEF ACall
<1>3. calls' = Append(calls, c) /\ UNCHANGED <<checkpoints, run_checkpoints>>
  BY DEF Books!Record, Books!Made
<1>4. calls' \in Seq(ACall)
  BY <1>1, <1>2, <1>3
<1> HIDE DEF c
<1>5. ASSUME NEW v \in Tenant, NEW d \in Channel PROVE RowsAre(v, d)' /\ LinesAre(v, d)'
  <2>1. Retained(v, d)' = Retained(v, d)
    BY <1>1, <1>2, <1>3, KeptAfter
  <2>2. Books!RowsOf(v, d)' = Books!RowsOf(v, d) /\ Books!OfId(v, d)' = Books!OfId(v, d)
    BY <1>3 DEF Books!RowsOf, Books!OfId
  <2>3. RowsAre(v, d)'
    BY <1>1, <1>2, <1>3, <2>1, <2>2, RowsStay
  <2>4. LinesAre(v, d)'
    BY <1>1, <2>2, LinesStay
  <2> QED
    BY <2>3, <2>4
<1> QED
  BY <1>4, <1>5 DEF CheckpointInv


-----------------------------------------------------------------------------
(* The books: what calls cost.                                             *)

Recorded == {i \in DOMAIN calls : calls[i].op = "record"}
KeyAt(i) == Books!Key(calls[i].tenant, calls[i].usage)
Under(k) == {i \in Recorded : KeyAt(i) = k}
Spent(S) == UNION {{j} \X (1 .. calls[j].usage.tokens) : j \in S}

\* A bucket has what was recorded under its key, in the map and in the table.
BucketOf(i, tokens) ==
  [tenant |-> calls[i].tenant, day |-> calls[i].usage.day, agent |-> calls[i].usage.agent,
   model |-> calls[i].usage.model, tokens |-> tokens]

CostInv ==
  /\ calls \in Seq(ACall)
  /\ DOMAIN costUsage = {KeyAt(i) : i \in Recorded}
  /\ \A k : IsFiniteSet(Spent(Under(k)))
  /\ \A i \in Recorded :
       costUsage[KeyAt(i)] = BucketOf(i, Cardinality(Spent(Under(KeyAt(i)))))
  /\ daily_cost_buckets = {costUsage[k] : k \in DOMAIN costUsage}

\* Agents have no colon: joined names tell buckets apart.
LEMMA KeysTell ==
  ASSUME Books!InputsKnown, NEW t, NEW v, NEW u \in Books!Usage, NEW x \in Books!Usage,
         Books!Key(t, u) = Books!Key(v, x)
  PROVE  t = v /\ u.day = x.day /\ u.agent = x.agent /\ u.model = x.model
<1> DEFINE U == {t, v} \cup Day \cup STRING
           k(h, y) == Books!Key(h, y)
<1>1. ASSUME NEW h \in {t, v}, NEW y \in Books!Usage
      PROVE  /\ y.agent \in Seq(STRING) /\ Len(y.agent) = 1 /\ y.model \in Seq(STRING)
             /\ k(h, y)[1] = h /\ k(h, y)[2] = y.day /\ k(h, y)[3] = y.agent[1]
             /\ Len(k(h, y)) = 3 + Len(y.model)
             /\ \A n \in 1 .. Len(y.model) : k(h, y)[3 + n] = y.model[n]
  <2>1. /\ y.agent \in Seq(STRING) /\ Len(y.agent) = 1 /\ y.model \in Seq(STRING)
        /\ y.day \in Day
    BY DEF Books!InputsKnown, Books!Usage
  <2> DEFINE a == <<h, y.day>>
             b == a \o y.agent
             c == b \o y.model
  <2>2. a \in Seq(U) /\ Len(a) = 2 /\ a[1] = h /\ a[2] = y.day
    BY <2>1
  <2>3. y.agent \in Seq(U) /\ y.model \in Seq(U)
    BY <2>1
  <2> HIDE DEF a, U
  <2>4. /\ b \in Seq(U) /\ Len(b) = 3 /\ b[1] = h /\ b[2] = y.day /\ b[3] = y.agent[1]
    <3>1. /\ b \in Seq(U) /\ Len(b) = Len(a) + Len(y.agent)
          /\ \A n \in 1 .. Len(a) + Len(y.agent) :
               b[n] = IF n <= Len(a) THEN a[n] ELSE y.agent[n - Len(a)]
      BY <2>2, <2>3, ConcatProperties
    <3> HIDE DEF b
    <3>2. \A n \in 1 .. 3 : b[n] = IF n <= 2 THEN a[n] ELSE y.agent[n - 2]
      BY <2>1, <2>2, <3>1
    <3>3. b[1] = a[1] /\ b[2] = a[2] /\ b[3] = y.agent[1]
      BY <3>2
    <3> QED
      BY <2>1, <2>2, <3>1, <3>3
  <2> HIDE DEF b
  <2>5. /\ Len(c) = 3 + Len(y.model) /\ c[1] = h /\ c[2] = y.day /\ c[3] = y.agent[1]
        /\ \A n \in 1 .. Len(y.model) : c[3 + n] = y.model[n]
    <3> DEFINE l == Len(y.model)
    <3>1. /\ Len(c) = Len(b) + l
          /\ \A n \in 1 .. Len(b) + l : c[n] = IF n <= Len(b) THEN b[n] ELSE y.model[n - Len(b)]
      BY <2>3, <2>4, ConcatProperties
    <3>2. l \in Nat
      BY <2>1
    <3> HIDE DEF c, l
    <3>3. Len(c) = 3 + l /\ \A n \in 1 .. 3 + l : c[n] = IF n <= 3 THEN b[n] ELSE y.model[n - 3]
      BY <2>4, <3>1
    <3>4. c[1] = b[1] /\ c[2] = b[2] /\ c[3] = b[3]
      BY <3>2, <3>3
    <3>5. ASSUME NEW n \in 1 .. l PROVE c[3 + n] = y.model[n]
      <4>1. 3 + n \in 1 .. 3 + l /\ ~(3 + n <= 3) /\ (3 + n) - 3 = n
        BY <3>2
      <4> QED
        BY <3>3, <4>1
    <3> QED
      BY <2>4, <3>3, <3>4, <3>5 DEF l
  <2>6. k(h, y) = c
    BY DEF Books!Key, a, b
  <2> HIDE DEF c, k
  <2> QED
    BY <2>1, <2>5, <2>6
<1>2. k(t, u) = k(v, x)
  OBVIOUS
<1> HIDE DEF k
<1>3. t = v /\ u.day = x.day /\ u.agent[1] = x.agent[1]
  BY <1>1, <1>2
<1>4. u.agent = x.agent
  <2>1. /\ u.agent \in Seq(STRING) /\ x.agent \in Seq(STRING)
        /\ Len(u.agent) = 1 /\ Len(x.agent) = 1
    BY <1>1
  <2> QED
    BY <1>3, <2>1, SeqEqual
<1>5. u.model = x.model
  <2>1. u.model \in Seq(STRING) /\ x.model \in Seq(STRING)
    BY <1>1
  <2>2. Len(u.model) = Len(x.model)
    <3>1. 3 + Len(u.model) = 3 + Len(x.model)
      BY <1>1, <1>2
    <3>2. Len(u.model) \in Nat /\ Len(x.model) \in Nat
      BY <2>1
    <3> QED
      BY <3>1, <3>2
  <2>3. \A n \in 1 .. Len(u.model) : u.model[n] = x.model[n]
    <3> TAKE n \in 1 .. Len(u.model)
    <3>1. k(t, u)[3 + n] = u.model[n] /\ k(v, x)[3 + n] = x.model[n]
      BY <1>1, <2>2
    <3> QED
      BY <1>2, <3>1
  <2> QED
    BY <2>1, <2>2, <2>3, SeqEqual
<1> QED
  BY <1>3, <1>4, <1>5

\* What one call adds.
LEMMA TokensAre ==
  ASSUME NEW n, NEW m \in Nat
  PROVE  IsFiniteSet({n} \X (1 .. m)) /\ Cardinality({n} \X (1 .. m)) = m
<1>1. IsFiniteSet({n}) /\ Cardinality({n}) = 1
  BY FS_Singleton
<1>2. IsFiniteSet(1 .. m) /\ Cardinality(1 .. m) = m
  BY FS_Interval
<1>3. /\ IsFiniteSet({n} \X (1 .. m))
      /\ Cardinality({n} \X (1 .. m)) = Cardinality({n}) * Cardinality(1 .. m)
  BY <1>1, <1>2, FS_Product
<1> QED
  BY <1>1, <1>2, <1>3

LEMMA UsageIs ==
  ASSUME Books!InputsKnown, calls \in Seq(ACall), NEW i \in Recorded
  PROVE  calls[i].tenant \in Tenant /\ calls[i].usage \in Books!Usage /\ calls[i].usage.tokens \in Nat
<1>1. calls[i] \in ACall /\ calls[i].op = "record"
  BY DEF Recorded
<1>2. calls[i] \in [op : {"record"}, tenant : Tenant, usage : Books!Usage]
  BY <1>1 DEF ACall
<1>3. calls[i].usage.tokens \in Tokens
  BY <1>2 DEF Books!Usage
<1> QED
  BY <1>2, <1>3 DEF Books!InputsKnown

\* A record is one more under its key, and leaves the others.
LEMMA RecordedAfter ==
  ASSUME Books!InputsKnown, calls \in Seq(ACall), \A k : IsFiniteSet(Spent(Under(k))),
         NEW c \in ACall, c.op = "record", calls' = Append(calls, c),
         NEW n \in Nat, n = Len(calls) + 1
  PROVE  LET key == Books!Key(c.tenant, c.usage)
         IN /\ Recorded' = Recorded \cup {n} /\ n \notin Recorded
            /\ calls'[n] = c /\ \A i \in Recorded : calls'[i] = calls[i]
            /\ \A k : /\ IsFiniteSet(Spent(Under(k))')
                      /\ k # key => Cardinality(Spent(Under(k))') = Cardinality(Spent(Under(k)))
            /\ Cardinality(Spent(Under(key))') = Cardinality(Spent(Under(key))) + c.usage.tokens
<1> DEFINE key == Books!Key(c.tenant, c.usage)
           new == {n} \X (1 .. c.usage.tokens)
<1>1. /\ n \in Nat /\ n \notin DOMAIN calls /\ DOMAIN calls' = DOMAIN calls \cup {n}
      /\ calls'[n] = c /\ \A i \in DOMAIN calls : calls'[i] = calls[i]
  OBVIOUS
<1>2. Recorded' = Recorded \cup {n} /\ n \notin Recorded
  BY <1>1 DEF Recorded
<1>3. \A i \in Recorded : calls'[i] = calls[i]
  BY <1>1 DEF Recorded
<1>4. \A i \in Recorded : KeyAt(i)' = KeyAt(i)
  BY <1>3 DEF KeyAt
<1>5. KeyAt(n)' = key
  BY <1>1 DEF KeyAt
<1> HIDE DEF key
<1>6. ASSUME NEW k PROVE Under(k)' = IF k = key THEN Under(k) \cup {n} ELSE Under(k)
  BY <1>2, <1>4, <1>5 DEF Under
<1>7. ASSUME NEW k, k # key PROVE Spent(Under(k))' = Spent(Under(k))
  <2>1. Under(k)' = Under(k) /\ \A i \in Under(k) : calls'[i] = calls[i]
    BY <1>3, <1>6, <1>7 DEF Under
  <2> QED
    BY <2>1 DEF Spent
<1>8. Spent(Under(key))' = Spent(Under(key)) \cup new /\ Spent(Under(key)) \cap new = {}
  <2> DEFINE S == Under(key)
  <2>1. Under(key)' = S \cup {n} /\ n \notin S /\ \A i \in S : calls'[i] = calls[i]
    BY <1>2, <1>3, <1>6 DEF Under
  <2> HIDE DEF S
  <2>2. Spent(Under(key))' = UNION {{j} \X (1 .. calls'[j].usage.tokens) : j \in S \cup {n}}
    BY <2>1 DEF Spent
  <2>3. Spent(S) = UNION {{j} \X (1 .. calls[j].usage.tokens) : j \in S}
    BY DEF Spent
  <2>4. new = {n} \X (1 .. calls'[n].usage.tokens)
    BY <1>1
  <2> DEFINE old(j) == {j} \X (1 .. calls[j].usage.tokens)
             later(j) == {j} \X (1 .. calls'[j].usage.tokens)
  <2>7. \A j \in S : later(j) = old(j)
    BY <2>1
  <2>8. later(n) = new /\ \A y \in new : y[1] = n
    BY <2>4
  <2>9. \A j : \A y \in old(j) : y[1] = j
    OBVIOUS
  <2> HIDE DEF old, later, new
  <2>10. \A y : y \in Spent(Under(key))' <=> \E j \in S \cup {n} : y \in later(j)
    BY <2>2 DEF later
  <2>11. \A y : y \in Spent(S) <=> \E j \in S : y \in old(j)
    BY <2>3 DEF old
  <2>5. ASSUME NEW y PROVE y \in Spent(Under(key))' <=> y \in Spent(S) \/ y \in new
    BY <2>7, <2>8, <2>10, <2>11
  <2>6. ASSUME NEW y \in Spent(S), y \in new PROVE FALSE
    BY <2>1, <2>6, <2>8, <2>9, <2>11
  <2> QED
    BY <2>5, <2>6 DEF S
<1>9. c.usage.tokens \in Nat
  <2>1. c \in [op : {"record"}, tenant : Tenant, usage : Books!Usage]
    BY DEF ACall
  <2>2. c.usage.tokens \in Tokens
    BY <2>1 DEF Books!Usage
  <2> QED
    BY <2>2 DEF Books!InputsKnown
<1>10. IsFiniteSet(new) /\ Cardinality(new) = c.usage.tokens
  BY <1>9, TokensAre
<1> HIDE DEF new
<1>11. /\ IsFiniteSet(Spent(Under(key))')
       /\ Cardinality(Spent(Under(key))') = Cardinality(Spent(Under(key))) + c.usage.tokens
  <2>1. IsFiniteSet(Spent(Under(key)))
    OBVIOUS
  <2>2. /\ IsFiniteSet(Spent(Under(key)) \cup new)
        /\ Cardinality(Spent(Under(key)) \cup new) =
             Cardinality(Spent(Under(key))) + Cardinality(new) - Cardinality({})
    BY <1>8, <1>10, <2>1, FS_Union
  <2>3. Cardinality(Spent(Under(key))) \in Nat /\ Cardinality({}) = 0
    BY <2>1, FS_CardinalityType, FS_EmptySet
  <2> QED
    BY <1>8, <1>9, <1>10, <2>2, <2>3
<1>12. ASSUME NEW k
       PROVE  /\ IsFiniteSet(Spent(Under(k))')
              /\ k # key => Cardinality(Spent(Under(k))') = Cardinality(Spent(Under(k)))
  BY <1>7, <1>11
<1> QED
  BY <1>1, <1>2, <1>3, <1>11, <1>12 DEF key


\* The row of a bucket, by its key and by its columns.
LEMMA BucketsAre ==
  ASSUME Books!InputsKnown, CostInv, NEW k \in DOMAIN costUsage
  PROVE  /\ \E i \in Recorded :
              KeyAt(i) = k /\ costUsage[k] = BucketOf(i, Cardinality(Spent(Under(k))))
         /\ \A t \in Tenant, u \in Books!Usage :
              (/\ costUsage[k].tenant = t /\ costUsage[k].day = u.day
               /\ costUsage[k].agent = u.agent /\ costUsage[k].model = u.model)
                <=> k = Books!Key(t, u)
<1>1. PICK i \in Recorded : KeyAt(i) = k
  BY DEF CostInv
<1>2. costUsage[k] = BucketOf(i, Cardinality(Spent(Under(k))))
  BY <1>1 DEF CostInv
<1>3. ASSUME NEW t \in Tenant, NEW u \in Books!Usage
      PROVE  (/\ costUsage[k].tenant = t /\ costUsage[k].day = u.day
              /\ costUsage[k].agent = u.agent /\ costUsage[k].model = u.model)
               <=> k = Books!Key(t, u)
  <2>1. /\ costUsage[k].tenant = calls[i].tenant /\ costUsage[k].day = calls[i].usage.day
        /\ costUsage[k].agent = calls[i].usage.agent /\ costUsage[k].model = calls[i].usage.model
    BY <1>2 DEF BucketOf
  <2>2. calls[i].usage \in Books!Usage
    BY UsageIs DEF CostInv
  <2>3. k = Books!Key(calls[i].tenant, calls[i].usage)
    BY <1>1 DEF KeyAt
  <2>4. ASSUME k = Books!Key(t, u)
        PROVE  /\ calls[i].tenant = t /\ calls[i].usage.day = u.day
               /\ calls[i].usage.agent = u.agent /\ calls[i].usage.model = u.model
    <3>1. Books!Key(calls[i].tenant, calls[i].usage) = Books!Key(t, u)
      BY <2>3, <2>4
    <3> QED
      BY <2>2, <3>1, KeysTell
  <2>5. ASSUME /\ calls[i].tenant = t /\ calls[i].usage.day = u.day
               /\ calls[i].usage.agent = u.agent /\ calls[i].usage.model = u.model
        PROVE  k = Books!Key(t, u)
    BY <2>3, <2>5 DEF Books!Key
  <2> QED
    BY <2>1, <2>4, <2>5
<1> QED
  BY <1>1, <1>2, <1>3

LEMMA RecordCounts ==
  ASSUME Books!InputsKnown, CostInv, NEW t \in Tenant, NEW u \in Books!Usage, Books!Record(t, u),
         NEW k, k = Books!Key(t, u), NEW n, n = Len(calls) + 1, NEW row,
         row = IF k \in DOMAIN costUsage
               THEN [costUsage[k] EXCEPT !.tokens = costUsage[k].tokens + u.tokens]
               ELSE Books!Bucket(t, u)
  PROVE  CostInv'
<1> DEFINE c == [op |-> "record", tenant |-> t, usage |-> u]
           total == Cardinality(Spent(Under(k)))'
<1>1. calls \in Seq(ACall) /\ \A x : IsFiniteSet(Spent(Under(x)))
  BY DEF CostInv
<1>2. c \in ACall /\ c.op = "record" /\ c.tenant = t /\ c.usage = u
  BY DEF ACall
<1>3. calls' = Append(calls, c)
  BY DEF Books!Record, Books!Made
<1>4. calls' \in Seq(ACall) /\ n \in Nat
  BY <1>1, <1>2, <1>3
<1>5. costUsage' = Books!set(costUsage, k, row)
  BY DEF Books!Record, Books!MemoryRecord
<1> HIDE DEF c
<1>6. /\ Recorded' = Recorded \cup {n} /\ n \notin Recorded
      /\ calls'[n] = c /\ \A i \in Recorded : calls'[i] = calls[i]
      /\ \A x : /\ IsFiniteSet(Spent(Under(x)))'
                /\ x # k => Cardinality(Spent(Under(x)))' = Cardinality(Spent(Under(x)))
      /\ total = Cardinality(Spent(Under(k))) + u.tokens
  BY <1>1, <1>2, <1>3, <1>4, RecordedAfter
<1> HIDE DEF total
<1>7. KeyAt(n)' = k /\ \A i \in Recorded : KeyAt(i)' = KeyAt(i)
  BY <1>2, <1>6 DEF KeyAt
<1>8. row = [tenant |-> t, day |-> u.day, agent |-> u.agent, model |-> u.model, tokens |-> total]
  <2>1. CASE k \in DOMAIN costUsage
    <3>1. PICK i \in Recorded :
            KeyAt(i) = k /\ costUsage[k] = BucketOf(i, Cardinality(Spent(Under(k))))
      BY <2>1, BucketsAre
    <3>2. /\ costUsage[k].tenant = t /\ costUsage[k].day = u.day
          /\ costUsage[k].agent = u.agent /\ costUsage[k].model = u.model
      BY <2>1, BucketsAre
    <3>3. costUsage[k] = [tenant |-> t, day |-> u.day, agent |-> u.agent, model |-> u.model,
                          tokens |-> Cardinality(Spent(Under(k)))]
      BY <3>1, <3>2 DEF BucketOf
    <3> QED
      BY <1>6, <2>1, <3>3
  <2>2. CASE k \notin DOMAIN costUsage
    <3>1. Under(k) = {}
      BY <2>2 DEF CostInv, Under
    <3>2. Spent(Under(k)) = {}
      BY <3>1 DEF Spent
    <3>3. u.tokens \in Nat
      BY DEF Books!InputsKnown, Books!Usage
    <3>4. total = u.tokens
      BY <1>6, <3>2, <3>3, FS_EmptySet
    <3> QED
      BY <2>2, <3>4 DEF Books!Bucket
  <2> QED
    BY <2>1, <2>2
<1>9. /\ DOMAIN costUsage' = DOMAIN costUsage \cup {k} /\ costUsage'[k] = row
      /\ \A x \in DOMAIN costUsage : x # k => costUsage'[x] = costUsage[x]
  BY <1>5 DEF Books!set
<1>10. DOMAIN costUsage' = {KeyAt(i) : i \in Recorded}'
  <2>1. DOMAIN costUsage = {KeyAt(i) : i \in Recorded}
    BY DEF CostInv
  <2>2. ASSUME NEW x PROVE x \in DOMAIN costUsage' <=> x \in {KeyAt(i) : i \in Recorded}'
    BY <1>6, <1>7, <1>9, <2>1
  <2> QED
    BY <2>2
<1>11. ASSUME NEW i \in Recorded', NEW y, y = KeyAt(i)'
       PROVE  costUsage'[y] = BucketOf(i, Cardinality(Spent(Under(y))))'
  <2>1. CASE i = n
    <3>1. y = k /\ calls'[i].tenant = t /\ calls'[i].usage = u
      BY <1>2, <1>6, <1>7, <1>11, <2>1
    <3> QED
      BY <1>8, <1>9, <3>1 DEF BucketOf, total
  <2>2. CASE i \in Recorded /\ y = k
    <3>1. KeyAt(i) = k /\ calls'[i] = calls[i]
      BY <1>6, <1>7, <1>11, <2>2
    <3>2. Books!Key(calls[i].tenant, calls[i].usage) = Books!Key(t, u)
      BY <3>1 DEF KeyAt
    <3>3. calls[i].usage \in Books!Usage
      BY <1>1, <2>2, UsageIs
    <3>4. /\ calls[i].tenant = t /\ calls[i].usage.day = u.day
          /\ calls[i].usage.agent = u.agent /\ calls[i].usage.model = u.model
      BY <3>2, <3>3, KeysTell
    <3> QED
      BY <1>8, <1>9, <2>2, <3>1, <3>4 DEF BucketOf, total
  <2>3. CASE i \in Recorded /\ y # k
    <3>1. KeyAt(i) = y /\ calls'[i] = calls[i] /\ y \in DOMAIN costUsage
      BY <1>6, <1>7, <1>11, <2>3 DEF CostInv
    <3>2. costUsage[y] = BucketOf(i, Cardinality(Spent(Under(y))))
      BY <2>3, <3>1 DEF CostInv
    <3>3. Cardinality(Spent(Under(y)))' = Cardinality(Spent(Under(y)))
      BY <1>6, <2>3
    <3> QED
      BY <1>9, <2>3, <3>1, <3>2, <3>3 DEF BucketOf
  <2> QED
    BY <1>6, <2>1, <2>2, <2>3
<1>12. daily_cost_buckets' = {costUsage'[x] : x \in DOMAIN costUsage'}
  <2> DEFINE at == {r \in daily_cost_buckets :
                      r.tenant = t /\ r.day = u.day /\ r.agent = u.agent /\ r.model = u.model}
             rest == {costUsage[x] : x \in DOMAIN costUsage \ {k}}
  <2>1. daily_cost_buckets = {costUsage[x] : x \in DOMAIN costUsage}
    BY DEF CostInv
  <2>2. daily_cost_buckets' = (daily_cost_buckets \ at)
          \cup (IF at = {} THEN {Books!Bucket(t, u)} ELSE {Books!Added(r, u) : r \in at})
    BY DEF Books!Record, Books!TablesRecord
  <2>3. \A x \in DOMAIN costUsage : costUsage[x] \in at <=> x = k
    BY <2>1, BucketsAre
  <2>4. /\ daily_cost_buckets \ at = rest
        /\ k \in DOMAIN costUsage => at = {costUsage[k]}
        /\ k \notin DOMAIN costUsage => at = {}
    <3> HIDE DEF at
    <3>1. \A r \in at : r \in daily_cost_buckets
      BY DEF at
    <3> QED
      BY <2>1, <2>3, <3>1
  <2> HIDE DEF at
  <2>5. daily_cost_buckets' = rest \cup {row}
    <3>1. CASE k \in DOMAIN costUsage
      <4>1. row = Books!Added(costUsage[k], u)
        BY <3>1 DEF Books!Added
      <4> QED
        BY <2>2, <2>4, <3>1, <4>1
    <3>2. CASE k \notin DOMAIN costUsage
      BY <2>2, <2>4, <3>2
    <3> QED
      BY <3>1, <3>2
  <2> QED
    BY <1>9, <2>5
<1> QED
  BY <1>4, <1>6, <1>10, <1>11, <1>12 DEF CostInv

\* A save and a delete leave what was recorded.
LEMMA OthersCount ==
  ASSUME CostInv, NEW c \in ACall, c.op # "record", calls' = Append(calls, c),
         UNCHANGED <<costUsage, daily_cost_buckets>>
  PROVE  CostInv'
<1>1. calls \in Seq(ACall)
  BY DEF CostInv
<1>2. /\ calls' \in Seq(ACall) /\ Recorded' = Recorded
      /\ \A i \in Recorded : calls'[i] = calls[i]
  <2>1. /\ calls' \in Seq(ACall) /\ DOMAIN calls' = DOMAIN calls \cup {Len(calls) + 1}
        /\ calls'[Len(calls) + 1] = c /\ \A i \in DOMAIN calls : calls'[i] = calls[i]
    BY <1>1
  <2> QED
    BY <2>1 DEF Recorded
<1>3. \A i \in Recorded : KeyAt(i)' = KeyAt(i)
  BY <1>2 DEF KeyAt
<1>4. ASSUME NEW k PROVE Under(k)' = Under(k) /\ Spent(Under(k))' = Spent(Under(k))
  <2>1. Under(k)' = Under(k)
    BY <1>2, <1>3 DEF Under
  <2>2. \A j \in Under(k) : calls'[j] = calls[j]
    BY <1>2 DEF Under
  <2> QED
    BY <2>1, <2>2 DEF Spent
<1>5. DOMAIN costUsage' = {KeyAt(i) : i \in Recorded}'
  BY <1>2, <1>3 DEF CostInv
<1>6. ASSUME NEW i \in Recorded', NEW y, y = KeyAt(i)'
      PROVE  costUsage'[y] = BucketOf(i, Cardinality(Spent(Under(y))))'
  <2>1. i \in Recorded /\ calls'[i] = calls[i] /\ y = KeyAt(i)
    BY <1>2, <1>3, <1>6
  <2>2. costUsage[y] = BucketOf(i, Cardinality(Spent(Under(y))))
    BY <2>1 DEF CostInv
  <2>3. Cardinality(Spent(Under(y)))' = Cardinality(Spent(Under(y)))
    BY <1>4
  <2> QED
    BY <2>1, <2>2, <2>3 DEF BucketOf
<1>7. \A k : IsFiniteSet(Spent(Under(k)))'
  BY <1>4 DEF CostInv
<1>8. daily_cost_buckets' = {costUsage'[k] : k \in DOMAIN costUsage'}
  BY DEF CostInv
<1> QED
  BY <1>2, <1>5, <1>6, <1>7, <1>8 DEF CostInv

BooksInv == CheckpointInv /\ CostInv

LEMMA BooksOpen == ASSUME Books!Init PROVE BooksInv
<1>1. /\ checkpoints = <<>> /\ costUsage = <<>> /\ run_checkpoints = {}
      /\ daily_cost_buckets = {} /\ calls = <<>>
  BY DEF Books!Init
<1>2. calls \in Seq(ACall) /\ DOMAIN calls = {} /\ DOMAIN costUsage = {} /\ DOMAIN checkpoints = {}
  BY <1>1
<1>3. ASSUME NEW t, NEW id PROVE RowsAre(t, id) /\ LinesAre(t, id)
  <2>1. Books!RowsOf(t, id) = <<>> /\ Books!OfId(t, id) = {} /\ Retained(t, id) = {}
    BY <1>1, <1>2 DEF Books!RowsOf, Books!OfId, Retained, About
  <2> QED
    BY <2>1, FS_EmptySet DEF RowsAre, LinesAre
<1>4. Recorded = {} /\ \A k : Spent(Under(k)) = {}
  BY <1>2 DEF Recorded, Under, Spent
<1>5. IsFiniteSet({})
  BY FS_EmptySet
<1> QED
  BY <1>1, <1>2, <1>3, <1>4, <1>5 DEF BooksInv, CheckpointInv, CostInv

LEMMA BooksStep == ASSUME BooksInv, Books!Next PROVE BooksInv'
<1>1. Books!InputsKnown
  BY InputsOfBooks
<1>2. ASSUME NEW t \in Tenant, NEW id \in Channel, NEW row \in Row, Books!Save(t, id, row)
      PROVE  BooksInv'
  <2>1. CheckpointInv'
    BY <1>1, <1>2, SaveKeeps DEF BooksInv
  <2> DEFINE c == [op |-> "save", tenant |-> t, id |-> id, row |-> row]
  <2>2. /\ c \in ACall /\ c.op # "record" /\ calls' = Append(calls, c)
        /\ UNCHANGED <<costUsage, daily_cost_buckets>>
    BY <1>2 DEF ACall, Books!Save, Books!Made
  <2>3. CostInv'
    BY <2>2, OthersCount DEF BooksInv
  <2> QED
    BY <2>1, <2>3 DEF BooksInv
<1>3. ASSUME NEW t \in Tenant, NEW id \in Channel, Books!Delete(t, id) PROVE BooksInv'
  <2>1. CheckpointInv'
    BY <1>3, DeleteKeeps DEF BooksInv
  <2> DEFINE c == [op |-> "delete", tenant |-> t, id |-> id]
  <2>2. /\ c \in ACall /\ c.op # "record" /\ calls' = Append(calls, c)
        /\ UNCHANGED <<costUsage, daily_cost_buckets>>
    BY <1>3 DEF ACall, Books!Delete, Books!Made
  <2>3. CostInv'
    BY <2>2, OthersCount DEF BooksInv
  <2> QED
    BY <2>1, <2>3 DEF BooksInv
<1>4. ASSUME NEW t \in Tenant, NEW u \in Books!Usage, Books!Record(t, u) PROVE BooksInv'
  <2>1. CheckpointInv'
    BY <1>4, RecordKeeps DEF BooksInv
  <2>2. CostInv'
    BY <1>1, <1>4, RecordCounts DEF BooksInv
  <2> QED
    BY <2>1, <2>2 DEF BooksInv
<1> QED
  BY <1>2, <1>3, <1>4 DEF Books!Next

LEMMA BooksUntouched == ASSUME BooksInv, UNCHANGED ledger PROVE BooksInv'
<1>1. UNCHANGED <<checkpoints, costUsage, run_checkpoints, daily_cost_buckets, calls>>
  BY DEF ledger
<1>2. ASSUME NEW t, NEW id PROVE RowsAre(t, id)' <=> RowsAre(t, id)
  BY <1>1 DEF RowsAre, Retained, About, Books!RowsOf
<1>3. ASSUME NEW t, NEW id PROVE LinesAre(t, id)' <=> LinesAre(t, id)
  BY <1>1 DEF LinesAre, Books!OfId, Books!RowsOf
<1>4. CheckpointInv' <=> CheckpointInv
  BY <1>1, <1>2, <1>3 DEF CheckpointInv
<1>5. CostInv' <=> CostInv
  BY <1>1 DEF CostInv, Recorded, KeyAt, Under, Spent, BucketOf
<1> QED
  BY <1>4, <1>5 DEF BooksInv


\* Lines numbered from zero: how many there are, and how many come before one.
LEMMA Numbered ==
  ASSUME NEW N \in Nat, NEW f, \A n \in 1 .. N : f[n].step = n - 1
  PROVE  \A k \in 0 .. N : Cardinality({f[n] : n \in 1 .. k}) = k
<1> SUFFICES ASSUME NEW k \in 0 .. N PROVE Cardinality({f[n] : n \in 1 .. k}) = k
  OBVIOUS
<1> DEFINE T == {f[n] : n \in 1 .. k}
           g == [n \in 1 .. k |-> f[n]]
<1>1. \A n, m \in 1 .. k : f[n] = f[m] => n = m
  <2>1. \A n \in 1 .. k : n \in Nat /\ f[n].step = n - 1
    OBVIOUS
  <2>2. ASSUME NEW n \in 1 .. k, NEW m \in 1 .. k, f[n] = f[m] PROVE n = m
    <3>1. n - 1 = m - 1 /\ n \in Nat /\ m \in Nat
      BY <2>1, <2>2
    <3> QED
      BY <3>1
  <2> QED
    BY <2>2
<1>2. g \in Bijection(1 .. k, T)
  <2>1. g \in [1 .. k -> T] /\ \A y \in T : \E n \in 1 .. k : g[n] = y
    OBVIOUS
  <2>2. \A n, m \in DOMAIN g : g[n] = g[m] => n = m
    BY <1>1
  <2> HIDE DEF T, g
  <2> QED
    BY <2>1, <2>2 DEF Bijection, Injection, IsInjective, Surjection
<1>3. ExistsBijection(1 .. k, T)
  BY <1>2 DEF ExistsBijection
<1>4. IsFiniteSet(1 .. k) /\ Cardinality(1 .. k) = k
  <2>1. k \in Nat
    OBVIOUS
  <2>2. /\ IsFiniteSet(1 .. k)
        /\ Cardinality(1 .. k) = IF 1 > k THEN 0 ELSE k - 1 + 1
    BY <2>1, FS_Interval
  <2> QED
    BY <2>1, <2>2
<1> HIDE DEF T
<1>5. Cardinality(T) = Cardinality(1 .. k)
  BY <1>3, <1>4, FS_Bijection
<1> QED
  BY <1>4, <1>5 DEF T

\* The rows in memory are those the contract expects.
LEMMA RowsAgree ==
  ASSUME CheckpointInv, NEW t \in Tenant, NEW id \in Channel
  PROVE  Books!SavedSince(t, id) = Books!RowsOf(t, id)
<1> DEFINE q == Books!RowsOf(t, id)
           K == Retained(t, id)
           r == [n \in 1 .. Cardinality(K) |->
                   Books!Stepped(calls[Books!Nth(K, n)].row, n - 1)]
<1>1. /\ q \in Seq(Entry) /\ IsFiniteSet(K) /\ Len(q) = Cardinality(K)
      /\ \A n \in 1 .. Len(q) :
           \E i \in DOMAIN calls : Place(K, n, i) /\ q[n] = Books!Stepped(calls[i].row, n - 1)
  BY DEF CheckpointInv, RowsAre
<1>2. K \in SUBSET Nat
  BY DEF Retained, About, CheckpointInv
<1>3. Books!SavedSince(t, id) = r
  BY Counting DEF Books!SavedSince, Retained, About
<1> HIDE DEF K
<1>4. \A n \in 1 .. Len(q) : r[n] = q[n]
  <2> TAKE n \in 1 .. Len(q)
  <2>1. PICK i \in DOMAIN calls : Place(K, n, i) /\ q[n] = Books!Stepped(calls[i].row, n - 1)
    BY <1>1
  <2>2. n \in Nat \ {0}
    BY <1>1
  <2>3. Books!Nth(K, n) = i
    BY <1>1, <1>2, <2>1, <2>2, NthIs
  <2> QED
    BY <1>1, <2>1, <2>3
<1>5. DOMAIN r = DOMAIN q /\ DOMAIN q = 1 .. Len(q)
  BY <1>1
<1> HIDE DEF q
<1>6. r = q
  <2>1. q = [n \in DOMAIN q |-> q[n]]
    BY <1>1
  <2>2. r = [n \in DOMAIN r |-> r[n]]
    OBVIOUS
  <2> HIDE DEF r
  <2> QED
    BY <1>4, <1>5, <2>1, <2>2
<1> QED
  BY <1>3, <1>6 DEF q

\* And so are the rows of the table, read in the order of their steps.
LEMMA LinesAgree ==
  ASSUME CheckpointInv, NEW t \in Tenant, NEW id \in Channel
  PROVE  Books!InOrder(t, id) = Books!RowsOf(t, id)
<1> DEFINE q == Books!RowsOf(t, id)
           N == Len(q)
           L == Books!OfId(t, id)
           f == [n \in 1 .. N |-> Books!Line(t, id, q[n])]
           nth(n) == CHOOSE r \in L : Books!Cardinality({x \in L : x.step < r.step}) = n - 1
           o == [n \in 1 .. Books!Cardinality(L) |-> Books!Selected(nth(n))]
<1>1. RowsAre(t, id) /\ LinesAre(t, id)
  BY DEF CheckpointInv
<1>2. N \in Nat /\ q \in Seq(Entry) /\ \A n \in 1 .. N : q[n].step = n - 1
  BY <1>1, StepsAre
<1>3. Books!InOrder(t, id) = o
  BY DEF Books!InOrder
<1>4. \A n \in 1 .. N : q[n] \in Entry
  BY <1>2
<1>5. \A n \in 1 .. N : f[n].step = n - 1 /\ Books!Selected(f[n]) = q[n]
  BY <1>2, <1>4, LineIs
<1>6. L = {f[n] : n \in 1 .. N}
  BY <1>1, <1>2 DEF LinesAre
<1>7. q = [n \in 1 .. N |-> q[n]]
  BY <1>2
<1> HIDE DEF L, f, q, N
<1>8. \A k \in 0 .. N : Cardinality({f[n] : n \in 1 .. k}) = k
  BY <1>2, <1>5, Numbered
<1>9. Books!Cardinality(L) = N
  <2>1. N \in 0 .. N
    BY <1>2
  <2> QED
    BY <1>6, <1>8, <2>1, Counting
<1>10. ASSUME NEW n \in 1 .. N PROVE Cardinality({x \in L : x.step < f[n].step}) = n - 1
  <2>1. n \in Nat /\ n - 1 \in 0 .. N /\ f[n].step = n - 1
    BY <1>2, <1>5
  <2>2. \A m \in 1 .. N : f[m].step < n - 1 <=> m \in 1 .. (n - 1)
    <3> TAKE m \in 1 .. N
    <3>1. f[m].step = m - 1 /\ m \in Nat /\ m >= 1
      BY <1>2, <1>5
    <3>2. m - 1 < n - 1 <=> m \in 1 .. (n - 1)
      BY <2>1, <3>1
    <3> QED
      BY <3>1, <3>2
  <2>3. \A m \in 1 .. (n - 1) : m \in 1 .. N
    BY <1>2, <2>1
  <2>4. {x \in L : x.step < f[n].step} = {f[m] : m \in 1 .. (n - 1)}
    BY <1>6, <2>1, <2>2, <2>3
  <2> QED
    BY <1>8, <2>1, <2>4
<1>11. ASSUME NEW n \in 1 .. N PROVE nth(n) = f[n]
  <2>1. f[n] \in L
    BY <1>6
  <2>2. \E y \in L : Books!Cardinality({x \in L : x.step < y.step}) = n - 1
    BY <1>10, <2>1, Counting
  <2>3. nth(n) \in L /\ Books!Cardinality({x \in L : x.step < nth(n).step}) = n - 1
    BY <2>2
  <2> HIDE DEF nth
  <2>4. PICK m \in 1 .. N : nth(n) = f[m]
    BY <1>6, <2>3
  <2>6. m - 1 = n - 1
    BY <1>10, <2>3, <2>4, Counting
  <2>5. m = n
    BY <1>2, <2>6
  <2> QED
    BY <2>4, <2>5
<1> HIDE DEF nth
<1>12. o = [n \in 1 .. N |-> q[n]]
  BY <1>5, <1>9, <1>11
<1> QED
  BY <1>3, <1>7, <1>12 DEF q

\* What was recorded in a window, per day, agent and model, is what the buckets have.
LEMMA CostsAgree ==
  ASSUME Books!InputsKnown, CostInv, NEW t \in Tenant, NEW w
  PROVE  /\ Books!MemoryDailyCost(t, w) = Books!Totals(t, w)
         /\ Books!TablesDailyCost(t, w) = Books!Columns(Books!Totals(t, w))
<1> DEFINE mine == {i \in DOMAIN calls : calls[i].op = "record" /\ calls[i].tenant = t
                                           /\ Books!InWindow(calls[i].usage.day, w)}
           Same(i) == {j \in mine : [calls[j].usage EXCEPT !.tokens = 0]
                                      = [calls[i].usage EXCEPT !.tokens = 0]}
           Used(i) == UNION {{j} \X (1 .. calls[j].usage.tokens) : j \in Same(i)}
           Shown(r) == [day |-> r.day, agent |-> r.agent, model |-> r.model, tokens |-> r.tokens]
           At(k) == costUsage[k].tenant = t /\ Books!InWindow(costUsage[k].day, w)
<1>1. calls \in Seq(ACall)
  BY DEF CostInv
<1>2. \A i : i \in mine <=> i \in Recorded /\ calls[i].tenant = t
                              /\ Books!InWindow(calls[i].usage.day, w)
  BY DEF Recorded
<1>3. \A i \in Recorded : calls[i].usage \in Books!Usage
  BY <1>1, UsageIs
<1>4. ASSUME NEW i \in mine PROVE Same(i) = Under(KeyAt(i))
  <2>1. i \in Recorded /\ calls[i].tenant = t /\ calls[i].usage \in Books!Usage
    BY <1>2, <1>3
  <2>2. ASSUME NEW j \in Recorded
        PROVE  KeyAt(j) = KeyAt(i) <=>
                 /\ calls[j].tenant = t
                 /\ calls[j].usage.day = calls[i].usage.day
                 /\ calls[j].usage.agent = calls[i].usage.agent
                 /\ calls[j].usage.model = calls[i].usage.model
    <3>1. calls[j].usage \in Books!Usage
      BY <1>3
    <3>2. KeyAt(j) = KeyAt(i) =>
            /\ calls[j].tenant = calls[i].tenant
            /\ calls[j].usage.day = calls[i].usage.day
            /\ calls[j].usage.agent = calls[i].usage.agent
            /\ calls[j].usage.model = calls[i].usage.model
      BY <2>1, <3>1, KeysTell DEF KeyAt
    <3> QED
      BY <2>1, <3>2 DEF KeyAt, Books!Key
  <2>3. ASSUME NEW j \in Recorded
        PROVE  [calls[j].usage EXCEPT !.tokens = 0] = [calls[i].usage EXCEPT !.tokens = 0] <=>
                 /\ calls[j].usage.day = calls[i].usage.day
                 /\ calls[j].usage.agent = calls[i].usage.agent
                 /\ calls[j].usage.model = calls[i].usage.model
    <3>1. calls[j].usage \in Books!Usage
      BY <1>3
    <3> DEFINE x == calls[j].usage
               y == calls[i].usage
    <3>2. x \in Books!Usage /\ y \in Books!Usage
      BY <2>1, <3>1
    <3> HIDE DEF x, y
    <3>3. [x EXCEPT !.tokens = 0] = [y EXCEPT !.tokens = 0] <=>
            x.day = y.day /\ x.agent = y.agent /\ x.model = y.model
      BY <3>2 DEF Books!Usage
    <3> QED
      BY <3>3 DEF x, y
  <2> HIDE DEF mine
  <2>4. \A j : j \in Same(i) <=> j \in Recorded /\ KeyAt(j) = KeyAt(i)
    BY <1>2, <2>1, <2>2, <2>3
  <2> HIDE DEF Same
  <2> QED
    BY <2>4 DEF Under
<1>5. ASSUME NEW i \in mine
      PROVE  [calls[i].usage EXCEPT !.tokens = Cardinality(Used(i))] = Shown(costUsage[KeyAt(i)])
  <2>1. i \in Recorded /\ calls[i].usage \in Books!Usage
    BY <1>2, <1>3
  <2>2. Used(i) = Spent(Under(KeyAt(i)))
    BY <1>4 DEF Spent
  <2>3. costUsage[KeyAt(i)] = BucketOf(i, Cardinality(Used(i)))
    BY <2>1, <2>2 DEF CostInv
  <2> HIDE DEF Used, mine
  <2> QED
    BY <2>1, <2>3 DEF BucketOf, Books!Usage
<1>6. \A i \in Recorded : i \in mine <=> At(KeyAt(i))
  <2> TAKE i \in Recorded
  <2>1. costUsage[KeyAt(i)].tenant = calls[i].tenant
        /\ costUsage[KeyAt(i)].day = calls[i].usage.day
    <3>1. costUsage[KeyAt(i)] = BucketOf(i, Cardinality(Spent(Under(KeyAt(i)))))
      BY DEF CostInv
    <3> QED
      BY <3>1 DEF BucketOf
  <2> QED
    BY <1>2, <2>1
<1>7. \A k : k \in DOMAIN costUsage <=> \E i \in Recorded : k = KeyAt(i)
  BY DEF CostInv
<1> DEFINE all == {Shown(costUsage[k]) : k \in {x \in DOMAIN costUsage : At(x)}}
<1>8. Books!Totals(t, w) = {[calls[i].usage EXCEPT !.tokens = Cardinality(Used(i))] : i \in mine}
  BY Counting DEF Books!Totals
<1>9. \A i \in mine : i \in Recorded
  BY <1>2
<1> HIDE DEF mine, Used, Shown, At
<1>10. Books!Totals(t, w) = all
  <2> DEFINE of(i) == [calls[i].usage EXCEPT !.tokens = Cardinality(Used(i))]
             in(k) == Shown(costUsage[k])
  <2>1. \A i \in mine : of(i) = in(KeyAt(i))
    BY <1>5
  <2>2. Books!Totals(t, w) = {of(i) : i \in mine}
    BY <1>8
  <2>3. all = {in(k) : k \in {x \in DOMAIN costUsage : At(x)}}
    OBVIOUS
  <2> HIDE DEF of, in, all
  <2> QED
    BY <1>6, <1>7, <1>9, <2>1, <2>2, <2>3
<1>11. Books!MemoryDailyCost(t, w) = all
  BY DEF Books!MemoryDailyCost, Shown, At
<1>12. Books!TablesDailyCost(t, w) = Books!Columns(all)
  <2> DEFINE there == {x \in daily_cost_buckets : x.tenant = t /\ Books!InWindow(x.day, w)}
             as(r) == [day |-> r.day, agent |-> r.agent, model |-> r.model,
                       tokens |-> Books!Column(r.tokens)]
  <2>1. Books!TablesDailyCost(t, w) = {as(r) : r \in there}
    BY DEF Books!TablesDailyCost
  <2>2. all = {Shown(r) : r \in there}
    BY DEF CostInv, At
  <2>3. ASSUME NEW r PROVE [Shown(r) EXCEPT !.tokens = Books!Column(Shown(r).tokens)] = as(r)
    BY DEF Shown
  <2> HIDE DEF all, there, as
  <2> QED
    BY <2>1, <2>2, <2>3 DEF Books!Columns
<1> QED
  BY <1>10, <1>11, <1>12

LEMMA TheBooksAgree ==
  ASSUME BooksInv PROVE Books!StoresKeepTheSameBooks
<1>1. ASSUME NEW t \in Tenant, NEW id \in Channel
      PROVE  Books!SavedSince(t, id) = Books!RowsOf(t, id) /\ Books!InOrder(t, id) = Books!RowsOf(t, id)
  BY RowsAgree, LinesAgree DEF BooksInv
<1>2. ASSUME NEW t \in Tenant, NEW w
      PROVE  /\ Books!MemoryDailyCost(t, w) = Books!Totals(t, w)
             /\ Books!TablesDailyCost(t, w) = Books!Columns(Books!Totals(t, w))
  BY CostsAgree, InputsOfBooks DEF BooksInv
<1> QED
  BY <1>1, <1>2 DEF Books!StoresKeepTheSameBooks

\* Whatever the tenants save, delete and record, in whatever order: each store rebuilds a
\* checkpoint from the rows saved since it was last deleted, in the order they were saved, and
\* lists under every day, agent and model the tokens recorded under them - as numbers, or the
\* tables through node-postgres as the texts of the same numbers.
THEOREM BooksAgree == Spec => []StoresKeepTheSameBooks
<1>1. Init => BooksInv
  BY BooksOpen DEF Init
<1>2. BooksInv /\ [Next]_vars => BooksInv'
  <2> SUFFICES ASSUME BooksInv, [Next]_vars PROVE BooksInv'
    OBVIOUS
  <2>1. CASE Books!Next
    BY <2>1, BooksStep
  <2>2. CASE UNCHANGED ledger
    BY <2>2, BooksUntouched
  <2> QED
    BY <2>1, <2>2 DEF Next, vars
<1>3. BooksInv => StoresKeepTheSameBooks
  BY TheBooksAgree DEF StoresKeepTheSameBooks
<1> QED
  BY <1>1, <1>2, <1>3, PTL DEF Spec

-----------------------------------------------------------------------------
(* A session as it is rebuilt.                                             *)

LEMMA HasGreatest ==
  ASSUME NEW S \in SUBSET Nat, S # {}, NEW b \in Nat, \A n \in S : n <= b
  PROVE  \E m \in S : \A n \in S : n <= m
  BY GreatestIs

\* The last event of some types is one of them, and none comes after it.
LEMMA LastOfIs ==
  ASSUME NEW W, NEW q \in Seq(W), NEW types, NEW default
  PROVE  /\ Places(q, types) = {} => LastOf(q, types, default) = default
         /\ Places(q, types) # {} =>
              \E k \in Places(q, types) : /\ LastOf(q, types, default) = q[k]
                                          /\ \A j \in Places(q, types) : j <= k
<1> DEFINE P == Places(q, types)
           Top(k) == \A j \in P : j <= k
           m == CHOOSE k \in P : Top(k)
<1>1. LastOf(q, types, default) = IF P = {} THEN default ELSE q[m]
  BY DEF LastOf
<1>2. ASSUME P # {} PROVE m \in P /\ Top(m)
  <2>1. Len(q) \in Nat /\ DOMAIN q = 1 .. Len(q)
    OBVIOUS
  <2>2. P \in SUBSET Nat /\ \A n \in P : n <= Len(q)
    BY <2>1 DEF Places
  <2> HIDE DEF P
  <2>3. \E k \in P : Top(k)
    BY <1>2, <2>1, <2>2, HasGreatest
  <2> HIDE DEF Top
  <2> QED
    BY <2>3
<1> QED
  BY <1>1, <1>2

\* A session has one creation: its other events carry no project, and all one tenant.
OneCreation(q, o) == \A k \in DOMAIN q : q[k].tenant = o /\ (k # 1 => q[k].project = None)

LEMMA Rehydrated ==
  ASSUME NEW s, NEW W, NEW q \in Seq(W), q # <<>>, NEW o, OneCreation(q, o)
  PROVE  /\ rehydrate(s, q) = Build(s, q)
         /\ rehydrate(s, q).version = Len(q)
         /\ rehydrate(s, q).tenant = o
         /\ rehydrate(s, q).project = Head(q).project
         /\ rehydrate(s, q).sessionId = s
<1> DEFINE b == Build(s, q)
           created == LastOf(q, {"created"}, Head(q))
<1>1. rehydrate(s, q) = b
  <2>1. rehydrate(s, q) = CHOOSE a \in {Build(s, read) : read \in {q}} : TRUE
    BY DEF rehydrate
  <2>2. \A a : a \in {Build(s, read) : read \in {q}} <=> a = b
    OBVIOUS
  <2> HIDE DEF b
  <2> QED
    BY <2>1, <2>2
<1>2. /\ b.version = Len(q) /\ b.tenant = created.tenant /\ b.sessionId = s
      /\ b.project = IF created.project = None THEN Head(q).project ELSE created.project
  BY DEF Build
<1>3. 1 \in DOMAIN q /\ Head(q) = q[1]
  OBVIOUS
<1>4. \E k \in DOMAIN q : created = q[k]
  BY <1>3, LastOfIs DEF Places
<1> HIDE DEF b, created
<1>5. PICK k \in DOMAIN q : created = q[k]
  BY <1>4
<1>6. created.tenant = o /\ (k # 1 => created.project = None)
  BY <1>5 DEF OneCreation
<1>7. b.project = Head(q).project
  BY <1>2, <1>3, <1>5, <1>6
<1> QED
  BY <1>1, <1>2, <1>6, <1>7 DEF b

\* Each store, and the contract, rebuild and list sessions with the same definitions.
LEMMA MemoryReads ==
  ASSUME NEW s, NEW q
  PROVE  Memory!NoAggregate = NoAggregate /\ Memory!rehydrate(s, q) = rehydrate(s, q)
<1>1. \A p, types : Memory!Only(p, types) = Only(p, types)
  BY DEF Memory!Only, Only
<1>2. \A p, types, d : Memory!LastOf(p, types, d) = LastOf(p, types, d)
  BY DEF Memory!LastOf, LastOf, Memory!Places, Places
<1>3. \A p, types : Memory!Cardinality(Memory!Places(p, types)) = Cardinality(Places(p, types))
  BY DEF Memory!Places, Places, Memory!Cardinality, Cardinality, Memory!IsFiniteSet, IsFiniteSet
<1>4. \A p : Memory!TrimThread(p) = TrimThread(p)
  BY DEF Memory!TrimThread, TrimThread, Memory!KeepLast, KeepLast
<1>5. Memory!Speaker = Speaker
  BY DEF Memory!Speaker, Speaker
<1>6. \A p : Memory!Thread(p) = Thread(p)
  BY <1>1, <1>4, <1>5 DEF Memory!Thread, Thread
<1>7. \A p : Memory!Build(s, p) = Build(s, p)
  BY <1>1, <1>2, <1>3, <1>6
  DEF Memory!Build, Build, Memory!None, None, Memory!StatusBearing, StatusBearing,
  Memory!KeepLast, KeepLast
<1>8. Memory!NoAggregate = NoAggregate
  BY DEF Memory!NoAggregate, NoAggregate
<1> QED
  BY <1>7, <1>8 DEF Memory!rehydrate, rehydrate

LEMMA MemoryLists ==
  ASSUME NEW S, NEW filter
  PROVE  Memory!filterSessions(S, filter) = filterSessions(S, filter)
<1>1. \A T : Memory!NewestFirst(T) = NewestFirst(T)
  BY DEF Memory!NewestFirst, NewestFirst, Memory!Cardinality, Cardinality, Memory!IsFiniteSet,
     IsFiniteSet
<1>2. \A a : Memory!Matches(a, filter) <=> Matches(a, filter)
  BY DEF Memory!Matches, Matches, Memory!None, None
<1>3. \A q : Memory!Page(q, filter) = Page(q, filter)
  BY DEF Memory!Page, Page
<1> QED
  BY <1>1, <1>2, <1>3 DEF Memory!filterSessions, filterSessions

LEMMA MemoryContractReads ==
  ASSUME NEW s, NEW q
  PROVE  MemoryContract!NoAggregate = NoAggregate /\ MemoryContract!rehydrate(s, q) = rehydrate(s, q)
<1>1. \A p, types : MemoryContract!Only(p, types) = Only(p, types)
  BY DEF MemoryContract!Only, Only
<1>2. \A p, types, d : MemoryContract!LastOf(p, types, d) = LastOf(p, types, d)
  BY DEF MemoryContract!LastOf, LastOf, MemoryContract!Places, Places
<1>3. \A p, types : MemoryContract!Cardinality(MemoryContract!Places(p, types)) = Cardinality(Places(p, types))
  BY DEF MemoryContract!Places, Places, MemoryContract!Cardinality, Cardinality,
     MemoryContract!IsFiniteSet, IsFiniteSet
<1>4. \A p : MemoryContract!TrimThread(p) = TrimThread(p)
  BY DEF MemoryContract!TrimThread, TrimThread, MemoryContract!KeepLast, KeepLast
<1>5. MemoryContract!Speaker = Speaker
  BY DEF MemoryContract!Speaker, Speaker
<1>6. \A p : MemoryContract!Thread(p) = Thread(p)
  BY <1>1, <1>4, <1>5 DEF MemoryContract!Thread, Thread
<1>7. \A p : MemoryContract!Build(s, p) = Build(s, p)
  BY <1>1, <1>2, <1>3, <1>6
  DEF MemoryContract!Build, Build, MemoryContract!None, None, MemoryContract!StatusBearing,
  StatusBearing, MemoryContract!KeepLast, KeepLast
<1>8. MemoryContract!NoAggregate = NoAggregate
  BY DEF MemoryContract!NoAggregate, NoAggregate
<1> QED
  BY <1>7, <1>8 DEF MemoryContract!rehydrate, rehydrate

LEMMA MemoryContractLists ==
  ASSUME NEW S, NEW filter
  PROVE  MemoryContract!filterSessions(S, filter) = filterSessions(S, filter)
<1>1. \A T : MemoryContract!NewestFirst(T) = NewestFirst(T)
  BY DEF MemoryContract!NewestFirst, NewestFirst, MemoryContract!Cardinality, Cardinality,
     MemoryContract!IsFiniteSet, IsFiniteSet
<1>2. \A a : MemoryContract!Matches(a, filter) <=> Matches(a, filter)
  BY DEF MemoryContract!Matches, Matches, MemoryContract!None, None
<1>3. \A q : MemoryContract!Page(q, filter) = Page(q, filter)
  BY DEF MemoryContract!Page, Page
<1> QED
  BY <1>1, <1>2, <1>3 DEF MemoryContract!filterSessions, filterSessions

-----------------------------------------------------------------------------
(* The store in memory implements the contract.                            *)

\* A session that is not live has no events, one that has is its creator's; a snapshot
\* that is kept is the session.
MemoryInv ==
  /\ now \in Nat
  /\ owner \in [Session -> Tenant \cup {None}] /\ live \in [Session -> BOOLEAN]
  /\ events \in [Session -> Seq(Written)]
  /\ mVersions = [s \in Session |-> Len(events[s])]
  /\ DOMAIN mSnapshots = Session
  /\ \A s \in Session :
       /\ mSnapshots[s] \in {NoAggregate, rehydrate(s, events[s])}
       /\ OneCreation(events[s], owner[s])
       /\ ~live[s] => events[s] = <<>>

\* The call that is answered, and the answer.
LEMMA MemoryCall ==
  ASSUME NEW c, NEW v, Memory!Replies(c, v)
  PROVE  /\ MemoryContract!call = c
         /\ MemoryContract!Answered(v)
<1>1. mReply' = [x \in {c} |-> v]
  BY DEF Memory!Replies, Memory!Answer
<1>2. DOMAIN mReply' = {c}
  BY <1>1
<1>3. MemoryContract!call = c
  BY <1>2 DEF MemoryContract!call
<1>4. MemoryContract!Answer(c, v) = [x \in {c} |-> v]
  BY DEF MemoryContract!Answer
<1>5. MemoryContract!Answered(v) <=> mReply' = MemoryContract!Answer(MemoryContract!call, v)
  BY DEF MemoryContract!Answered
<1> QED
  BY <1>1, <1>3, <1>4, <1>5

\* Whose a session is, and how it is seen.
LEMMA MemoryOwns ==
  ASSUME MemoryInv, NEW t \in Tenant, NEW s \in Session
  PROVE  /\ events[s] # <<>> => Head(events[s]).tenant = owner[s]
         /\ MemoryContract!Owns(t, s) <=> events[s] # <<>> /\ owner[s] = t
         /\ Memory!Foreign(t, s) <=> events[s] # <<>> /\ owner[s] # t
         /\ events[s] # <<>> =>
              /\ rehydrate(s, events[s]).tenant = owner[s]
              /\ rehydrate(s, events[s]).project = Head(events[s]).project
              /\ rehydrate(s, events[s]).version = Len(events[s])
<1>1. events[s] \in Seq(Written) /\ OneCreation(events[s], owner[s])
  BY DEF MemoryInv
<1>2. ASSUME events[s] # <<>> PROVE Head(events[s]).tenant = owner[s]
  <2>1. 1 \in DOMAIN events[s] /\ Head(events[s]) = events[s][1]
    BY <1>1, <1>2
  <2> QED
    BY <1>1, <2>1 DEF OneCreation
<1>3. ASSUME events[s] # <<>>
      PROVE  /\ rehydrate(s, events[s]).tenant = owner[s]
             /\ rehydrate(s, events[s]).project = Head(events[s]).project
             /\ rehydrate(s, events[s]).version = Len(events[s])
  BY <1>1, <1>3, Rehydrated
<1> QED
  BY <1>2, <1>3 DEF MemoryContract!Owns, Memory!Foreign

LEMMA PushKeeps ==
  ASSUME MemoryInv, NEW t \in Tenant, NEW s \in Session, NEW e \in Written, Memory!Push(t, s, e),
         now' \in Nat, owner' \in [Session -> Tenant \cup {None}], live' \in [Session -> BOOLEAN],
         \A x \in Session : x # s => owner'[x] = owner[x] /\ live'[x] = live[x],
         owner'[s] = t, live'[s],
         events[s] # <<>> => owner[s] = t /\ e.project = None
  PROVE  MemoryInv'
<1> DEFINE f == [e EXCEPT !.tenant = t]
           q == events[s]
<1>1. f \in Written /\ f.tenant = t /\ f.project = e.project
  BY DEF Written
<1> HIDE DEF f
<1>2. /\ events' = [events EXCEPT ![s] = Append(q, f)]
      /\ mVersions' = [mVersions EXCEPT ![s] = Len(events'[s])]
      /\ mSnapshots' = [mSnapshots EXCEPT ![s] = NoAggregate]
  BY MemoryReads DEF Memory!Push, f
<1>3. /\ events \in [Session -> Seq(Written)] /\ mVersions = [x \in Session |-> Len(events[x])]
      /\ DOMAIN mSnapshots = Session
  BY DEF MemoryInv
<1>4. q \in Seq(Written)
  BY <1>3
<1>5. /\ Append(q, f) \in Seq(Written) /\ DOMAIN Append(q, f) = 1 .. Len(q) + 1
      /\ Append(q, f)[Len(q) + 1] = f /\ \A k \in 1 .. Len(q) : Append(q, f)[k] = q[k]
      /\ DOMAIN q = 1 .. Len(q) /\ Len(q) \in Nat
  BY <1>1, <1>4
<1>6. OneCreation(Append(q, f), t)
  <2>1. OneCreation(q, owner[s])
    BY DEF MemoryInv
  <2>2. q # <<>> => owner[s] = t /\ f.project = None
    BY <1>1
  <2>3. q = <<>> => Len(q) = 0
    BY <1>4
  <2> HIDE DEF q
  <2> DEFINE r == Append(q, f)
  <2> HIDE DEF r
  <2>4. ASSUME NEW k \in DOMAIN r PROVE r[k].tenant = t /\ (k # 1 => r[k].project = None)
    <3>1. k \in 1 .. Len(q) \/ k = Len(q) + 1
      BY <1>5 DEF r
    <3>2. CASE k \in 1 .. Len(q)
      <4>1. r[k] = q[k] /\ q # <<>> /\ k \in DOMAIN q
        BY <1>5, <2>3, <3>2 DEF r
      <4> QED
        BY <2>1, <2>2, <4>1 DEF OneCreation
    <3>3. CASE k = Len(q) + 1
      <4>1. r[k] = f
        BY <1>5, <3>3 DEF r
      <4>2. k # 1 => q # <<>>
        BY <1>5, <2>3, <3>3
      <4> QED
        BY <1>1, <2>2, <4>1, <4>2
    <3> QED
      BY <3>1, <3>2, <3>3
  <2> QED
    BY <2>4 DEF OneCreation, r
<1> HIDE DEF q
<1>7. /\ events' \in [Session -> Seq(Written)] /\ events'[s] = Append(q, f)
      /\ \A x \in Session : x # s => events'[x] = events[x]
  BY <1>2, <1>3, <1>5
<1>8. mVersions' = [x \in Session |-> Len(events'[x])]
  BY <1>2, <1>3, <1>7
<1>9. /\ DOMAIN mSnapshots' = Session /\ mSnapshots'[s] = NoAggregate
      /\ \A x \in Session : x # s => mSnapshots'[x] = mSnapshots[x]
  BY <1>2, <1>3
<1>10. ASSUME NEW x \in Session
       PROVE  /\ mSnapshots'[x] \in {NoAggregate, rehydrate(x, events'[x])}
              /\ OneCreation(events'[x], owner'[x])
              /\ ~live'[x] => events'[x] = <<>>
  <2>1. CASE x = s
    BY <1>6, <1>7, <1>9, <2>1
  <2>2. CASE x # s
    <3>1. /\ events'[x] = events[x] /\ owner'[x] = owner[x] /\ live'[x] = live[x]
          /\ mSnapshots'[x] = mSnapshots[x]
      BY <1>7, <1>9, <2>2
    <3>2. /\ mSnapshots[x] \in {NoAggregate, rehydrate(x, events[x])}
          /\ OneCreation(events[x], owner[x])
          /\ ~live[x] => events[x] = <<>>
      BY DEF MemoryInv
    <3> QED
      BY <3>1, <3>2
  <2> QED
    BY <2>1, <2>2
<1> QED
  BY <1>7, <1>8, <1>9, <1>10 DEF MemoryInv

LEMMA ForgetKeeps ==
  ASSUME MemoryInv, NEW gone, Memory!Forget(gone), now' \in Nat, owner' = owner,
         live' \in [Session -> BOOLEAN],
         \A x \in Session : live'[x] = live[x] \/ x \in gone \/ events[x] = <<>>
  PROVE  MemoryInv'
<1>1. /\ events' = [s \in Session |-> IF s \in gone THEN <<>> ELSE events[s]]
      /\ mVersions' = [s \in Session |-> IF s \in gone THEN 0 ELSE mVersions[s]]
      /\ mSnapshots' = [s \in Session |-> IF s \in gone THEN NoAggregate ELSE mSnapshots[s]]
  BY MemoryReads DEF Memory!Forget
<1>2. /\ events \in [Session -> Seq(Written)] /\ mVersions = [x \in Session |-> Len(events[x])]
      /\ owner \in [Session -> Tenant \cup {None}]
  BY DEF MemoryInv
<1>3. <<>> \in Seq(Written) /\ Len(<<>>) = 0 /\ \A o : OneCreation(<<>>, o)
  BY DEF OneCreation
<1>4. events' \in [Session -> Seq(Written)]
  BY <1>1, <1>2, <1>3
<1>5. mVersions' = [x \in Session |-> Len(events'[x])]
  BY <1>1, <1>2, <1>3
<1>6. ASSUME NEW x \in Session
      PROVE  /\ mSnapshots'[x] \in {NoAggregate, rehydrate(x, events'[x])}
             /\ OneCreation(events'[x], owner'[x])
             /\ ~live'[x] => events'[x] = <<>>
  <2>1. CASE x \in gone
    BY <1>1, <1>3, <2>1
  <2>2. CASE x \notin gone
    <3>1. events'[x] = events[x] /\ owner'[x] = owner[x] /\ mSnapshots'[x] = mSnapshots[x]
      BY <1>1, <2>2
    <3>2. /\ mSnapshots[x] \in {NoAggregate, rehydrate(x, events[x])}
          /\ OneCreation(events[x], owner[x])
          /\ ~live[x] => events[x] = <<>>
      BY DEF MemoryInv
    <3> QED
      BY <2>2, <3>1, <3>2
  <2> QED
    BY <2>1, <2>2
<1> QED
  BY <1>1, <1>2, <1>4, <1>5, <1>6 DEF MemoryInv

LEMMA NothingWritten ==
  ASSUME MemoryInv, UNCHANGED <<now, owner, live, events, mVersions, mSnapshots>>
  PROVE  MemoryInv'
  BY DEF MemoryInv

-----------------------------------------------------------------------------
(* Every call of it is one of the contract's.                              *)

LEMMA MemoryAppends ==
  ASSUME MemoryInv, NEW t \in Tenant, NEW s \in Session, NEW e \in Written,
         ~Memory!Foreign(t, s), Memory!AppendEvent(t, s, e)
  PROVE  MemoryContract!Next
<1> DEFINE c == <<"append", t, s, e>>
<1>1. Memory!Replies(c, "ok") /\ Memory!Push(t, s, e) /\ mProjects' = mProjects
  BY DEF Memory!AppendEvent
<1>2. MemoryContract!call = c /\ MemoryContract!Answered("ok")
  BY <1>1, MemoryCall
<1>3. c \in MemoryContract!Calls
  BY DEF MemoryContract!Calls
<1>4. ~(events[s] # <<>> /\ ~MemoryContract!Owns(t, s))
  BY MemoryOwns
<1>5. MemoryContract!Commit(s, [e EXCEPT !.tenant = t])
  BY <1>1 DEF Memory!Push, MemoryContract!Commit
<1>6. MemoryContract!AppendEvent(t, s, e)
  BY <1>1, <1>2, <1>4, <1>5 DEF MemoryContract!AppendEvent
<1>7. MemoryContract!Serve(c)
  BY <1>6 DEF MemoryContract!Serve
<1> QED
  BY <1>2, <1>3, <1>7 DEF MemoryContract!Next

LEMMA MemoryWrites ==
  ASSUME MemoryInv, NEW t \in Tenant, NEW s \in Session, NEW n \in Nat \ {0}, NEW e \in Written,
         Memory!ReadModifyWrite(t, s, n, e)
  PROVE  /\ MemoryContract!Next
         /\ \/ UNCHANGED <<events, mVersions, mSnapshots>>
            \/ events[s] # <<>> /\ owner[s] = t /\ Memory!Push(t, s, e)
<1> DEFINE c == <<"write", t, s, n, e>>
<1>1. mVersions[s] = Len(events[s]) /\ events[s] \in Seq(Written)
  BY DEF MemoryInv
<1>2. c \in MemoryContract!Calls
  BY DEF MemoryContract!Calls
<1>3. mProjects' = mProjects
  BY DEF Memory!ReadModifyWrite
<1>4. CASE Memory!Foreign(t, s) \/ mVersions[s] # n
  <2>1. Memory!Replies(c, "conflict") /\ UNCHANGED <<events, mVersions, mSnapshots>>
    BY <1>4 DEF Memory!ReadModifyWrite
  <2>2. MemoryContract!call = c /\ MemoryContract!Answered("conflict")
    BY <2>1, MemoryCall
  <2>3. ~(MemoryContract!Owns(t, s) /\ Len(events[s]) = n)
    BY <1>1, <1>4, MemoryOwns
  <2>4. MemoryContract!ReadModifyWrite(t, s, n, e)
    BY <1>3, <2>1, <2>2, <2>3 DEF MemoryContract!ReadModifyWrite
  <2>5. MemoryContract!Serve(c)
    BY <2>4 DEF MemoryContract!Serve
  <2> QED
    BY <1>2, <2>1, <2>2, <2>5 DEF MemoryContract!Next
<1>5. CASE ~(Memory!Foreign(t, s) \/ mVersions[s] # n)
  <2>1. Memory!Replies(c, "ok") /\ Memory!Push(t, s, e)
    BY <1>5 DEF Memory!ReadModifyWrite
  <2>2. MemoryContract!call = c /\ MemoryContract!Answered("ok")
    BY <2>1, MemoryCall
  <2>3. Len(events[s]) = n /\ events[s] # <<>>
    BY <1>1, <1>5
  <2>4. MemoryContract!Owns(t, s) /\ owner[s] = t
    BY <1>5, <2>3, MemoryOwns
  <2>5. MemoryContract!Commit(s, [e EXCEPT !.tenant = t])
    BY <2>1 DEF Memory!Push, MemoryContract!Commit
  <2>6. MemoryContract!ReadModifyWrite(t, s, n, e)
    BY <1>3, <2>2, <2>3, <2>4, <2>5 DEF MemoryContract!ReadModifyWrite
  <2>7. MemoryContract!Serve(c)
    BY <2>6 DEF MemoryContract!Serve
  <2> QED
    BY <1>2, <2>1, <2>2, <2>3, <2>4, <2>7 DEF MemoryContract!Next
<1> QED
  BY <1>4, <1>5

LEMMA MemoryGets ==
  ASSUME MemoryInv, NEW t \in Tenant, NEW s \in Session, Memory!Get(t, s),
         UNCHANGED <<now, owner, live>>
  PROVE  MemoryContract!Next /\ MemoryInv'
<1> DEFINE c == <<"get", t, s>>
           cached == mSnapshots[s]
           whole == rehydrate(s, events[s])
           fresh == events[s] # <<>> /\ cached # NoAggregate /\ cached.version = mVersions[s]
           session == IF fresh THEN cached ELSE whole
           mine == events[s] # <<>> /\ session.tenant = t
           seenAs == IF mine THEN session ELSE NoAggregate
<1>1. /\ Memory!Replies(c, seenAs)
      /\ mSnapshots' = IF mine THEN [mSnapshots EXCEPT ![s] = session] ELSE mSnapshots
      /\ UNCHANGED <<events, mVersions, mProjects>>
  BY MemoryReads DEF Memory!Get
<1>2. session = whole
  BY DEF MemoryInv
<1>3. mine <=> MemoryContract!Owns(t, s)
  BY <1>2, MemoryOwns
<1> HIDE DEF session, mine
<1>4. seenAs = MemoryContract!View(t, s)
  BY <1>2, <1>3, MemoryContractReads DEF MemoryContract!View
<1> HIDE DEF seenAs
<1>5. MemoryContract!call = c /\ MemoryContract!Answered(MemoryContract!View(t, s))
  BY <1>1, <1>4, MemoryCall
<1>6. c \in MemoryContract!Calls
  BY DEF MemoryContract!Calls
<1>7. MemoryContract!Get(t, s)
  BY <1>1, <1>5 DEF MemoryContract!Get
<1>8. MemoryContract!Serve(c)
  BY <1>7 DEF MemoryContract!Serve
<1>9. ASSUME NEW x \in Session
      PROVE  mSnapshots'[x] \in {NoAggregate, rehydrate(x, events'[x])}
  <2>1. mSnapshots[x] \in {NoAggregate, rehydrate(x, events[x])} /\ DOMAIN mSnapshots = Session
    BY DEF MemoryInv
  <2>2. mSnapshots'[x] = mSnapshots[x] \/ (x = s /\ mSnapshots'[x] = whole)
    BY <1>1, <1>2, <2>1
  <2> QED
    BY <1>1, <2>1, <2>2
<1>10. DOMAIN mSnapshots' = Session
  BY <1>1 DEF MemoryInv
<1>11. MemoryInv'
  BY <1>1, <1>9, <1>10 DEF MemoryInv
<1> QED
  BY <1>5, <1>6, <1>8, <1>11 DEF MemoryContract!Next

LEMMA MemoryListsThem ==
  ASSUME MemoryInv, NEW t \in Tenant, NEW filter \in Filters, Memory!List(t, filter)
  PROVE  MemoryContract!Next
<1> DEFINE c == <<"list", t, filter>>
           all == {rehydrate(s, events[s]) : s \in {x \in Session : events[x] # <<>>}}
           own == {a \in all : a.tenant = t}
           theirs == {MemoryContract!View(t, s) : s \in {x \in Session : MemoryContract!Owns(t, x)}}
<1>1. Memory!Replies(c, filterSessions(own, filter)) /\ UNCHANGED <<events, mProjects>>
  <2>1. own = {a \in {Memory!rehydrate(s, events[s]) : s \in {x \in Session : events[x] # <<>>}} :
                 a.tenant = t}
    BY MemoryReads
  <2> HIDE DEF own
  <2> QED
    BY <2>1, MemoryLists DEF Memory!List
<1>2. own = theirs
  <2>1. ASSUME NEW s \in Session
        PROVE  /\ MemoryContract!Owns(t, s) <=>
                    events[s] # <<>> /\ rehydrate(s, events[s]).tenant = t
               /\ MemoryContract!Owns(t, s) => MemoryContract!View(t, s) = rehydrate(s, events[s])
    BY MemoryOwns, MemoryContractReads DEF MemoryContract!View
  <2> QED
    BY <2>1
<1> HIDE DEF own, theirs
<1>3. /\ MemoryContract!call = c
      /\ MemoryContract!Answered(MemoryContract!filterSessions(theirs, filter))
  BY <1>1, <1>2, MemoryCall, MemoryContractLists
<1>4. c \in MemoryContract!Calls
  BY DEF MemoryContract!Calls
<1>5. MemoryContract!List(t, filter)
  BY <1>1, <1>3 DEF MemoryContract!List, theirs
<1>6. MemoryContract!Serve(c)
  BY <1>5 DEF MemoryContract!Serve
<1> QED
  BY <1>3, <1>4, <1>6 DEF MemoryContract!Next

LEMMA MemoryDeletes ==
  ASSUME MemoryInv, NEW t \in Tenant, NEW s \in Session, Memory!DeleteSession(t, s)
  PROVE  MemoryContract!Next
<1> DEFINE c == <<"delete", t, s>>
<1>1. /\ Memory!Replies(c, "ok") /\ mProjects' = mProjects
      /\ events' = [x \in Session |->
                      IF x \in (IF Memory!Foreign(t, s) THEN {} ELSE {s}) THEN <<>> ELSE events[x]]
  BY DEF Memory!DeleteSession, Memory!Forget
<1>2. MemoryContract!call = c /\ MemoryContract!Answered("ok")
  BY <1>1, MemoryCall
<1>3. events \in [Session -> Seq(Written)]
  BY DEF MemoryInv
<1>4. events' = IF MemoryContract!Owns(t, s) THEN [events EXCEPT ![s] = <<>>] ELSE events
  <2>1. MemoryContract!Owns(t, s) => ~Memory!Foreign(t, s)
    BY MemoryOwns
  <2>2. ~MemoryContract!Owns(t, s) => Memory!Foreign(t, s) \/ events[s] = <<>>
    BY MemoryOwns
  <2> QED
    BY <1>1, <1>3, <2>1, <2>2
<1>5. c \in MemoryContract!Calls
  BY DEF MemoryContract!Calls
<1>6. MemoryContract!DeleteSession(t, s)
  BY <1>1, <1>2, <1>4 DEF MemoryContract!DeleteSession
<1>7. MemoryContract!Serve(c)
  BY <1>6 DEF MemoryContract!Serve
<1> QED
  BY <1>2, <1>5, <1>7 DEF MemoryContract!Next

LEMMA MemoryProjects ==
  ASSUME NEW t \in Tenant
  PROVE  /\ \A p \in Project : Memory!CreateProject(t, p) => MemoryContract!Next
         /\ Memory!ListProjects(t) => MemoryContract!Next
<1>1. ASSUME NEW p \in Project, Memory!CreateProject(t, p) PROVE MemoryContract!Next
  <2> DEFINE c == <<"project", t, p>>
  <2>1. Memory!Replies(c, p)
    BY <1>1 DEF Memory!CreateProject
  <2>2. MemoryContract!call = c /\ MemoryContract!Answered(p)
    BY <2>1, MemoryCall
  <2>3. MemoryContract!CreateProject(t, p)
    BY <1>1, <2>2 DEF Memory!CreateProject, MemoryContract!CreateProject
  <2>4. c \in MemoryContract!Calls
    BY DEF MemoryContract!Calls
  <2>5. MemoryContract!Serve(c)
    BY <2>3 DEF MemoryContract!Serve
  <2> QED
    BY <2>2, <2>4, <2>5 DEF MemoryContract!Next
<1>2. ASSUME Memory!ListProjects(t) PROVE MemoryContract!Next
  <2> DEFINE c == <<"projects", t>>
             v == {x.id : x \in {y \in mProjects : y.tenant = t}}
  <2>1. Memory!Replies(c, v) /\ UNCHANGED <<events, mProjects>>
    BY <1>2 DEF Memory!ListProjects
  <2>2. MemoryContract!call = c /\ MemoryContract!Answered(v)
    BY <2>1, MemoryCall
  <2>3. MemoryContract!ListProjects(t)
    BY <2>1, <2>2 DEF MemoryContract!ListProjects
  <2>4. c \in MemoryContract!Calls
    BY DEF MemoryContract!Calls
  <2>5. MemoryContract!Serve(c)
    BY <2>3 DEF MemoryContract!Serve
  <2> QED
    BY <2>2, <2>4, <2>5 DEF MemoryContract!Next
<1> QED
  BY <1>1, <1>2

LEMMA MemoryDropsProject ==
  ASSUME MemoryInv, NEW t \in Tenant, NEW p \in Project, Memory!DeleteProject(t, p)
  PROVE  MemoryContract!Next
<1> DEFINE c == <<"deleteProject", t, p>>
           project == [id |-> p, tenant |-> t]
           there == project \in mProjects
           Gone(s) == /\ there /\ events[s] # <<>>
                      /\ Head(events[s]).project = p /\ Head(events[s]).tenant = t
<1>1. /\ Memory!Replies(c, there) /\ mProjects' = mProjects \ {project}
      /\ events' = [s \in Session |-> IF s \in {x \in Session : Gone(x)} THEN <<>> ELSE events[s]]
  BY DEF Memory!DeleteProject, Memory!Forget
<1>2. MemoryContract!call = c /\ MemoryContract!Answered(there)
  BY <1>1, MemoryCall
<1>3. ASSUME NEW s \in Session
      PROVE  Gone(s) <=> /\ there /\ MemoryContract!Owns(t, s)
                         /\ MemoryContract!View(t, s).project = p
  <2>1. MemoryContract!Owns(t, s) => MemoryContract!View(t, s) = rehydrate(s, events[s])
    BY MemoryContractReads DEF MemoryContract!View
  <2> HIDE DEF there
  <2> QED
    BY <2>1, MemoryOwns
<1> HIDE DEF Gone
<1>4. events' = [s \in Session |->
         IF there /\ MemoryContract!Owns(t, s) /\ MemoryContract!View(t, s).project = p
         THEN <<>> ELSE events[s]]
  BY <1>1, <1>3
<1>5. MemoryContract!DeleteProject(t, p)
  BY <1>1, <1>2, <1>4 DEF MemoryContract!DeleteProject
<1>6. c \in MemoryContract!Calls
  BY DEF MemoryContract!Calls
<1>7. MemoryContract!Serve(c)
  BY <1>5 DEF MemoryContract!Serve
<1> QED
  BY <1>2, <1>6, <1>7 DEF MemoryContract!Next

LEMMA MemoryOpens == ASSUME Init PROVE MemoryInv /\ MemoryContract!Init
<1>1. /\ now = 0 /\ owner = [s \in Session |-> None] /\ live = [s \in Session |-> FALSE]
      /\ Memory!Init
  BY DEF Init
<1>2. /\ events = [s \in Session |-> <<>>] /\ mVersions = [s \in Session |-> 0]
      /\ mSnapshots = [s \in Session |-> NoAggregate]
      /\ mProjects = {} /\ mReply = Memory!Answer(<<>>, Memory!None)
  BY <1>1, MemoryReads DEF Memory!Init
<1>3. <<>> \in Seq(Written) /\ Len(<<>>) = 0 /\ OneCreation(<<>>, None)
  BY DEF OneCreation
<1>4. MemoryInv
  BY <1>1, <1>2, <1>3 DEF MemoryInv
<1>5. mReply = MemoryContract!Answer(<<>>, MemoryContract!None)
  BY <1>2 DEF Memory!Answer, MemoryContract!Answer, Memory!None, MemoryContract!None
<1> QED
  BY <1>2, <1>4, <1>5 DEF MemoryContract!Init

\* What is written has the form the contract knows.
LEMMA EventIs ==
  ASSUME now \in Nat, now' = now + 1, now < MaxEvents, NEW t \in Tenant,
         NEW p \in Project \cup {None}, NEW type \in Types \cup {"created"}
  PROVE  Event(type, now + 1, t, p) \in Written /\ Event(type, now + 1, t, p).project = p
<1>1. now + 1 \in 1 .. MaxEvents
  BY CallsKnown
<1> QED
  BY <1>1 DEF Event, Written

LEMMA MemoryCreateStep ==
  ASSUME backend = "memory", MemoryInv, NEW t \in Tenant, NEW s \in Session,
         NEW p \in Project \cup {None}, Create(t, s, p)
  PROVE  MemoryInv' /\ MemoryContract!Next
<1> DEFINE e == Event("created", now + 1, t, p)
<1>1. /\ now < MaxEvents /\ now' = now + 1 /\ live[s] = FALSE
      /\ owner' = [owner EXCEPT ![s] = t] /\ live' = [live EXCEPT ![s] = TRUE]
  BY DEF Create, Tick
<1>2. Memory!AppendEvent(t, s, e)
  BY DEF Create, OnMemory, WriteLog, OnLog, OnSql, Of
<1>3. now \in Nat /\ now' \in Nat
  BY <1>1 DEF MemoryInv
<1>4. e \in Written
  BY <1>1, <1>3, EventIs
<1>5. events[s] = <<>>
  BY <1>1 DEF MemoryInv
<1>6. ~Memory!Foreign(t, s)
  BY <1>5 DEF Memory!Foreign
<1> HIDE DEF e
<1>7. MemoryContract!Next
  BY <1>2, <1>4, <1>6, MemoryAppends
<1>8. Memory!Push(t, s, e)
  BY <1>2, <1>6 DEF Memory!AppendEvent
<1>9. /\ owner' \in [Session -> Tenant \cup {None}] /\ live' \in [Session -> BOOLEAN]
      /\ \A x \in Session : x # s => owner'[x] = owner[x] /\ live'[x] = live[x]
      /\ owner'[s] = t /\ live'[s]
  BY <1>1 DEF MemoryInv
<1>10. MemoryInv'
  BY <1>3, <1>4, <1>5, <1>8, <1>9, PushKeeps
<1> QED
  BY <1>7, <1>10

LEMMA MemoryUpdateStep ==
  ASSUME backend = "memory", MemoryInv, NEW t \in Tenant, NEW s \in Session,
         NEW n \in 1 .. MaxEvents, NEW type \in Types, Update(t, s, n, type)
  PROVE  MemoryInv' /\ MemoryContract!Next
<1> DEFINE e == Event(type, now + 1, t, None)
<1>1. now < MaxEvents /\ now' = now + 1 /\ UNCHANGED <<owner, live>>
  BY DEF Update, Tick
<1>2. Memory!ReadModifyWrite(t, s, n, e)
  BY DEF Update, OnMemory, WriteLog, OnLog, OnSql, Of
<1>3. now \in Nat /\ now' \in Nat
  BY <1>1 DEF MemoryInv
<1>4. e \in Written /\ e.project = None
  BY <1>1, <1>3, EventIs
<1>5. n \in Nat \ {0}
  BY CallsKnown
<1> HIDE DEF e
<1>6. /\ MemoryContract!Next
      /\ \/ UNCHANGED <<events, mVersions, mSnapshots>>
         \/ events[s] # <<>> /\ owner[s] = t /\ Memory!Push(t, s, e)
  BY <1>2, <1>4, <1>5, MemoryWrites
<1>7. CASE UNCHANGED <<events, mVersions, mSnapshots>>
  <2>1. MemoryInv'
    BY <1>1, <1>3, <1>7 DEF MemoryInv
  <2> QED
    BY <1>6, <2>1
<1>8. CASE events[s] # <<>> /\ owner[s] = t /\ Memory!Push(t, s, e)
  <2>1. /\ owner' \in [Session -> Tenant \cup {None}] /\ live' \in [Session -> BOOLEAN]
        /\ owner'[s] = t /\ live'[s]
    BY <1>1, <1>8 DEF MemoryInv
  <2>2. MemoryInv'
    BY <1>1, <1>3, <1>4, <1>8, <2>1, PushKeeps
  <2> QED
    BY <1>6, <2>2
<1> QED
  BY <1>6, <1>7, <1>8

LEMMA MemoryDeleteStep ==
  ASSUME backend = "memory", MemoryInv, NEW t \in Tenant, NEW s \in Session, Delete(t, s)
  PROVE  MemoryInv' /\ MemoryContract!Next
<1>1. /\ live[s] /\ now < MaxEvents /\ now' = now + 1 /\ owner' = owner
      /\ live' = [live EXCEPT ![s] = owner[s] # t]
  BY DEF Delete, Tick
<1>2. Memory!DeleteSession(t, s)
  BY DEF Delete, OnMemory, WriteLog, OnLog, OnSql, Of
<1>3. now' \in Nat
  BY <1>1 DEF MemoryInv
<1> DEFINE gone == IF Memory!Foreign(t, s) THEN {} ELSE {s}
<1>4. Memory!Forget(gone)
  BY <1>2 DEF Memory!DeleteSession
<1>5. live' \in [Session -> BOOLEAN] /\ \A x \in Session : live'[x] = live[x] \/ x \in gone
  <2>1. live \in [Session -> BOOLEAN]
    BY DEF MemoryInv
  <2>2. owner[s] = t => s \in gone
    BY MemoryOwns
  <2> HIDE DEF gone
  <2> QED
    BY <1>1, <2>1, <2>2
<1> HIDE DEF gone
<1>6. MemoryInv'
  BY <1>1, <1>3, <1>4, <1>5, ForgetKeeps
<1> QED
  BY <1>2, <1>6, MemoryDeletes

LEMMA MemoryDropStep ==
  ASSUME backend = "memory", MemoryInv, NEW t \in Tenant, NEW p \in Project, DropProject(t, p)
  PROVE  MemoryInv' /\ MemoryContract!Next
<1>1. UNCHANGED <<now, owner, live>>
  BY DEF DropProject
<1>2. Memory!DeleteProject(t, p)
  BY DEF DropProject, OnMemory, ReadLog, OnLog, OnSql, Of
<1>3. PICK gone : Memory!Forget(gone)
  BY <1>2 DEF Memory!DeleteProject
<1>4. now' \in Nat /\ live' \in [Session -> BOOLEAN]
  BY <1>1 DEF MemoryInv
<1>5. MemoryInv'
  BY <1>1, <1>3, <1>4, ForgetKeeps
<1> QED
  BY <1>2, <1>5, MemoryDropsProject

LEMMA MemoryReadStep ==
  ASSUME backend = "memory", MemoryInv, NEW t \in Tenant
  PROVE  /\ \A s \in Session : Get(t, s) => MemoryInv' /\ MemoryContract!Next
         /\ \A filter \in Filters : List(t, filter) => MemoryInv' /\ MemoryContract!Next
         /\ \A p \in Project : NewProject(t, p) => MemoryInv' /\ MemoryContract!Next
         /\ Projects(t) => MemoryInv' /\ MemoryContract!Next
<1>1. ASSUME NEW s \in Session, Get(t, s) PROVE MemoryInv' /\ MemoryContract!Next
  <2>1. Memory!Get(t, s) /\ UNCHANGED <<now, owner, live>>
    BY <1>1 DEF Get, OnMemory, ReadLog, OnLog, OnSql, Of, callers
  <2> QED
    BY <2>1, MemoryGets
<1>2. ASSUME NEW filter \in Filters, List(t, filter) PROVE MemoryInv' /\ MemoryContract!Next
  <2>1. Memory!List(t, filter) /\ UNCHANGED <<now, owner, live>>
    BY <1>2 DEF List, OnMemory, ReadLog, OnLog, OnSql, Of, callers
  <2>2. UNCHANGED <<events, mVersions, mSnapshots>>
    BY <2>1 DEF Memory!List
  <2>3. MemoryInv'
    BY <2>1, <2>2, NothingWritten
  <2> QED
    BY <2>1, <2>3, MemoryListsThem
<1>3. ASSUME NEW p \in Project, NewProject(t, p) PROVE MemoryInv' /\ MemoryContract!Next
  <2>1. Memory!CreateProject(t, p) /\ UNCHANGED <<now, owner, live>>
    BY <1>3 DEF NewProject, OnMemory, ReadLog, OnLog, OnSql, Of
  <2>2. UNCHANGED <<events, mVersions, mSnapshots>>
    BY <2>1 DEF Memory!CreateProject
  <2>3. MemoryInv'
    BY <2>1, <2>2, NothingWritten
  <2> QED
    BY <2>1, <2>3, MemoryProjects
<1>4. ASSUME Projects(t) PROVE MemoryInv' /\ MemoryContract!Next
  <2>1. Memory!ListProjects(t) /\ UNCHANGED <<now, owner, live>>
    BY <1>4 DEF Projects, OnMemory, ReadLog, OnLog, OnSql, Of, callers
  <2>2. UNCHANGED <<events, mVersions, mSnapshots>>
    BY <2>1 DEF Memory!ListProjects
  <2>3. MemoryInv'
    BY <2>1, <2>2, NothingWritten
  <2> QED
    BY <2>1, <2>3, MemoryProjects
<1> QED
  BY <1>1, <1>2, <1>3, <1>4

LEMMA MemoryStep ==
  ASSUME backend = "memory", MemoryInv, [Next]_vars
  PROVE  MemoryInv' /\ [MemoryContract!Next]_(MemoryContract!contractVars)
<1>1. CASE Call
  BY <1>1, MemoryCreateStep, MemoryUpdateStep, MemoryDeleteStep, MemoryDropStep, MemoryReadStep
  DEF Call, BehindTheLog, OnLog, Of
<1>2. CASE UNCHANGED <<callers, memory>>
  <2>1. UNCHANGED <<now, owner, live, events, mVersions, mSnapshots, mProjects, mReply>>
    BY <1>2 DEF callers, memory
  <2>2. MemoryInv'
    BY <2>1, NothingWritten
  <2> QED
    BY <2>1, <2>2 DEF MemoryContract!contractVars
<1> QED
  BY <1>1, <1>2 DEF Next, vars

LEMMA MemoryIdle ==
  ASSUME backend # "memory", [Next]_vars PROVE UNCHANGED MemoryContract!contractVars
<1>1. UNCHANGED memory
  BY DEF Next, vars, Call, Create, Update, Get, List, Delete, NewProject, Projects, DropProject,
         BehindTheLog, OnMemory, ReadLog, WriteLog, OnLog, OnSql, Of
<1> QED
  BY <1>1 DEF memory, MemoryContract!contractVars

\* The memory store's answers, of any length of calls by any number of tenants, are those of
\* the contract.
THEOREM MemoryIsTheContract == Spec => MemoryHonoursContract
<1>1. Init => (backend = "memory" => MemoryInv) /\ MemoryContract!Init
  BY MemoryOpens
<1>2. (backend = "memory" => MemoryInv) /\ [Next]_vars =>
        (backend = "memory" => MemoryInv)' /\ [MemoryContract!Next]_(MemoryContract!contractVars)
  <2> SUFFICES ASSUME backend = "memory" => MemoryInv, [Next]_vars
               PROVE  /\ (backend = "memory" => MemoryInv)'
                      /\ [MemoryContract!Next]_(MemoryContract!contractVars)
    OBVIOUS
  <2>1. backend' = backend
    BY DEF Next, vars
  <2>2. CASE backend = "memory"
    BY <2>2, MemoryStep
  <2>3. CASE backend # "memory"
    BY <2>1, <2>3, MemoryIdle
  <2> QED
    BY <2>2, <2>3
<1> QED
  BY <1>1, <1>2, PTL DEF Spec, MemoryHonoursContract, MemoryContract!Spec

-----------------------------------------------------------------------------
(* The newest first.                                                       *)

Above(S, x) == {y \in S : y.createdAt > x.createdAt}

LEMMA RankGrows ==
  ASSUME NEW S, IsFiniteSet(S), \A x \in S : x.createdAt \in Nat,
         NEW x \in S, NEW y \in S, x.createdAt > y.createdAt
  PROVE  Cardinality(Above(S, x)) < Cardinality(Above(S, y))
<1>1. Above(S, x) \subseteq Above(S, y)
  <2>1. ASSUME NEW z \in S, z.createdAt > x.createdAt PROVE z.createdAt > y.createdAt
    <3>1. x.createdAt \in Nat /\ y.createdAt \in Nat /\ z.createdAt \in Nat
      OBVIOUS
    <3> QED
      BY <2>1, <3>1
  <2> QED
    BY <2>1 DEF Above
<1>2. x \in Above(S, y) /\ x \notin Above(S, x)
  <2>1. x.createdAt \in Nat
    OBVIOUS
  <2> QED
    BY <2>1 DEF Above
<1>3. IsFiniteSet(Above(S, y))
  <2>1. Above(S, y) \subseteq S
    BY DEF Above
  <2> QED
    BY <2>1, FS_Subset
<1>4. Above(S, x) # Above(S, y)
  BY <1>2
<1> QED
  BY <1>1, <1>3, <1>4, FS_Subset, FS_CardinalityType

\* A list whose times go down is its elements, newest first.
LEMMA ListIsSorted ==
  ASSUME NEW n \in Nat, NEW q, \A k \in 1 .. n : q[k].createdAt \in Nat,
         \A j, k \in 1 .. n : j < k => q[j].createdAt > q[k].createdAt
  PROVE  LET S == {q[k] : k \in 1 .. n} IN
         /\ IsFiniteSet(S) /\ Cardinality(S) = n
         /\ NewestFirst(S) = [k \in 1 .. n |-> q[k]]
<1> DEFINE S(m) == {q[k] : k \in 1 .. m}
           nth(k) == CHOOSE x \in S(n) : Cardinality(Above(S(n), x)) = k - 1
<1>1. ASSUME NEW j \in 1 .. n, NEW k \in 1 .. n, j # k
      PROVE  q[j].createdAt # q[k].createdAt /\ q[j] # q[k]
  <2>1. j < k \/ k < j
    BY <1>1
  <2>2. q[j].createdAt \in Nat /\ q[k].createdAt \in Nat
    OBVIOUS
  <2>3. q[j].createdAt > q[k].createdAt \/ q[k].createdAt > q[j].createdAt
    BY <2>1
  <2>4. q[j].createdAt # q[k].createdAt
    BY <2>2, <2>3
  <2> QED
    BY <2>4
<1>2. ASSUME NEW m \in 0 .. n PROVE IsFiniteSet(S(m)) /\ Cardinality(S(m)) = m
  <2> DEFINE g == [k \in 1 .. m |-> q[k]]
             T == S(m)
  <2>1. \A k \in 1 .. m : k \in 1 .. n
    OBVIOUS
  <2>2. g \in [1 .. m -> T] /\ \A y \in T : \E k \in 1 .. m : g[k] = y
    OBVIOUS
  <2>3. \A j, k \in DOMAIN g : g[j] = g[k] => j = k
    BY <1>1, <2>1
  <2> HIDE DEF T, g
  <2>4. g \in Bijection(1 .. m, T)
    BY <2>2, <2>3 DEF Bijection, Injection, IsInjective, Surjection
  <2>5. ExistsBijection(1 .. m, T)
    BY <2>4 DEF ExistsBijection
  <2>6. m \in Nat
    OBVIOUS
  <2>7. IsFiniteSet(1 .. m) /\ Cardinality(1 .. m) = IF 1 > m THEN 0 ELSE m - 1 + 1
    BY <2>6, FS_Interval
  <2>8. IsFiniteSet(T) /\ Cardinality(T) = Cardinality(1 .. m)
    BY <2>5, <2>7, FS_Bijection
  <2> QED
    BY <2>6, <2>7, <2>8 DEF T
<1>3. n \in 0 .. n
  OBVIOUS
<1>4. IsFiniteSet(S(n)) /\ Cardinality(S(n)) = n
  BY <1>2, <1>3
<1>5. ASSUME NEW k \in 1 .. n PROVE Cardinality(Above(S(n), q[k])) = k - 1
  <2>1. ASSUME NEW j \in 1 .. n PROVE q[j].createdAt > q[k].createdAt <=> j \in 1 .. (k - 1)
    <3>1. q[j].createdAt \in Nat /\ q[k].createdAt \in Nat
      OBVIOUS
    <3>2. CASE j < k
      <4>1. q[j].createdAt > q[k].createdAt
        BY <3>2
      <4> QED
        BY <3>2, <4>1
    <3>3. CASE j = k
      BY <3>1, <3>3
    <3>4. CASE k < j
      <4>1. q[k].createdAt > q[j].createdAt
        BY <3>4
      <4> QED
        BY <3>1, <3>4, <4>1
    <3> QED
      BY <3>2, <3>3, <3>4
  <2>2. \A j \in 1 .. (k - 1) : j \in 1 .. n
    OBVIOUS
  <2>3. Above(S(n), q[k]) = S(k - 1)
    BY <2>1, <2>2 DEF Above
  <2>4. k - 1 \in 0 .. n
    OBVIOUS
  <2> QED
    BY <1>2, <2>3, <2>4
<1>6. ASSUME NEW k \in 1 .. n PROVE nth(k) = q[k]
  <2>1. \E x \in S(n) : Cardinality(Above(S(n), x)) = k - 1
    BY <1>5
  <2>2. nth(k) \in S(n) /\ Cardinality(Above(S(n), nth(k))) = k - 1
    BY <2>1
  <2> HIDE DEF nth
  <2>3. PICK j \in 1 .. n : nth(k) = q[j]
    BY <2>2
  <2>4. j - 1 = k - 1
    BY <1>5, <2>2, <2>3
  <2>5. j = k
    BY <2>4
  <2> QED
    BY <2>3, <2>5
<1> HIDE DEF nth
<1>7. NewestFirst(S(n)) = [k \in 1 .. n |-> nth(k)]
  BY <1>4 DEF NewestFirst, nth, Above
<1> QED
  BY <1>4, <1>6, <1>7

\* Every finite set with times of their own is such a list.
LEMMA SortedIs ==
  ASSUME NEW S, IsFiniteSet(S), \A x \in S : x.createdAt \in Nat,
         \A x, y \in S : x.createdAt = y.createdAt => x = y
  PROVE  LET q == NewestFirst(S)
             n == Cardinality(S)
         IN /\ n \in Nat /\ q \in Seq(S) /\ Len(q) = n
            /\ S = {q[k] : k \in 1 .. n}
            /\ \A j, k \in 1 .. n : j < k => q[j].createdAt > q[k].createdAt
<1> DEFINE n == Cardinality(S)
           rank == [x \in S |-> Cardinality(Above(S, x)) + 1]
           nth(k) == CHOOSE x \in S : Cardinality(Above(S, x)) = k - 1
           q == [k \in 1 .. n |-> nth(k)]
<1>1. n \in Nat
  BY FS_CardinalityType
<1>2. ASSUME NEW x \in S PROVE Cardinality(Above(S, x)) \in 0 .. (n - 1)
  <2>1. Above(S, x) \subseteq S /\ x \notin Above(S, x)
    <3>1. x.createdAt \in Nat
      OBVIOUS
    <3> QED
      BY <3>1 DEF Above
  <2>2. IsFiniteSet(Above(S, x)) /\ Cardinality(Above(S, x)) < n
    BY <2>1, FS_Subset, FS_CardinalityType
  <2>3. Cardinality(Above(S, x)) \in Nat
    BY <2>2, FS_CardinalityType
  <2> QED
    BY <1>1, <2>2, <2>3
<1>3. ASSUME NEW x \in S, NEW y \in S, Cardinality(Above(S, x)) = Cardinality(Above(S, y))
      PROVE  x = y
  <2>1. ~(x.createdAt > y.createdAt) /\ ~(y.createdAt > x.createdAt)
    <3>1. Cardinality(Above(S, x)) \in Nat
      BY <1>2
    <3>2. x.createdAt > y.createdAt => Cardinality(Above(S, x)) < Cardinality(Above(S, y))
      BY RankGrows
    <3>3. y.createdAt > x.createdAt => Cardinality(Above(S, y)) < Cardinality(Above(S, x))
      BY RankGrows
    <3> QED
      BY <1>3, <3>1, <3>2, <3>3
  <2>2. x.createdAt \in Nat /\ y.createdAt \in Nat
    OBVIOUS
  <2>3. x.createdAt = y.createdAt
    BY <2>1, <2>2
  <2> QED
    BY <2>3
<1>4. rank \in Injection(S, 1 .. n)
  <2>1. rank \in [S -> 1 .. n]
    BY <1>1, <1>2
  <2>2. \A x, y \in DOMAIN rank : rank[x] = rank[y] => x = y
    <3>1. \A x \in S : Cardinality(Above(S, x)) \in Nat
      BY <1>2
    <3> QED
      BY <1>3, <3>1
  <2> HIDE DEF rank
  <2> QED
    BY <2>1, <2>2 DEF Injection, IsInjective
<1>5. rank \in Surjection(S, 1 .. n)
  <2>1. IsFiniteSet(1 .. n) /\ Cardinality(1 .. n) = IF 1 > n THEN 0 ELSE n - 1 + 1
    BY <1>1, FS_Interval
  <2>2. Cardinality(1 .. n) = n
    BY <1>1, <2>1
  <2> HIDE DEF rank
  <2> QED
    BY <1>4, <2>1, <2>2, FS_Injection
<1>6. ASSUME NEW k \in 1 .. n PROVE \E x \in S : Cardinality(Above(S, x)) = k - 1
  <2>1. \E x \in S : rank[x] = k
    BY <1>5 DEF Surjection
  <2>2. PICK x \in S : rank[x] = k
    BY <2>1
  <2>3. Cardinality(Above(S, x)) \in Nat
    BY <1>2
  <2> QED
    BY <2>2, <2>3
<1>7. ASSUME NEW k \in 1 .. n PROVE nth(k) \in S /\ Cardinality(Above(S, nth(k))) = k - 1
  BY <1>6
<1> HIDE DEF nth
<1>8. NewestFirst(S) = q
  BY DEF NewestFirst, nth, Above
<1>9. q \in Seq(S) /\ Len(q) = n
  BY <1>1, <1>7
<1>10. ASSUME NEW x \in S PROVE \E k \in 1 .. n : x = q[k]
  <2> DEFINE k == Cardinality(Above(S, x)) + 1
  <2>1. k \in 1 .. n /\ Cardinality(Above(S, x)) = k - 1
    BY <1>1, <1>2
  <2> HIDE DEF k
  <2>2. nth(k) = x
    BY <1>3, <1>7, <2>1
  <2> QED
    BY <2>1, <2>2
<1>11. \A k \in 1 .. n : q[k] \in S
  BY <1>7
<1>12. ASSUME NEW j \in 1 .. n, NEW k \in 1 .. n, j < k PROVE nth(j).createdAt > nth(k).createdAt
  <2> DEFINE x == nth(j)
             y == nth(k)
  <2>1. /\ x \in S /\ y \in S
        /\ Cardinality(Above(S, x)) = j - 1 /\ Cardinality(Above(S, y)) = k - 1
    BY <1>7
  <2> HIDE DEF x, y
  <2>2. x # y
    BY <1>12, <2>1
  <2>3. ~(y.createdAt > x.createdAt)
    <3>1. y.createdAt > x.createdAt => Cardinality(Above(S, y)) < Cardinality(Above(S, x))
      BY <2>1, RankGrows
    <3> QED
      BY <1>12, <2>1, <3>1
  <2>4. x.createdAt \in Nat /\ y.createdAt \in Nat /\ x.createdAt # y.createdAt
    BY <2>1, <2>2
  <2> QED
    BY <2>3, <2>4 DEF x, y
<1> QED
  BY <1>1, <1>8, <1>9, <1>10, <1>11, <1>12

LEMMA SqlReads ==
  ASSUME NEW s, NEW q
  PROVE  Sql!NoAggregate = NoAggregate /\ Sql!rehydrate(s, q) = rehydrate(s, q)
<1>1. \A p, types : Sql!Only(p, types) = Only(p, types)
  BY DEF Sql!Only, Only
<1>2. \A p, types, d : Sql!LastOf(p, types, d) = LastOf(p, types, d)
  BY DEF Sql!LastOf, LastOf, Sql!Places, Places
<1>3. \A p, types : Sql!Cardinality(Sql!Places(p, types)) = Cardinality(Places(p, types))
  BY DEF Sql!Places, Places, Sql!Cardinality, Cardinality, Sql!IsFiniteSet, IsFiniteSet
<1>4. \A p : Sql!TrimThread(p) = TrimThread(p)
  BY DEF Sql!TrimThread, TrimThread, Sql!KeepLast, KeepLast
<1>5. Sql!Speaker = Speaker
  BY DEF Sql!Speaker, Speaker
<1>6. \A p : Sql!Thread(p) = Thread(p)
  BY <1>1, <1>4, <1>5 DEF Sql!Thread, Thread
<1>7. \A p : Sql!Build(s, p) = Build(s, p)
  BY <1>1, <1>2, <1>3, <1>6
  DEF Sql!Build, Build, Sql!None, None, Sql!StatusBearing, StatusBearing,
  Sql!KeepLast, KeepLast
<1>8. Sql!NoAggregate = NoAggregate
  BY DEF Sql!NoAggregate, NoAggregate
<1> QED
  BY <1>7, <1>8 DEF Sql!rehydrate, rehydrate

LEMMA SqlLists ==
  ASSUME NEW S, NEW q, NEW filter
  PROVE  Sql!NewestFirst(S) = NewestFirst(S) /\ Sql!Page(q, filter) = Page(q, filter)
  BY DEF Sql!NewestFirst, NewestFirst, Sql!Cardinality, Cardinality, Sql!IsFiniteSet, IsFiniteSet,
         Sql!Page, Page

LEMMA SqlContractReads ==
  ASSUME NEW s, NEW q
  PROVE  SqlContract!NoAggregate = NoAggregate /\ SqlContract!rehydrate(s, q) = rehydrate(s, q)
<1>1. \A p, types : SqlContract!Only(p, types) = Only(p, types)
  BY DEF SqlContract!Only, Only
<1>2. \A p, types, d : SqlContract!LastOf(p, types, d) = LastOf(p, types, d)
  BY DEF SqlContract!LastOf, LastOf, SqlContract!Places, Places
<1>3. \A p, types : SqlContract!Cardinality(SqlContract!Places(p, types)) = Cardinality(Places(p, types))
  BY DEF SqlContract!Places, Places, SqlContract!Cardinality, Cardinality,
     SqlContract!IsFiniteSet, IsFiniteSet
<1>4. \A p : SqlContract!TrimThread(p) = TrimThread(p)
  BY DEF SqlContract!TrimThread, TrimThread, SqlContract!KeepLast, KeepLast
<1>5. SqlContract!Speaker = Speaker
  BY DEF SqlContract!Speaker, Speaker
<1>6. \A p : SqlContract!Thread(p) = Thread(p)
  BY <1>1, <1>4, <1>5 DEF SqlContract!Thread, Thread
<1>7. \A p : SqlContract!Build(s, p) = Build(s, p)
  BY <1>1, <1>2, <1>3, <1>6
  DEF SqlContract!Build, Build, SqlContract!None, None, SqlContract!StatusBearing, StatusBearing,
  SqlContract!KeepLast, KeepLast
<1>8. SqlContract!NoAggregate = NoAggregate
  BY DEF SqlContract!NoAggregate, NoAggregate
<1> QED
  BY <1>7, <1>8 DEF SqlContract!rehydrate, rehydrate

LEMMA SqlContractLists ==
  ASSUME NEW S, NEW filter
  PROVE  SqlContract!filterSessions(S, filter) = filterSessions(S, filter)
<1>1. \A T : SqlContract!NewestFirst(T) = NewestFirst(T)
  BY DEF SqlContract!NewestFirst, NewestFirst, SqlContract!Cardinality, Cardinality,
     SqlContract!IsFiniteSet,
     IsFiniteSet
<1>2. \A a : SqlContract!Matches(a, filter) <=> Matches(a, filter)
  BY DEF SqlContract!Matches, Matches, SqlContract!None, None
<1>3. \A q : SqlContract!Page(q, filter) = Page(q, filter)
  BY DEF SqlContract!Page, Page
<1> QED
  BY <1>1, <1>2, <1>3 DEF SqlContract!filterSessions, filterSessions

-----------------------------------------------------------------------------
(* What the tables say of a session.                                       *)

\* A session is created by its first event, and by that alone.
BornOnce(q) == \A k \in DOMAIN q : q[k].type = "created" <=> k = 1

Standing(q) == LastOf(q, StatusBearing, Head(q))

LEMMA BornReads ==
  ASSUME NEW s, NEW q \in Seq(Written), q # <<>>, BornOnce(q)
  PROVE  /\ rehydrate(s, q).createdAt = Head(q).at /\ Head(q).at \in Nat
         /\ Head(q).type = "created"
         /\ rehydrate(s, q).status =
              IF Standing(q).type \in StatusBearing THEN Standing(q).type ELSE "queued"
<1> DEFINE b == Build(s, q)
           created == LastOf(q, {"created"}, Head(q))
<1>1. rehydrate(s, q) = b
  <2>1. rehydrate(s, q) = CHOOSE a \in {Build(s, read) : read \in {q}} : TRUE
    BY DEF rehydrate
  <2>2. \A a : a \in {Build(s, read) : read \in {q}} <=> a = b
    OBVIOUS
  <2> HIDE DEF b
  <2> QED
    BY <2>1, <2>2
<1>2. 1 \in DOMAIN q /\ Head(q) = q[1] /\ q[1] \in Written
  OBVIOUS
<1>3. q[1].type = "created" /\ q[1].at \in Nat
  <2>1. q[1].at \in 1 .. MaxEvents
    BY <1>2 DEF Written
  <2> QED
    BY <1>2, <2>1, CallsKnown DEF BornOnce
<1>4. created = q[1]
  <2>1. Places(q, {"created"}) = {1}
    BY <1>2 DEF Places, BornOnce
  <2> QED
    BY <2>1, LastOfIs
<1>5. /\ b.createdAt = IF created.type = "created" THEN created.at ELSE 0
      /\ b.status = LET standing == LastOf(q, StatusBearing, created)
                    IN IF standing.type \in StatusBearing THEN standing.type ELSE "queued"
  BY DEF Build
<1> HIDE DEF b, created
<1> QED
  BY <1>1, <1>2, <1>3, <1>4, <1>5 DEF Standing

\* The last status is that of the event appended, if it bears one.
LEMMA StandingGrows ==
  ASSUME NEW q \in Seq(Written), NEW f \in Written
  PROVE  LET r == Append(q, f) IN
         /\ f.type \in StatusBearing => Standing(r) = f
         /\ f.type \notin StatusBearing /\ q # <<>> => Standing(r) = Standing(q)
<1> DEFINE r == Append(q, f)
           P == Places(q, StatusBearing)
           R == Places(r, StatusBearing)
<1>1. /\ r \in Seq(Written) /\ DOMAIN r = 1 .. Len(q) + 1 /\ r[Len(q) + 1] = f
      /\ \A k \in 1 .. Len(q) : r[k] = q[k]
      /\ DOMAIN q = 1 .. Len(q) /\ Len(q) \in Nat
      /\ q # <<>> => Head(r) = Head(q)
  OBVIOUS
<1> HIDE DEF r
<1>2. R = P \cup (IF f.type \in StatusBearing THEN {Len(q) + 1} ELSE {})
  BY <1>1 DEF Places
<1>3. P \subseteq 1 .. Len(q)
  BY <1>1 DEF Places
<1> HIDE DEF P, R
<1>4. ASSUME f.type \in StatusBearing PROVE Standing(r) = f
  <2>1. Len(q) + 1 \in R /\ \A k \in R : k <= Len(q) + 1
    BY <1>1, <1>2, <1>3, <1>4
  <2>2. PICK k \in R : LastOf(r, StatusBearing, Head(r)) = r[k] /\ \A j \in R : j <= k
    BY <1>1, <2>1, LastOfIs DEF R
  <2>3. k = Len(q) + 1
    BY <1>1, <1>2, <1>3, <1>4, <2>1, <2>2
  <2> QED
    BY <1>1, <2>2, <2>3 DEF Standing
<1>5. ASSUME f.type \notin StatusBearing, q # <<>> PROVE Standing(r) = Standing(q)
  <2>1. R = P
    BY <1>2, <1>5
  <2>2. CASE P = {}
    BY <1>1, <1>5, <2>1, <2>2, LastOfIs DEF Standing, P, R
  <2>3. CASE P # {}
    <3>1. PICK j \in P : LastOf(q, StatusBearing, Head(q)) = q[j] /\ \A i \in P : i <= j
      BY <2>3, LastOfIs DEF P
    <3>2. PICK k \in P : LastOf(r, StatusBearing, Head(r)) = r[k] /\ \A i \in P : i <= k
      BY <1>1, <2>1, <2>3, LastOfIs DEF R
    <3>3. j = k
      BY <1>3, <3>1, <3>2
    <3> QED
      BY <1>1, <1>3, <3>1, <3>2, <3>3 DEF Standing
  <2> QED
    BY <2>2, <2>3
<1> QED
  BY <1>4, <1>5 DEF r

\* The directory's record of a session.
RecordOf(s, q) ==
  IF q = <<>> \/ Head(q).project = None THEN Sql!NoRecord
  ELSE [project |-> Head(q).project, status |-> rehydrate(s, q).status, createdAt |-> Head(q).at]

LEMMA DirectoryFollows ==
  ASSUME NEW s \in Session, NEW q \in Seq(Written), NEW f \in Written, BornOnce(q), BornOnce(Append(q, f)),
         q # <<>> => f.project = None
  PROVE  RecordOf(s, Append(q, f)) = Sql!ProjectEvent(RecordOf(s, q), f)
<1> DEFINE r == Append(q, f)
<1>1. /\ r \in Seq(Written) /\ r # <<>>
      /\ q # <<>> => Head(r) = Head(q) /\ f.type # "created"
      /\ q = <<>> => DOMAIN r = {1} /\ r[1] = f /\ Head(r) = f /\ f.type = "created"
  <2>1. /\ r \in Seq(Written) /\ DOMAIN r = 1 .. Len(q) + 1 /\ r[Len(q) + 1] = f
        /\ Len(q) \in Nat /\ (q = <<>> <=> Len(q) = 0)
        /\ Head(r) = r[1]
    OBVIOUS
  <2>2. r # <<>>
    OBVIOUS
  <2>3. q # <<>> => Head(r) = Head(q)
    OBVIOUS
  <2>4. Len(q) + 1 \in DOMAIN r
    BY <2>1
  <2>5. f.type = "created" <=> Len(q) + 1 = 1
    BY <2>1, <2>4 DEF BornOnce
  <2> HIDE DEF r
  <2> QED
    BY <2>1, <2>5, <2>2, <2>3
<1> HIDE DEF r
<1>2. Sql!None = None /\ Sql!StatusBearing = StatusBearing
  BY DEF Sql!None, None, Sql!StatusBearing, StatusBearing
<1>3. Sql!NoRecord = [project |-> None, status |-> "absent", createdAt |-> 0]
  BY <1>2 DEF Sql!NoRecord
<1>4. Standing(r) = IF f.type \in StatusBearing THEN f ELSE IF q # <<>> THEN Standing(q) ELSE Standing(r)
  BY StandingGrows DEF r
<1>5. CASE q = <<>>
  <2>1. f.type = "created" /\ Head(r) = f
    BY <1>1, <1>5
  <2>2. rehydrate(s, r).status = "queued"
    <3>1. rehydrate(s, r).status =
            IF Standing(r).type \in StatusBearing THEN Standing(r).type ELSE "queued"
      BY <1>1, BornReads DEF r
    <3>2. Places(r, StatusBearing) = {}
      BY <1>1, <1>5, <2>1 DEF Places, StatusBearing
    <3>3. Standing(r) = f
      BY <1>1, <2>1, <3>2, LastOfIs DEF Standing
    <3> QED
      BY <2>1, <3>1, <3>3 DEF StatusBearing
  <2>3. RecordOf(s, q) = Sql!NoRecord
    BY <1>5 DEF RecordOf
  <2>4. RecordOf(s, r) = IF f.project = None THEN Sql!NoRecord
                         ELSE [project |-> f.project, status |-> "queued", createdAt |-> f.at]
    BY <1>1, <2>1, <2>2 DEF RecordOf
  <2> QED
    BY <1>2, <2>1, <2>3, <2>4 DEF Sql!ProjectEvent, r
<1>6. CASE q # <<>>
  <2>1. Head(r) = Head(q) /\ f.type # "created"
    BY <1>1, <1>6
  <2>2. rehydrate(s, r).status =
          IF f.type \in StatusBearing THEN f.type ELSE rehydrate(s, q).status
    <3>1. rehydrate(s, r).status =
            IF Standing(r).type \in StatusBearing THEN Standing(r).type ELSE "queued"
      BY <1>1, BornReads DEF r
    <3>2. rehydrate(s, q).status =
            IF Standing(q).type \in StatusBearing THEN Standing(q).type ELSE "queued"
      BY <1>6, BornReads
    <3> QED
      BY <1>4, <1>6, <3>1, <3>2
  <2>3. CASE Head(q).project = None
    <3>1. RecordOf(s, q) = Sql!NoRecord /\ RecordOf(s, r) = Sql!NoRecord
      BY <2>1, <2>3 DEF RecordOf
    <3> QED
      BY <2>1, <3>1 DEF Sql!ProjectEvent, r
  <2>4. CASE Head(q).project # None
    <3> DEFINE old == RecordOf(s, q)
    <3>1. /\ old = [project |-> Head(q).project, status |-> rehydrate(s, q).status,
                    createdAt |-> Head(q).at]
          /\ RecordOf(s, r) = [project |-> Head(q).project, status |-> rehydrate(s, r).status,
                               createdAt |-> Head(q).at]
      BY <1>1, <1>6, <2>1, <2>4 DEF RecordOf
    <3>2. old # Sql!NoRecord
      <4>1. old.project # None /\ Sql!NoRecord.project = None
        BY <1>3, <2>4, <3>1
      <4> QED
        BY <4>1
    <3>3. Sql!ProjectEvent(old, f) = IF f.type \in StatusBearing THEN [old EXCEPT !.status = f.type]
                                     ELSE old
      BY <1>2, <2>1, <3>2 DEF Sql!ProjectEvent
    <3>4. RecordOf(s, r) = IF f.type \in StatusBearing THEN [old EXCEPT !.status = f.type] ELSE old
      BY <2>2, <3>1
    <3> QED
      BY <3>3, <3>4 DEF r
  <2> QED
    BY <2>3, <2>4
<1> QED
  BY <1>5, <1>6

LEMMA RanksLast ==
  ASSUME dialect # "postgres", NEW s \in Session, NEW q \in Seq(Written), q # <<>>, BornOnce(q)
  PROVE  LET k == CHOOSE k \in DOMAIN q :
                    /\ Sql!RanksInto(q[k])
                    /\ \A j \in DOMAIN q : Sql!RanksInto(q[j]) => j <= k
         IN /\ \E i \in DOMAIN q : Sql!RanksInto(q[i])
            /\ Sql!StatusOf(q[k].type) = rehydrate(s, q).status
<1> DEFINE R(k) == Sql!RanksInto(q[k])
           Top(k) == R(k) /\ \A j \in DOMAIN q : R(j) => j <= k
           k == CHOOSE k \in DOMAIN q : Top(k)
           P == Places(q, StatusBearing)
<1>1. ASSUME NEW j \in DOMAIN q PROVE R(j) <=> j \in P \/ j = 1
  <2>1. q[j] \in Written
    OBVIOUS
  <2>2. q[j].type \in Types \cup {"created"}
    BY <2>1 DEF Written
  <2>3. Sql!StatusPreserving = StatusPreserving
    BY DEF Sql!StatusPreserving, StatusPreserving
  <2>4. R(j) <=> q[j].type \notin StatusPreserving \cup {"NULL"}
    BY <2>3 DEF Sql!RanksInto, Sql!jsonExtract
  <2>5. R(j) <=> q[j].type \in StatusBearing \cup {"created"}
    BY <2>2, <2>4, CallsKnown DEF StatusBearing, StatusPreserving
  <2> QED
    BY <2>5 DEF Places, BornOnce
<1>2. 1 \in DOMAIN q /\ Head(q) = q[1] /\ DOMAIN q \subseteq Nat \ {0}
  OBVIOUS
<1>3. Head(q).type = "created" /\ Head(q).type \notin StatusBearing
  BY <1>2, BornReads DEF StatusBearing
<1>4. rehydrate(s, q).status =
        IF Standing(q).type \in StatusBearing THEN Standing(q).type ELSE "queued"
  BY BornReads
<1>5. P \subseteq DOMAIN q /\ \A j \in P : q[j].type \in StatusBearing
  BY DEF Places
<1> HIDE DEF R
<1>6. CASE P = {}
  <2>1. Standing(q) = Head(q)
    BY <1>6, LastOfIs DEF Standing
  <2> HIDE DEF P
  <2>2. Top(1) /\ \A j \in DOMAIN q : Top(j) => j = 1
    BY <1>1, <1>2, <1>6
  <2>3. k = 1
    BY <1>2, <2>2
  <2> HIDE DEF k
  <2> QED
    BY <1>1, <1>2, <1>3, <1>4, <2>1, <2>3 DEF Sql!StatusOf, k, R
<1>7. CASE P # {}
  <2>1. PICK m \in P : Standing(q) = q[m] /\ \A j \in P : j <= m
    BY <1>7, LastOfIs DEF Standing
  <2> HIDE DEF P
  <2>2. m \in DOMAIN q /\ q[m].type \in StatusBearing /\ q[m].type # "created"
    BY <1>5 DEF StatusBearing
  <2>3. Top(m)
    BY <1>1, <1>2, <2>1, <2>2
  <2>4. \A j \in DOMAIN q : Top(j) => j = m
    BY <1>2, <2>2, <2>3
  <2> HIDE DEF Top
  <2>5. k = m
    BY <2>2, <2>3, <2>4
  <2> HIDE DEF k
  <2> QED
    BY <1>1, <1>2, <1>4, <2>1, <2>2, <2>5 DEF Sql!StatusOf, k, R, Top
<1> QED
  BY <1>6, <1>7

\* A listing ranks ids in the database and rebuilds those of the page: it answers what ranking
\* the sessions themselves answers.
LEMMA ListedIs ==
  ASSUME NEW t \in Tenant, NEW filter \in Filters, rows[t] \in [Session -> Seq(Written)],
         NEW M, M \subseteq {s \in Session : rows[t][s] # <<>>},
         \A s \in M : BornOnce(rows[t][s]),
         \A x, y \in M : Head(rows[t][x]).at = Head(rows[t][y]).at => x = y,
         NEW created, created = [s \in M |-> Head(rows[t][s]).at]
  PROVE  LET list == NewestFirst({rehydrate(s, rows[t][s]) : s \in M})
         IN Sql!Listed(t, created, filter) = [sessions |-> Page(list, filter), total |-> Len(list)]
<1> DEFINE B == {[id |-> s, createdAt |-> created[s]] : s \in M}
           newest == NewestFirst(B)
           n == Cardinality(B)
           whole(k) == rehydrate(newest[k].id, rows[t][newest[k].id])
           f == [k \in 1 .. n |-> whole(k)]
           A == {rehydrate(s, rows[t][s]) : s \in M}
           o == filter.offset
           m == IF o + filter.limit < n THEN o + filter.limit ELSE n
           page == Page(newest, filter)
           L == IF o + 1 <= m THEN m - o ELSE 0
<1>1. /\ n \in Nat /\ newest \in Seq(B) /\ Len(newest) = n
      /\ B = {newest[k] : k \in 1 .. n}
      /\ \A j, k \in 1 .. n : j < k => newest[j].createdAt > newest[k].createdAt
  <2>1. IsFiniteSet(B)
    <3>1. IsFiniteSet(M)
      BY CallsKnown, FS_Subset
    <3> DEFINE g == [s \in M |-> [id |-> s, createdAt |-> created[s]]]
    <3>2. g \in Surjection(M, B)
      BY DEF Surjection
    <3> HIDE DEF g, B
    <3> QED
      BY <3>1, <3>2, FS_Surjection
  <2>2. ASSUME NEW x \in B PROVE x.createdAt \in Nat
    <3>1. PICK s \in M : x = [id |-> s, createdAt |-> created[s]]
      OBVIOUS
    <3>2. rows[t][s] \in Seq(Written) /\ rows[t][s] # <<>> /\ BornOnce(rows[t][s])
      OBVIOUS
    <3> QED
      BY <3>1, <3>2, BornReads
  <2>3. ASSUME NEW x \in B, NEW y \in B, x.createdAt = y.createdAt PROVE x = y
    <3>1. PICK a \in M : x = [id |-> a, createdAt |-> created[a]]
      OBVIOUS
    <3>2. PICK b \in M : y = [id |-> b, createdAt |-> created[b]]
      OBVIOUS
    <3>3. a = b
      BY <2>3, <3>1, <3>2
    <3> QED
      BY <3>1, <3>2, <3>3
  <2> HIDE DEF B
  <2> QED
    BY <2>1, <2>2, <2>3, SortedIs
<1>2. ASSUME NEW k \in 1 .. n
      PROVE  /\ newest[k].id \in M /\ newest[k].createdAt = created[newest[k].id]
             /\ f[k].createdAt = newest[k].createdAt /\ f[k].createdAt \in Nat
  <2>1. newest[k] \in B
    BY <1>1
  <2>2. PICK s \in M : newest[k] = [id |-> s, createdAt |-> created[s]]
    BY <2>1
  <2>3. rows[t][s] \in Seq(Written) /\ rows[t][s] # <<>> /\ BornOnce(rows[t][s])
    OBVIOUS
  <2>4. rehydrate(s, rows[t][s]).createdAt = Head(rows[t][s]).at /\ Head(rows[t][s]).at \in Nat
    BY <2>3, BornReads
  <2> HIDE DEF newest, n
  <2>5. f[k] = rehydrate(s, rows[t][s]) /\ created[s] = Head(rows[t][s]).at
    BY <2>2
  <2> HIDE DEF f
  <2> QED
    BY <2>2, <2>4, <2>5
<1>3. {f[k] : k \in 1 .. n} = A
  <2>1. \A k \in 1 .. n : f[k] \in A
    BY <1>2
  <2>2. ASSUME NEW s \in M PROVE \E k \in 1 .. n : f[k] = rehydrate(s, rows[t][s])
    <3>1. [id |-> s, createdAt |-> created[s]] \in B
      OBVIOUS
    <3>2. PICK k \in 1 .. n : newest[k] = [id |-> s, createdAt |-> created[s]]
      BY <1>1, <3>1
    <3> HIDE DEF newest, n, B
    <3>3. f[k] = rehydrate(s, rows[t][s])
      BY <3>2
    <3> QED
      BY <3>3
  <2> HIDE DEF f
  <2> QED
    BY <2>1, <2>2
<1>4. /\ \A k \in 1 .. n : f[k].createdAt \in Nat
      /\ \A j, k \in 1 .. n : j < k => f[j].createdAt > f[k].createdAt
  BY <1>1, <1>2
<1>5. /\ o \in Nat /\ m \in Nat /\ m <= n
      /\ L \in Nat /\ \A k \in 1 .. L : o + k \in 1 .. n
      /\ o + 1 <= m => m - (o + 1) + 1 = L /\ \A k \in 1 .. L : k + (o + 1) - 1 = o + k
      /\ ~(o + 1 <= m) => L = 0 /\ o + 1 > m
  <2>1. o \in Nat /\ filter.limit \in Nat
    BY CallsKnown
  <2>2. n \in Nat
    BY <1>1
  <2> HIDE DEF n, o
  <2>3. m \in Nat /\ m <= n
    BY <2>1, <2>2
  <2> HIDE DEF m
  <2>4. L \in Nat /\ (o + 1 <= m => L = m - o) /\ (~(o + 1 <= m) => L = 0 /\ o + 1 > m)
    BY <2>1, <2>3
  <2> HIDE DEF L
  <2>5. ASSUME NEW k \in 1 .. L PROVE o + k \in 1 .. n /\ k + (o + 1) - 1 = o + k
    <3>1. L # 0
      BY <2>4
    <3>2. L = m - o
      BY <2>4, <3>1
    <3> QED
      BY <2>1, <2>2, <2>3, <2>4, <3>2
  <2> QED
    BY <2>1, <2>2, <2>3, <2>4, <2>5
<1> HIDE DEF L
<1>6. page = [k \in 1 .. L |-> newest[o + k]]
  <2>1. page = SubSeq(newest, o + 1, m)
    BY <1>1 DEF Page
  <2> HIDE DEF newest, n, B, page, o, m
  <2>2. CASE o + 1 <= m
    <3>1. SubSeq(newest, o + 1, m) = [k \in 1 .. (m - (o + 1) + 1) |-> newest[k + (o + 1) - 1]]
      BY <1>1, <1>5
    <3> QED
      BY <1>5, <2>1, <2>2, <3>1
  <2>3. CASE ~(o + 1 <= m)
    <3>1. page = <<>>
      BY <1>1, <1>5, <2>1, <2>3
    <3> QED
      BY <1>5, <2>3, <3>1
  <2> QED
    BY <2>2, <2>3
<1> HIDE DEF m, o
<1>7. NewestFirst(A) = [k \in 1 .. n |-> f[k]]
  <2> HIDE DEF f, n, A
  <2> QED
    BY <1>1, <1>3, <1>4, ListIsSorted
<1>8. Sql!Fetched(t, {page[k].id : k \in DOMAIN page}) = [k \in 1 .. L |-> f[o + k]]
  <2> DEFINE g == [k \in 1 .. L |-> f[o + k]]
             ids == {page[k].id : k \in DOMAIN page}
  <2>1. {rehydrate(s, rows[t][s]) : s \in ids} = {g[k] : k \in 1 .. L}
    <3>1. DOMAIN page = 1 .. L /\ \A k \in 1 .. L : page[k] = newest[o + k]
      BY <1>6
    <3>2. \A k \in 1 .. L : f[o + k] = whole(o + k)
      BY <1>5
    <3> HIDE DEF newest, n, page, f
    <3>3. \A k \in 1 .. L : g[k] = rehydrate(page[k].id, rows[t][page[k].id])
      BY <3>1, <3>2
    <3> HIDE DEF g
    <3>4. \A k \in 1 .. L : page[k].id \in ids
      BY <3>1
    <3>5. ASSUME NEW s \in ids PROVE rehydrate(s, rows[t][s]) \in {g[k] : k \in 1 .. L}
      <4>1. PICK k \in 1 .. L : s = page[k].id
        BY <3>1
      <4> HIDE DEF ids
      <4> QED
        BY <3>3, <4>1
    <3> HIDE DEF ids
    <3>6. ASSUME NEW k \in 1 .. L PROVE g[k] \in {rehydrate(s, rows[t][s]) : s \in ids}
      BY <3>3, <3>4
    <3> QED
      BY <3>5, <3>6
  <2>2. Sql!Fetched(t, ids) = NewestFirst({rehydrate(s, rows[t][s]) : s \in ids})
    <3>1. {Sql!rehydrate(s, rows[t][s]) : s \in ids} = {rehydrate(s, rows[t][s]) : s \in ids}
      BY SqlReads
    <3> HIDE DEF ids
    <3> QED
      BY <3>1, SqlLists DEF Sql!Fetched
  <2>3. /\ \A k \in 1 .. L : g[k].createdAt \in Nat
        /\ \A j, k \in 1 .. L : j < k => g[j].createdAt > g[k].createdAt
    <3> HIDE DEF f, n
    <3>1. ASSUME NEW j \in 1 .. L, NEW k \in 1 .. L, j < k
          PROVE  g[j].createdAt > g[k].createdAt
      <4>1. o + j < o + k
        BY <1>5, <3>1
      <4> QED
        BY <1>4, <1>5, <4>1
    <3>2. \A k \in 1 .. L : g[k].createdAt \in Nat
      BY <1>4, <1>5
    <3> QED
      BY <3>1, <3>2
  <2> HIDE DEF f, page, ids
  <2>4. NewestFirst({g[k] : k \in 1 .. L}) = [k \in 1 .. L |-> g[k]]
    <3> HIDE DEF g
    <3> QED
      BY <1>5, <2>3, ListIsSorted
  <2> QED
    BY <2>1, <2>2, <2>4 DEF ids
<1>9. Page(NewestFirst(A), filter) = [k \in 1 .. L |-> f[o + k]] /\ Len(NewestFirst(A)) = n
  <2> DEFINE h == [k \in 1 .. n |-> f[k]]
             W == {h[k] : k \in 1 .. n}
  <2>1. n \in Nat
    BY <1>1
  <2> HIDE DEF f, n, A
  <2>2. h \in [1 .. n -> W]
    OBVIOUS
  <2>3. \A k \in 1 .. L : h[o + k] = f[o + k]
    BY <1>5
  <2>4. NewestFirst(A) = h
    BY <1>7
  <2> HIDE DEF h, W
  <2>5. h \in Seq(W) /\ Len(h) = n
    BY <2>1, <2>2
  <2>6. Page(h, filter) = SubSeq(h, o + 1, m)
    BY <2>5 DEF Page, m, o
  <2>7. CASE o + 1 <= m
    <3>1. SubSeq(h, o + 1, m) = [k \in 1 .. (m - (o + 1) + 1) |-> h[k + (o + 1) - 1]]
      BY <1>5, <2>1, <2>5
    <3>2. SubSeq(h, o + 1, m) = [k \in 1 .. L |-> h[o + k]]
      BY <1>5, <2>7, <3>1
    <3> QED
      BY <2>3, <2>4, <2>5, <2>6, <3>2
  <2>8. CASE ~(o + 1 <= m)
    <3>1. Page(h, filter) = <<>>
      BY <1>5, <2>1, <2>5, <2>6, <2>8
    <3> QED
      BY <1>5, <2>4, <2>5, <2>8, <3>1
  <2> QED
    BY <2>7, <2>8
<1>10. Sql!Listed(t, created, filter) =
         [sessions |-> Sql!Fetched(t, {page[k].id : k \in DOMAIN page}), total |-> Len(newest)]
  <2>1. DOMAIN created = M
    OBVIOUS
  <2>2. B = {[id |-> s, createdAt |-> created[s]] : s \in DOMAIN created}
    BY <2>1
  <2>3. newest = Sql!NewestFirst({[id |-> s, createdAt |-> created[s]] : s \in DOMAIN created})
    BY <2>2, SqlLists
  <2>4. page = Sql!Page(newest, filter)
    BY SqlLists
  <2> HIDE DEF newest, page
  <2> QED
    BY <2>3, <2>4 DEF Sql!Listed
<1> HIDE DEF A
<1> QED
  BY <1>1, <1>8, <1>9, <1>10 DEF A

-----------------------------------------------------------------------------
(* The SQL store implements the contract.                                  *)

\* The rows of a session are its creator's, the directory has what they say of it, and no two
\* sessions were created at one time.
SqlInv ==
  /\ now \in Nat
  /\ owner \in [Session -> Tenant \cup {None}] /\ live \in [Session -> BOOLEAN]
  /\ seen \in [Session -> Seq(Written)]
  /\ rows = [t \in Tenant |-> [s \in Session |-> IF owner[s] = t THEN seen[s] ELSE <<>>]]
  /\ directory = [t \in Tenant |-> [s \in Session |-> RecordOf(s, rows[t][s])]]
  /\ \A s \in Session :
       /\ OneCreation(seen[s], owner[s]) /\ BornOnce(seen[s])
       /\ ~live[s] \/ owner[s] = None => seen[s] = <<>>
       /\ seen[s] # <<>> => Head(seen[s]).at <= now
  /\ \A r, s \in Session :
       seen[r] # <<>> /\ seen[s] # <<>> /\ Head(seen[r]).at = Head(seen[s]).at => r = s

LEMMA RowIs ==
  ASSUME SqlInv, NEW t \in Tenant, NEW s \in Session
  PROVE  /\ rows[t][s] = IF owner[s] = t THEN seen[s] ELSE <<>>
         /\ directory[t][s] = RecordOf(s, rows[t][s])
         /\ rows[t][s] \in Seq(Written) /\ BornOnce(rows[t][s]) /\ OneCreation(rows[t][s], t)
<1>1. <<>> \in Seq(Written) /\ BornOnce(<<>>) /\ OneCreation(<<>>, t)
  BY DEF BornOnce, OneCreation
<1>2. seen[s] \in Seq(Written) /\ BornOnce(seen[s]) /\ OneCreation(seen[s], owner[s])
  BY DEF SqlInv
<1>3. rows[t][s] = IF owner[s] = t THEN seen[s] ELSE <<>>
  BY DEF SqlInv
<1>4. directory[t][s] = RecordOf(s, rows[t][s])
  BY DEF SqlInv
<1> QED
  BY <1>1, <1>2, <1>3, <1>4

\* What is seen of the sessions: the rows of whoever created each.
SeenBy(o, r) == [s \in Session |-> IF o[s] = None THEN <<>> ELSE r[o[s]][s]]

LEMMA StreamsAre == ASSUME backend' = "sql" PROVE Streams' = SeenBy(owner', rows')
BY DEF Streams, SeenBy

LEMMA InsertKeeps ==
  ASSUME SqlInv, seen' = SeenBy(owner', rows'),
         NEW t \in Tenant, NEW s \in Session, NEW e \in Written, Sql!Insert(t, s, e),
         now' \in Nat, now <= now', owner' = [owner EXCEPT ![s] = t], live' = [live EXCEPT ![s] = TRUE],
         \/ seen[s] # <<>> /\ owner[s] = t /\ e.type # "created" /\ e.project = None
         \/ seen[s] = <<>> /\ owner[s] \in {None, t} /\ e.type = "created" /\ e.at = now' /\ now' = now + 1
  PROVE  SqlInv' /\ seen' = [seen EXCEPT ![s] = Append(@, [e EXCEPT !.tenant = t])]
<1> DEFINE f == [e EXCEPT !.tenant = t]
           q == seen[s]
           r == Append(q, f)
<1>1. f \in Written /\ f.tenant = t /\ f.project = e.project /\ f.type = e.type /\ f.at = e.at
  BY DEF Written
<1>2. /\ rows' = [rows EXCEPT ![t][s] = Append(@, f)]
      /\ directory' = [directory EXCEPT ![t][s] = Sql!ProjectEvent(@, f)]
  <2>1. directory' = [directory EXCEPT ![t][s] = Sql!ProjectEvent(@, e)]
    BY DEF Sql!Insert
  <2>2. \A record : Sql!ProjectEvent(record, e) = Sql!ProjectEvent(record, f)
    BY <1>1 DEF Sql!ProjectEvent
  <2>3. rows' = [rows EXCEPT ![t][s] = Append(@, f)]
    BY DEF Sql!Insert
  <2> HIDE DEF f
  <2> QED
    BY <2>1, <2>2, <2>3
<1> HIDE DEF f
<1>3. /\ seen \in [Session -> Seq(Written)] /\ owner \in [Session -> Tenant \cup {None}]
      /\ live \in [Session -> BOOLEAN] /\ now \in Nat
      /\ rows = [u \in Tenant |-> [x \in Session |-> IF owner[x] = u THEN seen[x] ELSE <<>>]]
      /\ directory = [u \in Tenant |-> [x \in Session |-> RecordOf(x, rows[u][x])]]
  BY DEF SqlInv
<1>4. None \notin Tenant
  BY CallsKnown
<1>5. rows[t][s] = q /\ (owner[s] # t => q = <<>>)
  BY <1>3, <1>4
<1>6. /\ q \in Seq(Written) /\ OneCreation(q, owner[s]) /\ BornOnce(q)
      /\ q # <<>> => Head(q).at <= now
  BY <1>3 DEF SqlInv
<1>7. /\ r \in Seq(Written) /\ DOMAIN r = 1 .. Len(q) + 1 /\ r[Len(q) + 1] = f
      /\ \A k \in 1 .. Len(q) : r[k] = q[k]
      /\ DOMAIN q = 1 .. Len(q) /\ Len(q) \in Nat /\ (q = <<>> <=> Len(q) = 0)
      /\ Head(r) = r[1]
  BY <1>1, <1>6
<1>8. r # <<>> /\ (q # <<>> => Head(r) = Head(q))
  <2> HIDE DEF q
  <2> QED
    BY <1>6
<1> HIDE DEF r
<1>9. OneCreation(r, t) /\ BornOnce(r) /\ Head(r).at <= now'
      /\ (q = <<>> => Head(r) = f)
  <2>1. ASSUME NEW k \in DOMAIN r
        PROVE  /\ r[k].tenant = t /\ (k # 1 => r[k].project = None)
               /\ r[k].type = "created" <=> k = 1
    <3>1. k \in 1 .. Len(q) \/ k = Len(q) + 1
      BY <1>7
    <3>2. CASE k \in 1 .. Len(q)
      <4>1. r[k] = q[k] /\ q # <<>> /\ k \in DOMAIN q
        BY <1>7, <3>2
      <4>2. owner[s] = t
        BY <4>1
      <4> HIDE DEF q
      <4> QED
        BY <1>6, <4>1, <4>2 DEF OneCreation, BornOnce
    <3>3. CASE k = Len(q) + 1
      <4>1. r[k] = f /\ (k = 1 <=> q = <<>>)
        BY <1>7, <3>3
      <4> HIDE DEF q
      <4> QED
        BY <1>1, <4>1 DEF q
    <3> QED
      BY <3>1, <3>2, <3>3
  <2>2. q = <<>> => Head(r) = f
    BY <1>7
  <2>3. Head(r).at <= now'
    <3>1. CASE q = <<>>
      BY <1>1, <2>2, <3>1
    <3>2. CASE q # <<>>
      <4>1. Head(q).at \in Nat
        BY <1>6, <3>2, BornReads
      <4> QED
        BY <1>3, <1>6, <1>8, <3>2, <4>1
    <3> QED
      BY <3>1, <3>2
  <2> QED
    BY <2>1, <2>2, <2>3 DEF OneCreation, BornOnce
<1>10. /\ owner' \in [Session -> Tenant \cup {None}] /\ live' \in [Session -> BOOLEAN]
       /\ owner'[s] = t /\ live'[s]
       /\ \A x \in Session : x # s => owner'[x] = owner[x] /\ live'[x] = live[x]
  BY <1>3
<1>11. /\ rows'[t][s] = r /\ DOMAIN rows' = Tenant /\ \A u \in Tenant : DOMAIN rows'[u] = Session
       /\ \A u \in Tenant, x \in Session : u # t \/ x # s => rows'[u][x] = rows[u][x]
  <2> HIDE DEF q
  <2> QED
    BY <1>2, <1>3, <1>5 DEF r
<1>12. seen' = [seen EXCEPT ![s] = r]
  <2>1. seen' = [x \in Session |-> IF owner'[x] = None THEN <<>> ELSE rows'[owner'[x]][x]]
    BY DEF SeenBy
  <2>2. ASSUME NEW x \in Session PROVE seen'[x] = IF x = s THEN r ELSE seen[x]
    <3>1. CASE x = s
      BY <1>4, <1>10, <1>11, <2>1, <3>1
    <3>2. CASE x # s
      <4>1. owner'[x] = owner[x] /\ (owner[x] = None => seen[x] = <<>>)
        BY <1>10, <3>2 DEF SqlInv
      <4>2. owner[x] # None => rows'[owner[x]][x] = rows[owner[x]][x] /\ rows[owner[x]][x] = seen[x]
        BY <1>3, <1>11, <3>2
      <4>3. seen'[x] = IF owner'[x] = None THEN <<>> ELSE rows'[owner'[x]][x]
        BY <2>1
      <4>4. owner[x] = None \/ seen'[x] = rows'[owner[x]][x]
        BY <4>1, <4>3
      <4>5. owner[x] = None => seen'[x] = <<>>
        BY <4>1, <4>3
      <4> QED
        BY <3>2, <4>1, <4>2, <4>4, <4>5
    <3> QED
      BY <3>1, <3>2
  <2> QED
    BY <1>3, <2>1, <2>2
<1> HIDE DEF q
<1>13. seen'[s] = r /\ \A x \in Session : x # s => seen'[x] = seen[x]
  BY <1>3, <1>12
<1>14. rows' = [u \in Tenant |-> [x \in Session |-> IF owner'[x] = u THEN seen'[x] ELSE <<>>]]
  <2>1. ASSUME NEW u \in Tenant, NEW x \in Session
        PROVE  rows'[u][x] = IF owner'[x] = u THEN seen'[x] ELSE <<>>
    <3>1. CASE x = s /\ u = t
      BY <1>10, <1>11, <1>13, <3>1
    <3>2. CASE x = s /\ u # t
      <4>1. rows'[u][x] = rows[u][x] /\ owner'[x] # u
        BY <1>10, <1>11, <3>2
      <4>2. rows[u][x] = <<>>
        BY <1>3, <1>4, <3>2
      <4> QED
        BY <4>1, <4>2
    <3>3. CASE x # s
      <4>1. rows'[u][x] = rows[u][x]
        BY <1>11, <3>3
      <4>2. owner'[x] = owner[x] /\ seen'[x] = seen[x]
        BY <1>10, <1>13, <3>3
      <4>3. rows[u][x] = IF owner[x] = u THEN seen[x] ELSE <<>>
        BY <1>3
      <4> QED
        BY <4>1, <4>3, <4>2
    <3> QED
      BY <3>1, <3>2, <3>3
  <2> DEFINE g(u) == [x \in Session |-> IF owner'[x] = u THEN seen'[x] ELSE <<>>]
  <2>2. ASSUME NEW u \in Tenant PROVE rows'[u] = g(u)
    <3>1. rows'[u] = [x \in Session |-> rows'[u][x]]
      <4>1. \A u2 \in Tenant : rows[u2] = [x \in Session |-> rows[u2][x]]
        BY <1>3
      <4> QED
        BY <1>2, <1>3, <4>1
    <3>2. \A x \in Session : rows'[u][x] = g(u)[x]
      BY <2>1
    <3>3. g(u) = [x \in Session |-> g(u)[x]]
      OBVIOUS
    <3> HIDE DEF g
    <3> QED
      BY <3>1, <3>2, <3>3
  <2>3. rows' = [u \in Tenant |-> rows'[u]]
    BY <1>2, <1>3
  <2> HIDE DEF g
  <2>4. rows' = [u \in Tenant |-> g(u)]
    BY <2>2, <2>3
  <2> QED
    BY <2>4 DEF g
<1>15. directory' = [u \in Tenant |-> [x \in Session |-> RecordOf(x, rows'[u][x])]]
  <2>1. RecordOf(s, r) = Sql!ProjectEvent(RecordOf(s, q), f)
    BY <1>1, <1>5, <1>6, <1>9, DirectoryFollows DEF r, q
  <2>2. directory[t][s] = RecordOf(s, q)
    BY <1>3, <1>5
  <2> DEFINE new == RecordOf(s, r)
  <2>3. directory' = [directory EXCEPT ![t][s] = new]
    BY <1>2, <1>3, <2>1, <2>2
  <2> HIDE DEF new, q
  <2>4. ASSUME NEW u \in Tenant, NEW x \in Session
        PROVE  directory'[u][x] = RecordOf(x, rows'[u][x])
    <3>1. CASE u = t /\ x = s
      BY <1>3, <1>11, <2>3, <3>1 DEF new
    <3>2. CASE ~(u = t /\ x = s)
      <4>1. directory'[u][x] = directory[u][x]
        BY <1>3, <2>3, <3>2
      <4> QED
        BY <1>3, <1>11, <3>2, <4>1
    <3> QED
      BY <3>1, <3>2
  <2> DEFINE g(u) == [x \in Session |-> RecordOf(x, rows'[u][x])]
  <2>5. ASSUME NEW u \in Tenant PROVE directory'[u] = g(u)
    <3>1. directory'[u] = [x \in Session |-> directory'[u][x]]
      <4>1. \A u2 \in Tenant : directory[u2] = [x \in Session |-> directory[u2][x]]
        BY <1>3
      <4> QED
        BY <1>3, <2>3, <4>1
    <3> QED
      BY <2>4, <3>1
  <2>6. directory' = [u \in Tenant |-> directory'[u]]
    BY <1>3, <2>3
  <2> HIDE DEF g
  <2>7. directory' = [u \in Tenant |-> g(u)]
    BY <2>5, <2>6
  <2> QED
    BY <2>7 DEF g
<1>16. ASSUME NEW x \in Session
       PROVE  /\ OneCreation(seen'[x], owner'[x]) /\ BornOnce(seen'[x])
              /\ ~live'[x] \/ owner'[x] = None => seen'[x] = <<>>
              /\ seen'[x] # <<>> => Head(seen'[x]).at <= now'
  <2>1. CASE x = s
    BY <1>4, <1>9, <1>10, <1>13, <2>1
  <2>2. CASE x # s
    <3>1. seen'[x] = seen[x] /\ owner'[x] = owner[x] /\ live'[x] = live[x]
      BY <1>3, <1>10, <1>12, <2>2
    <3>2. /\ OneCreation(seen[x], owner[x]) /\ BornOnce(seen[x])
          /\ ~live[x] \/ owner[x] = None => seen[x] = <<>>
          /\ seen[x] # <<>> => Head(seen[x]).at <= now
          /\ seen[x] \in Seq(Written)
      BY DEF SqlInv
    <3>3. seen[x] # <<>> => Head(seen[x]).at \in Nat
      BY <3>2, BornReads
    <3> QED
      BY <1>3, <3>1, <3>2, <3>3
  <2> QED
    BY <2>1, <2>2
<1>17. ASSUME NEW x \in Session, NEW y \in Session, seen'[x] # <<>>, seen'[y] # <<>>,
              Head(seen'[x]).at = Head(seen'[y]).at
       PROVE  x = y
  <2>1. ASSUME NEW z \in Session, z # s, seen[z] # <<>> PROVE Head(seen[z]).at # Head(r).at
    <3>1. Head(seen[z]).at \in Nat /\ Head(seen[z]).at <= now
      <4>1. seen[z] \in Seq(Written) /\ BornOnce(seen[z]) /\ Head(seen[z]).at <= now
        BY <2>1 DEF SqlInv
      <4> QED
        BY <2>1, <4>1, BornReads
    <3>2. CASE q = <<>>
      <4>1. Head(r).at = now + 1
        BY <1>1, <1>9, <3>2 DEF q
      <4> QED
        BY <1>3, <3>1, <4>1
    <3>3. CASE q # <<>>
      BY <1>8, <2>1, <3>3 DEF SqlInv, q
    <3> QED
      BY <3>2, <3>3
  <2>2. \A z \in Session : seen'[z] = IF z = s THEN r ELSE seen[z]
    BY <1>3, <1>12
  <2> HIDE DEF q
  <2>3. \A a, b \in Session :
          seen[a] # <<>> /\ seen[b] # <<>> /\ Head(seen[a]).at = Head(seen[b]).at => a = b
    BY DEF SqlInv
  <2> QED
    BY <1>17, <2>1, <2>2, <2>3
<1>18. seen' \in [Session -> Seq(Written)]
  BY <1>3, <1>7, <1>12
<1>19. SqlInv'
  BY <1>10, <1>14, <1>15, <1>16, <1>17, <1>18 DEF SqlInv
<1> QED
  BY <1>12, <1>19 DEF r, f, q

LEMMA SessionsGo ==
  ASSUME SqlInv, seen' = SeenBy(owner', rows'), NEW t \in Tenant, NEW gone, Sql!Delete(t, gone),
         now' \in Nat, now <= now', owner' = owner, live' \in [Session -> BOOLEAN],
         \A x \in Session : live'[x] = live[x] \/ (owner[x] = t /\ x \in gone)
  PROVE  /\ SqlInv'
         /\ seen' = [x \in Session |-> IF owner[x] = t /\ x \in gone THEN <<>> ELSE seen[x]]
<1>1. /\ rows' = [rows EXCEPT ![t] = [x \in Session |-> IF x \in gone THEN <<>> ELSE @[x]]]
      /\ directory' =
           [directory EXCEPT ![t] = [x \in Session |-> IF x \in gone THEN Sql!NoRecord ELSE @[x]]]
  BY DEF Sql!Delete
<1>2. /\ seen \in [Session -> Seq(Written)] /\ owner \in [Session -> Tenant \cup {None}]
      /\ now \in Nat
      /\ rows = [u \in Tenant |-> [x \in Session |-> IF owner[x] = u THEN seen[x] ELSE <<>>]]
      /\ directory = [u \in Tenant |-> [x \in Session |-> RecordOf(x, rows[u][x])]]
  BY DEF SqlInv
<1>3. None \notin Tenant
  BY CallsKnown
<1> DEFINE left(x) == IF owner[x] = t /\ x \in gone THEN <<>> ELSE seen[x]
           Rows(u) == [x \in Session |-> IF owner'[x] = u THEN seen'[x] ELSE <<>>]
           Records(u) == [x \in Session |-> RecordOf(x, rows'[u][x])]
<1>4. ASSUME NEW u \in Tenant, NEW x \in Session
      PROVE  rows'[u][x] = IF u = t /\ x \in gone THEN <<>> ELSE rows[u][x]
  BY <1>1, <1>2
<1>5. ASSUME NEW x \in Session PROVE seen'[x] = left(x)
  <2>1. seen'[x] = IF owner[x] = None THEN <<>> ELSE rows'[owner[x]][x]
    BY DEF SeenBy
  <2>2. CASE owner[x] = None
    BY <1>3, <2>1, <2>2 DEF SqlInv
  <2>3. CASE owner[x] # None
    <3>1. owner[x] \in Tenant /\ rows[owner[x]][x] = seen[x]
      BY <1>2, <2>3
    <3>2. rows'[owner[x]][x] = IF owner[x] = t /\ x \in gone THEN <<>> ELSE rows[owner[x]][x]
      BY <1>4, <3>1
    <3> QED
      BY <2>1, <2>3, <3>1, <3>2
  <2> QED
    BY <2>2, <2>3
<1>6. seen' = [x \in Session |-> left(x)]
  <2>1. seen' = [x \in Session |-> seen'[x]]
    BY DEF SeenBy
  <2> HIDE DEF left
  <2> QED
    BY <1>5, <2>1
<1>7. ASSUME NEW u \in Tenant PROVE rows'[u] = Rows(u)
  <2>1. rows'[u] = [x \in Session |-> rows'[u][x]]
    <3>1. rows[u] = [x \in Session |-> rows[u][x]]
      BY <1>2
    <3> QED
      BY <1>1, <1>2, <3>1
  <2>2. ASSUME NEW x \in Session PROVE rows'[u][x] = Rows(u)[x]
    <3>1. rows'[u][x] = IF u = t /\ x \in gone THEN <<>> ELSE rows[u][x]
      BY <1>4
    <3>2. rows[u][x] = IF owner[x] = u THEN seen[x] ELSE <<>>
      BY <1>2
    <3>3. seen'[x] = left(x)
      BY <1>5
    <3> QED
      BY <3>1, <3>2, <3>3
  <2>3. Rows(u) = [x \in Session |-> Rows(u)[x]]
    OBVIOUS
  <2> HIDE DEF Rows
  <2> QED
    BY <2>1, <2>2, <2>3
<1>8. ASSUME NEW u \in Tenant PROVE directory'[u] = Records(u)
  <2>1. directory'[u] = [x \in Session |-> directory'[u][x]]
    <3>1. directory[u] = [x \in Session |-> directory[u][x]]
      BY <1>2
    <3> QED
      BY <1>1, <1>2, <3>1
  <2>2. ASSUME NEW x \in Session PROVE directory'[u][x] = Records(u)[x]
    <3>1. directory'[u][x] = IF u = t /\ x \in gone THEN Sql!NoRecord ELSE directory[u][x]
      BY <1>1, <1>2
    <3>2. rows'[u][x] = IF u = t /\ x \in gone THEN <<>> ELSE rows[u][x]
      BY <1>4
    <3>3. directory[u][x] = RecordOf(x, rows[u][x])
      BY <1>2
    <3>4. RecordOf(x, <<>>) = Sql!NoRecord
      BY DEF RecordOf
    <3> QED
      BY <3>1, <3>2, <3>3, <3>4
  <2>3. Records(u) = [x \in Session |-> Records(u)[x]]
    OBVIOUS
  <2> HIDE DEF Records
  <2> QED
    BY <2>1, <2>2, <2>3
<1>9. rows' = [u \in Tenant |-> Rows(u)] /\ directory' = [u \in Tenant |-> Records(u)]
  <2>1. rows' = [u \in Tenant |-> rows'[u]] /\ directory' = [u \in Tenant |-> directory'[u]]
    BY <1>1, <1>2
  <2> HIDE DEF Rows, Records
  <2> QED
    BY <1>7, <1>8, <2>1
<1>10. <<>> \in Seq(Written) /\ BornOnce(<<>>) /\ \A o : OneCreation(<<>>, o)
  BY DEF BornOnce, OneCreation
<1>11. ASSUME NEW x \in Session
       PROVE  /\ seen'[x] \in Seq(Written)
              /\ OneCreation(seen'[x], owner'[x]) /\ BornOnce(seen'[x])
              /\ ~live'[x] \/ owner'[x] = None => seen'[x] = <<>>
              /\ seen'[x] # <<>> => seen'[x] = seen[x] /\ Head(seen'[x]).at <= now'
  <2>1. /\ seen[x] \in Seq(Written) /\ OneCreation(seen[x], owner[x]) /\ BornOnce(seen[x])
        /\ ~live[x] \/ owner[x] = None => seen[x] = <<>>
        /\ seen[x] # <<>> => Head(seen[x]).at <= now
    BY DEF SqlInv
  <2>2. seen[x] # <<>> => Head(seen[x]).at \in Nat
    BY <2>1, BornReads
  <2>3. CASE owner[x] = t /\ x \in gone
    BY <1>5, <1>10, <2>3
  <2>4. CASE ~(owner[x] = t /\ x \in gone)
    <3>1. seen'[x] = seen[x] /\ live'[x] = live[x]
      BY <1>5, <2>4
    <3> QED
      BY <1>2, <2>1, <2>2, <3>1
  <2> QED
    BY <2>3, <2>4
<1>12. \A x, y \in Session :
         seen'[x] # <<>> /\ seen'[y] # <<>> /\ Head(seen'[x]).at = Head(seen'[y]).at => x = y
  BY <1>11 DEF SqlInv
<1>13. seen' \in [Session -> Seq(Written)]
  BY <1>6, <1>11
<1>14. SqlInv'
  BY <1>2, <1>9, <1>11, <1>12, <1>13 DEF SqlInv
<1> QED
  BY <1>6, <1>14

LEMMA NothingStored ==
  ASSUME SqlInv, seen' = SeenBy(owner', rows'), now' \in Nat, now <= now',
         UNCHANGED <<owner, live, rows, directory>>
  PROVE  SqlInv' /\ seen' = seen
<1>1. seen' = seen
  <2>1. ASSUME NEW x \in Session
        PROVE  seen[x] = IF owner[x] = None THEN <<>> ELSE rows[owner[x]][x]
    BY DEF SqlInv
  <2>2. seen = [x \in Session |-> seen[x]]
    BY DEF SqlInv
  <2>3. seen' = [x \in Session |-> IF owner[x] = None THEN <<>> ELSE rows[owner[x]][x]]
    BY DEF SeenBy
  <2> QED
    BY <2>1, <2>2, <2>3
<1>2. ASSUME NEW x \in Session, seen[x] # <<>> PROVE Head(seen[x]).at <= now'
  <2>1. seen[x] \in Seq(Written) /\ BornOnce(seen[x]) /\ Head(seen[x]).at <= now /\ now \in Nat
    BY <1>2 DEF SqlInv
  <2>2. Head(seen[x]).at \in Nat
    BY <1>2, <2>1, BornReads
  <2> QED
    BY <2>1, <2>2
<1>3. SqlInv'
  BY <1>1, <1>2 DEF SqlInv
<1> QED
  BY <1>1, <1>3

-----------------------------------------------------------------------------
(* Every call of it is one of the contract's.                              *)

LEMMA SqlCall ==
  ASSUME NEW c, NEW v, Sql!Replies(c, v)
  PROVE  /\ SqlContract!call = c
         /\ SqlContract!Answered(v)
<1>1. sReply' = [x \in {c} |-> v]
  BY DEF Sql!Replies, Sql!Answer
<1>2. DOMAIN sReply' = {c}
  BY <1>1
<1>3. SqlContract!call = c
  BY <1>2 DEF SqlContract!call
<1>4. SqlContract!Answer(c, v) = [x \in {c} |-> v]
  BY DEF SqlContract!Answer
<1>5. SqlContract!Answered(v) <=> sReply' = SqlContract!Answer(SqlContract!call, v)
  BY DEF SqlContract!Answered
<1> QED
  BY <1>1, <1>3, <1>4, <1>5

\* Whose a session is, and how it is seen.
LEMMA SqlOwns ==
  ASSUME backend = "sql", SqlInv, NEW t \in Tenant, NEW s \in Session
  PROVE  /\ SqlContract!Owns(t, s) <=> rows[t][s] # <<>>
         /\ SqlContract!Owns(t, s) <=> seen[s] # <<>> /\ owner[s] = t
         /\ SqlContract!View(t, s) = rehydrate(s, rows[t][s])
         /\ rows[t][s] # <<>> => rehydrate(s, rows[t][s]).project = Head(rows[t][s]).project
<1>1. seen[s] \in Seq(Written) /\ OneCreation(seen[s], owner[s])
  BY DEF SqlInv
<1>2. rows[t][s] = IF owner[s] = t THEN seen[s] ELSE <<>>
  BY RowIs
<1>3. seen[s] # <<>> => Head(seen[s]).tenant = owner[s]
  <2>1. seen[s] # <<>> => 1 \in DOMAIN seen[s] /\ Head(seen[s]) = seen[s][1]
    BY <1>1
  <2> QED
    BY <1>1, <2>1 DEF OneCreation
<1>4. SqlContract!Owns(t, s) <=> seen[s] # <<>> /\ owner[s] = t
  BY <1>3 DEF SqlContract!Owns
<1>5. rehydrate(s, <<>>) = NoAggregate
  BY DEF rehydrate
<1>6. SqlContract!View(t, s) =
        IF SqlContract!Owns(t, s) THEN rehydrate(s, seen[s]) ELSE NoAggregate
  BY SqlContractReads DEF SqlContract!View
<1>7. rows[t][s] # <<>> => rehydrate(s, rows[t][s]).project = Head(rows[t][s]).project
  BY Rehydrated, RowIs
<1> QED
  BY <1>2, <1>4, <1>5, <1>6, <1>7

\* The call is one of the contract's, and is answered as the contract answers it.
SqlServes == SqlContract!call \in SqlContract!Calls /\ SqlContract!Serve(SqlContract!call)

LEMMA SqlAppends ==
  ASSUME backend = "sql", backend' = "sql", SqlInv, NEW t \in Tenant, NEW s \in Session,
         NEW e \in Written, seen[s] = <<>>, Sql!AppendEvent(t, s, e),
         seen' = [seen EXCEPT ![s] = Append(@, [e EXCEPT !.tenant = t])]
  PROVE  SqlServes
<1> DEFINE c == <<"append", t, s, e>>
<1>1. Sql!Replies(c, "ok") /\ sProjects' = sProjects
  BY DEF Sql!AppendEvent
<1>2. SqlContract!call = c /\ SqlContract!Answered("ok")
  BY <1>1, SqlCall
<1>3. c \in SqlContract!Calls
  BY DEF SqlContract!Calls
<1>4. SqlContract!Commit(s, [e EXCEPT !.tenant = t])
  BY DEF SqlContract!Commit
<1>5. SqlContract!AppendEvent(t, s, e)
  BY <1>1, <1>2, <1>4 DEF SqlContract!AppendEvent
<1>6. SqlContract!Serve(c)
  BY <1>5 DEF SqlContract!Serve
<1> QED
  BY <1>2, <1>3, <1>6 DEF SqlServes

LEMMA SqlWrites ==
  ASSUME backend = "sql", backend' = "sql", SqlInv, NEW t \in Tenant, NEW s \in Session,
         NEW n \in Nat \ {0}, NEW e \in Written, Sql!ReadModifyWrite(t, s, n, e),
         IF Len(rows[t][s]) = n
         THEN seen' = [seen EXCEPT ![s] = Append(@, [e EXCEPT !.tenant = t])]
         ELSE seen' = seen
  PROVE  SqlServes
<1> DEFINE c == <<"write", t, s, n, e>>
<1>1. c \in SqlContract!Calls
  BY DEF SqlContract!Calls
<1>2. sProjects' = sProjects
  BY DEF Sql!ReadModifyWrite
<1>3. rows[t][s] = (IF owner[s] = t THEN seen[s] ELSE <<>>) /\ rows[t][s] \in Seq(Written)
  BY RowIs
<1>4. SqlContract!Owns(t, s) /\ Len(seen[s]) = n <=> Len(rows[t][s]) = n
  <2>1. SqlContract!Owns(t, s) <=> seen[s] # <<>> /\ owner[s] = t
    BY SqlOwns
  <2>2. rows[t][s] = <<>> => Len(rows[t][s]) = 0
    OBVIOUS
  <2> QED
    BY <1>3, <2>1, <2>2
<1>5. CASE Len(rows[t][s]) = n
  <2>1. Sql!Replies(c, "ok")
    BY <1>5 DEF Sql!ReadModifyWrite
  <2>2. SqlContract!call = c /\ SqlContract!Answered("ok")
    BY <2>1, SqlCall
  <2>3. SqlContract!Commit(s, [e EXCEPT !.tenant = t])
    BY <1>5 DEF SqlContract!Commit
  <2>4. SqlContract!ReadModifyWrite(t, s, n, e)
    BY <1>2, <1>4, <1>5, <2>2, <2>3 DEF SqlContract!ReadModifyWrite
  <2>5. SqlContract!Serve(c)
    BY <2>4 DEF SqlContract!Serve
  <2> QED
    BY <1>1, <2>2, <2>5 DEF SqlServes
<1>6. CASE Len(rows[t][s]) # n
  <2>1. Sql!Replies(c, "conflict")
    BY <1>6 DEF Sql!ReadModifyWrite
  <2>2. SqlContract!call = c /\ SqlContract!Answered("conflict")
    BY <2>1, SqlCall
  <2>3. SqlContract!ReadModifyWrite(t, s, n, e)
    BY <1>2, <1>4, <1>6, <2>2 DEF SqlContract!ReadModifyWrite
  <2>4. SqlContract!Serve(c)
    BY <2>3 DEF SqlContract!Serve
  <2> QED
    BY <1>1, <2>2, <2>4 DEF SqlServes
<1> QED
  BY <1>5, <1>6

LEMMA SqlGets ==
  ASSUME backend = "sql", backend' = "sql", SqlInv, NEW t \in Tenant, NEW s \in Session,
         Sql!Get(t, s), seen' = seen
  PROVE  SqlServes
<1> DEFINE c == <<"get", t, s>>
<1>1. Sql!Replies(c, rehydrate(s, rows[t][s])) /\ sProjects' = sProjects
  BY SqlReads DEF Sql!Get
<1>2. SqlContract!call = c /\ SqlContract!Answered(SqlContract!View(t, s))
  BY <1>1, SqlCall, SqlOwns
<1>3. c \in SqlContract!Calls
  BY DEF SqlContract!Calls
<1>4. SqlContract!Get(t, s)
  BY <1>1, <1>2 DEF SqlContract!Get
<1>5. SqlContract!Serve(c)
  BY <1>4 DEF SqlContract!Serve
<1> QED
  BY <1>2, <1>3, <1>5 DEF SqlServes

LEMMA SqlDeletes ==
  ASSUME backend = "sql", backend' = "sql", SqlInv, NEW t \in Tenant, NEW s \in Session,
         Sql!DeleteSession(t, s),
         seen' = [x \in Session |-> IF owner[x] = t /\ x \in {s} THEN <<>> ELSE seen[x]]
  PROVE  SqlServes
<1> DEFINE c == <<"delete", t, s>>
<1>1. Sql!Replies(c, "ok") /\ sProjects' = sProjects
  BY DEF Sql!DeleteSession
<1>2. SqlContract!call = c /\ SqlContract!Answered("ok")
  BY <1>1, SqlCall
<1>3. seen' = IF SqlContract!Owns(t, s) THEN [seen EXCEPT ![s] = <<>>] ELSE seen
  <2>1. SqlContract!Owns(t, s) <=> seen[s] # <<>> /\ owner[s] = t
    BY SqlOwns
  <2>2. seen \in [Session -> Seq(Written)]
    BY DEF SqlInv
  <2> QED
    BY <2>1, <2>2
<1>4. c \in SqlContract!Calls
  BY DEF SqlContract!Calls
<1>5. SqlContract!DeleteSession(t, s)
  BY <1>1, <1>2, <1>3 DEF SqlContract!DeleteSession
<1>6. SqlContract!Serve(c)
  BY <1>5 DEF SqlContract!Serve
<1> QED
  BY <1>2, <1>4, <1>6 DEF SqlServes

LEMMA SqlProjects ==
  ASSUME backend = "sql", backend' = "sql", NEW t \in Tenant, seen' = seen
  PROVE  /\ \A p \in Project : Sql!CreateProject(t, p) => SqlServes
         /\ Sql!ListProjects(t) => SqlServes
<1>1. ASSUME NEW p \in Project, Sql!CreateProject(t, p) PROVE SqlServes
  <2> DEFINE c == <<"project", t, p>>
  <2>1. Sql!Replies(c, p)
    BY <1>1 DEF Sql!CreateProject
  <2>2. SqlContract!call = c /\ SqlContract!Answered(p)
    BY <2>1, SqlCall
  <2>3. SqlContract!CreateProject(t, p)
    BY <1>1, <2>2 DEF Sql!CreateProject, SqlContract!CreateProject
  <2>4. c \in SqlContract!Calls
    BY DEF SqlContract!Calls
  <2>5. SqlContract!Serve(c)
    BY <2>3 DEF SqlContract!Serve
  <2> QED
    BY <2>2, <2>4, <2>5 DEF SqlServes
<1>2. ASSUME Sql!ListProjects(t) PROVE SqlServes
  <2> DEFINE c == <<"projects", t>>
             v == {x.id : x \in {y \in sProjects : y.tenant = t}}
  <2>1. Sql!Replies(c, v) /\ sProjects' = sProjects
    BY <1>2 DEF Sql!ListProjects
  <2>2. SqlContract!call = c /\ SqlContract!Answered(v)
    BY <2>1, SqlCall
  <2>3. SqlContract!ListProjects(t)
    BY <2>1, <2>2 DEF SqlContract!ListProjects
  <2>4. c \in SqlContract!Calls
    BY DEF SqlContract!Calls
  <2>5. SqlContract!Serve(c)
    BY <2>3 DEF SqlContract!Serve
  <2> QED
    BY <2>2, <2>4, <2>5 DEF SqlServes
<1> QED
  BY <1>1, <1>2

\* The directory has the sessions of a project, and no others, under it.
LEMMA Filed ==
  ASSUME SqlInv, NEW t \in Tenant, NEW s \in Session, NEW p, p # None
  PROVE  /\ directory[t][s].project = p <=> rows[t][s] # <<>> /\ Head(rows[t][s]).project = p
         /\ directory[t][s].project = p =>
              /\ directory[t][s].status = rehydrate(s, rows[t][s]).status
              /\ directory[t][s].createdAt = Head(rows[t][s]).at
<1>1. directory[t][s] = RecordOf(s, rows[t][s])
  BY RowIs
<1>2. Sql!NoRecord.project = None
  BY DEF Sql!NoRecord, Sql!None, None
<1> QED
  BY <1>1, <1>2 DEF RecordOf

LEMMA SqlDropsProject ==
  ASSUME backend = "sql", backend' = "sql", SqlInv, NEW t \in Tenant, NEW p \in Project,
         Sql!DeleteProject(t, p),
         NEW gone,
         gone = {s \in Session : [id |-> p, tenant |-> t] \in sProjects /\ directory[t][s].project = p},
         seen' = [x \in Session |-> IF owner[x] = t /\ x \in gone THEN <<>> ELSE seen[x]]
  PROVE  SqlServes
<1> DEFINE c == <<"deleteProject", t, p>>
           project == [id |-> p, tenant |-> t]
           there == project \in sProjects
<1>1. Sql!Replies(c, there) /\ sProjects' = sProjects \ {project}
  BY DEF Sql!DeleteProject
<1>2. SqlContract!call = c /\ SqlContract!Answered(there)
  BY <1>1, SqlCall
<1>3. ASSUME NEW s \in Session
      PROVE  (IF owner[s] = t /\ s \in gone THEN <<>> ELSE seen[s]) =
             (IF there /\ SqlContract!Owns(t, s) /\ SqlContract!View(t, s).project = p
              THEN <<>> ELSE seen[s])
  <2>1. p # None
    BY CallsKnown
  <2>2. s \in gone <=> there /\ rows[t][s] # <<>> /\ Head(rows[t][s]).project = p
    BY <2>1, Filed
  <2> HIDE DEF there
  <2>3. s \in gone <=> /\ there /\ SqlContract!Owns(t, s) /\ SqlContract!View(t, s).project = p
    BY <2>2, SqlOwns
  <2>4. SqlContract!Owns(t, s) => owner[s] = t
    BY SqlOwns
  <2> QED
    BY <2>3, <2>4
<1> HIDE DEF there
<1>4. seen' = [s \in Session |->
         IF there /\ SqlContract!Owns(t, s) /\ SqlContract!View(t, s).project = p
         THEN <<>> ELSE seen[s]]
  BY <1>3
<1>5. SqlContract!DeleteProject(t, p)
  BY <1>1, <1>2, <1>4 DEF SqlContract!DeleteProject, there
<1>6. c \in SqlContract!Calls
  BY DEF SqlContract!Calls
<1>7. SqlContract!Serve(c)
  BY <1>5 DEF SqlContract!Serve
<1> QED
  BY <1>2, <1>6, <1>7 DEF SqlServes

\* The sessions a list names, in the directory and in the ranking: those that match.
LEMMA ListMatches ==
  ASSUME SqlInv, NEW t \in Tenant, NEW filter \in Filters,
         NEW M, M = {s \in Session : /\ rows[t][s] # <<>>
                                     /\ Matches(rehydrate(s, rows[t][s]), filter)},
         NEW created, created = [s \in M |-> Head(rows[t][s]).at]
  PROVE  /\ filter.project = None /\ dialect # "postgres" =>
              Sql!ListAll(t, filter) = Sql!Listed(t, created, filter)
         /\ filter.project # None => Sql!ListByProject(t, filter) = Sql!Listed(t, created, filter)
<1> DEFINE q(s) == rows[t][s]
           whole(s) == rehydrate(s, rows[t][s])
<1>1. Sql!None = None
  BY DEF Sql!None, None
<1>2. ASSUME NEW s \in Session, q(s) # <<>>
      PROVE  /\ whole(s).createdAt = Head(q(s)).at /\ whole(s).project = Head(q(s)).project
             /\ Matches(whole(s), filter) <=>
                  /\ filter.project \in {None, Head(q(s)).project}
                  /\ filter.status \in {None, whole(s).status} /\ Head(q(s)).at >= filter.since
  <2>1. q(s) \in Seq(Written) /\ BornOnce(q(s)) /\ OneCreation(q(s), t)
    BY RowIs
  <2>2. whole(s).createdAt = Head(q(s)).at
    BY <1>2, <2>1, BornReads
  <2>3. whole(s).project = Head(q(s)).project
    BY <1>2, <2>1, Rehydrated
  <2> HIDE DEF whole, q
  <2>4. whole(s) = rehydrate(s, rows[t][s])
    BY DEF whole
  <2> QED
    BY <2>2, <2>3 DEF Matches
<1>3. ASSUME filter.project = None, dialect # "postgres"
      PROVE  Sql!ListAll(t, filter) = Sql!Listed(t, created, filter)
  <2> DEFINE ranked == Sql!Ranked(t)
             matched == {s \in DOMAIN ranked :
                           /\ filter.status \in {Sql!None, Sql!StatusOf(ranked[s].type)}
                           /\ Head(rows[t][s]).at >= filter.since}
  <2>1. ASSUME NEW s \in Session
        PROVE  /\ s \in DOMAIN ranked <=> q(s) # <<>>
               /\ q(s) # <<>> => Sql!StatusOf(ranked[s].type) = whole(s).status
    <3>1. q(s) \in Seq(Written) /\ BornOnce(q(s))
      BY RowIs
    <3>2. s \in DOMAIN ranked <=> \E k \in DOMAIN q(s) : Sql!RanksInto(q(s)[k])
      BY DEF Sql!Ranked
    <3>3. CASE q(s) = <<>>
      BY <3>2, <3>3
    <3>4. CASE q(s) # <<>>
      <4> DEFINE top == CHOOSE k \in DOMAIN q(s) :
                          /\ Sql!RanksInto(q(s)[k])
                          /\ \A j \in DOMAIN q(s) : Sql!RanksInto(q(s)[j]) => j <= k
      <4>1. /\ \E i \in DOMAIN q(s) : Sql!RanksInto(q(s)[i])
            /\ Sql!StatusOf(q(s)[top].type) = whole(s).status
        BY <1>3, <3>1, <3>4, RanksLast
      <4>2. ranked[s] = q(s)[top]
        BY <4>1 DEF Sql!Ranked
      <4> HIDE DEF ranked, top
      <4> QED
        BY <3>2, <3>4, <4>1, <4>2
    <3> QED
      BY <3>3, <3>4
  <2>2. DOMAIN ranked \subseteq Session
    BY DEF Sql!Ranked
  <2>3. Sql!ListAll(t, filter) =
          Sql!Listed(t, [s \in matched |-> Head(rows[t][s]).at], filter)
    BY DEF Sql!ListAll
  <2> HIDE DEF ranked
  <2>4. matched = M
    <3>1. ASSUME NEW s \in Session PROVE s \in matched <=> s \in M
      BY <1>1, <1>2, <1>3, <2>1
    <3>2. matched \subseteq Session /\ M \subseteq Session
      BY <2>2
    <3> HIDE DEF matched
    <3> QED
      BY <3>1, <3>2
  <2> HIDE DEF matched
  <2> QED
    BY <2>3, <2>4
<1>4. ASSUME filter.project # None
      PROVE  Sql!ListByProject(t, filter) = Sql!Listed(t, created, filter)
  <2> DEFINE matched == {s \in Session :
                           /\ directory[t][s].project = filter.project
                           /\ filter.status \in {Sql!None, directory[t][s].status}
                           /\ directory[t][s].createdAt >= filter.since}
             listed == [s \in matched |-> directory[t][s].createdAt]
  <2>1. Sql!ListByProject(t, filter) = Sql!Listed(t, listed, filter)
    BY DEF Sql!ListByProject
  <2>2. ASSUME NEW s \in Session
        PROVE  /\ s \in matched <=> s \in M
               /\ s \in matched => directory[t][s].createdAt = Head(rows[t][s]).at
    <3>1. /\ directory[t][s].project = filter.project <=>
                  q(s) # <<>> /\ Head(q(s)).project = filter.project
          /\ directory[t][s].project = filter.project =>
               /\ directory[t][s].status = whole(s).status
               /\ directory[t][s].createdAt = Head(q(s)).at
      <4>1. \A p : p # None =>
              /\ directory[t][s].project = p <=> rows[t][s] # <<>> /\ Head(rows[t][s]).project = p
              /\ directory[t][s].project = p =>
                   /\ directory[t][s].status = rehydrate(s, rows[t][s]).status
                   /\ directory[t][s].createdAt = Head(rows[t][s]).at
        BY Filed
      <4> QED
        BY <1>4, <4>1
    <3>2. q(s) # <<>> =>
            (Matches(whole(s), filter) <=>
               /\ filter.project \in {None, Head(q(s)).project}
               /\ filter.status \in {None, whole(s).status} /\ Head(q(s)).at >= filter.since)
      BY <1>2
    <3>3. s \in M <=> q(s) # <<>> /\ Matches(whole(s), filter)
      OBVIOUS
    <3>4. s \in matched <=> /\ directory[t][s].project = filter.project
                           /\ filter.status \in {None, directory[t][s].status}
                           /\ directory[t][s].createdAt >= filter.since
      BY <1>1
    <3> HIDE DEF q, whole, matched
    <3>5. s \in matched <=> s \in M
      BY <1>4, <3>1, <3>2, <3>3, <3>4
    <3>6. s \in matched => directory[t][s].createdAt = Head(q(s)).at
      BY <3>1, <3>4
    <3> QED
      BY <3>5, <3>6 DEF q
  <2>3. matched = M
    <3>1. matched \subseteq Session /\ M \subseteq Session
      OBVIOUS
    <3> HIDE DEF matched
    <3> QED
      BY <2>2, <3>1
  <2>4. listed = created
    <3>1. M \subseteq Session
      OBVIOUS
    <3> HIDE DEF matched
    <3> QED
      BY <2>2, <2>3, <3>1
  <2> HIDE DEF listed
  <2> QED
    BY <2>1, <2>4
<1> QED
  BY <1>3, <1>4

\* On PostgreSQL no event ranks, and the page of no ids is empty.
LEMMA NothingRanks ==
  ASSUME SqlInv, dialect = "postgres", NEW t \in Tenant, NEW filter \in Filters
  PROVE  Sql!ListAll(t, filter) = SqlContract!Empty
<1> DEFINE ranked == Sql!Ranked(t)
           matched == {s \in DOMAIN ranked :
                         /\ filter.status \in {Sql!None, Sql!StatusOf(ranked[s].type)}
                         /\ Head(rows[t][s]).at >= filter.since}
           created == [s \in {} |-> Head(rows[t][s]).at]
           list == NewestFirst({rehydrate(s, rows[t][s]) : s \in {}})
<1>1. \A e : ~Sql!RanksInto(e)
  BY DEF Sql!RanksInto, Sql!jsonExtract
<1>2. DOMAIN ranked = {}
  BY <1>1 DEF Sql!Ranked
<1>3. Sql!ListAll(t, filter) = Sql!Listed(t, [s \in matched |-> Head(rows[t][s]).at], filter)
  BY DEF Sql!ListAll
<1>4. matched = {}
  BY <1>2
<1>5. Sql!ListAll(t, filter) = Sql!Listed(t, created, filter)
  <2> HIDE DEF matched
  <2> QED
    BY <1>3, <1>4
<1>6. rows[t] \in [Session -> Seq(Written)]
  <2>1. rows[t] = [s \in Session |-> rows[t][s]]
    BY DEF SqlInv
  <2>2. \A s \in Session : rows[t][s] \in Seq(Written)
    BY RowIs
  <2> QED
    BY <2>1, <2>2
<1>7. Sql!Listed(t, created, filter) = [sessions |-> Page(list, filter), total |-> Len(list)]
  <2>1. \A M, made : M = {} /\ made = [s \in M |-> Head(rows[t][s]).at] =>
          LET of == NewestFirst({rehydrate(s, rows[t][s]) : s \in M})
          IN Sql!Listed(t, made, filter) = [sessions |-> Page(of, filter), total |-> Len(of)]
    BY <1>6, ListedIs
  <2> QED
    BY <2>1
<1>8. list = <<>>
  <2>1. {rehydrate(s, rows[t][s]) : s \in {}} = {}
    OBVIOUS
  <2>2. Cardinality({}) = 0
    BY FS_EmptySet
  <2> QED
    BY <2>1, <2>2 DEF NewestFirst
<1>9. filter.offset \in Nat /\ filter.limit \in Nat
  BY CallsKnown
<1>10. Page(<<>>, filter) = <<>>
  BY <1>9 DEF Page
<1> HIDE DEF list, created
<1> QED
  BY <1>5, <1>7, <1>8, <1>10 DEF SqlContract!Empty

LEMMA SqlListsThem ==
  ASSUME backend = "sql", backend' = "sql", SqlInv,
         NEW t \in Tenant, NEW filter \in Filters, Sql!List(t, filter), seen' = seen
  PROVE  SqlServes
<1> DEFINE c == <<"list", t, filter>>
           whole(s) == rehydrate(s, rows[t][s])
           M == {s \in Session : rows[t][s] # <<>> /\ Matches(whole(s), filter)}
           created == [s \in M |-> Head(rows[t][s]).at]
           theirs == {SqlContract!View(t, s) : s \in {x \in Session : SqlContract!Owns(t, x)}}
           list == NewestFirst({whole(s) : s \in M})
           answer == [sessions |-> Page(list, filter), total |-> Len(list)]
<1>1. Sql!Listed(t, created, filter) = answer
  <2>1. rows[t] \in [Session -> Seq(Written)]
    <3>1. rows[t] = [s \in Session |-> rows[t][s]]
      BY DEF SqlInv
    <3>2. \A s \in Session : rows[t][s] \in Seq(Written)
      BY RowIs
    <3> QED
      BY <3>1, <3>2
  <2>2. M \subseteq {s \in Session : rows[t][s] # <<>>}
    OBVIOUS
  <2>3. \A s \in M : BornOnce(rows[t][s])
    BY RowIs
  <2>4. ASSUME NEW x \in M, NEW y \in M, Head(rows[t][x]).at = Head(rows[t][y]).at PROVE x = y
    <3>1. /\ rows[t][x] = IF owner[x] = t THEN seen[x] ELSE <<>>
          /\ rows[t][y] = IF owner[y] = t THEN seen[y] ELSE <<>>
          /\ rows[t][x] # <<>> /\ rows[t][y] # <<>> /\ x \in Session /\ y \in Session
      BY RowIs
    <3>2. rows[t][x] = seen[x] /\ rows[t][y] = seen[y]
      BY <3>1
    <3> HIDE DEF M
    <3> QED
      BY <2>4, <3>1, <3>2 DEF SqlInv
  <2>5. created = [s \in M |-> Head(rows[t][s]).at]
    OBVIOUS
  <2> HIDE DEF M, created
  <2> QED
    BY <2>1, <2>2, <2>3, <2>4, <2>5, ListedIs
<1> DEFINE listed == filter.project # None \/ dialect # "postgres"
<1>2. /\ Sql!Replies(c, IF listed THEN answer ELSE SqlContract!Empty)
      /\ sProjects' = sProjects
  <2>1. /\ filter.project = None /\ dialect # "postgres" =>
             Sql!ListAll(t, filter) = Sql!Listed(t, created, filter)
        /\ filter.project # None => Sql!ListByProject(t, filter) = Sql!Listed(t, created, filter)
    <3>1. M = {s \in Session : rows[t][s] # <<>> /\ Matches(rehydrate(s, rows[t][s]), filter)}
      OBVIOUS
    <3>2. created = [s \in M |-> Head(rows[t][s]).at]
      OBVIOUS
    <3> HIDE DEF M, created
    <3> QED
      BY <3>1, <3>2, ListMatches
  <2>2. Sql!None = None
    BY DEF Sql!None, None
  <2>3. dialect = "postgres" => Sql!ListAll(t, filter) = SqlContract!Empty
    BY NothingRanks
  <2> HIDE DEF answer, created
  <2> QED
    BY <1>1, <2>1, <2>2, <2>3 DEF Sql!List
<1>3. filterSessions(theirs, filter) = answer
  <2>1. {a \in theirs : Matches(a, filter)} = {whole(s) : s \in M}
    <3>1. \A s \in Session :
            (SqlContract!Owns(t, s) <=> rows[t][s] # <<>>) /\ SqlContract!View(t, s) = whole(s)
      BY SqlOwns
    <3> HIDE DEF whole
    <3> QED
      BY <3>1
  <2> HIDE DEF theirs, M, whole
  <2> QED
    BY <2>1 DEF filterSessions
<1> HIDE DEF answer, theirs
<1>4. /\ SqlContract!call = c
      /\ SqlContract!Answered(IF listed THEN SqlContract!filterSessions(theirs, filter)
                              ELSE SqlContract!Empty)
  BY <1>2, <1>3, SqlCall, SqlContractLists
<1>5. c \in SqlContract!Calls
  BY DEF SqlContract!Calls
<1>6. SqlContract!List(t, filter)
  BY <1>2, <1>4 DEF SqlContract!List, theirs, SqlContract!None, None
<1>7. SqlContract!Serve(c)
  BY <1>6 DEF SqlContract!Serve
<1> QED
  BY <1>4, <1>5, <1>7 DEF SqlServes

LEMMA SqlOpens == ASSUME Init PROVE (backend = "sql" => SqlInv) /\ SqlContract!Init
<1>1. /\ now = 0 /\ owner = [s \in Session |-> None] /\ live = [s \in Session |-> FALSE]
      /\ seen = [s \in Session |-> <<>>] /\ Sql!Init
  BY DEF Init
<1>2. /\ rows = [t \in Tenant |-> [s \in Session |-> <<>>]]
      /\ directory = [t \in Tenant |-> [s \in Session |-> Sql!NoRecord]]
      /\ sProjects = {} /\ sReply = Sql!Answer(<<>>, Sql!None)
  BY <1>1 DEF Sql!Init
<1>3. <<>> \in Seq(Written) /\ OneCreation(<<>>, None) /\ BornOnce(<<>>)
  BY DEF OneCreation, BornOnce
<1>4. \A s : RecordOf(s, <<>>) = Sql!NoRecord
  BY DEF RecordOf
<1>5. rows = [t \in Tenant |-> [s \in Session |-> IF owner[s] = t THEN seen[s] ELSE <<>>]]
  BY <1>1, <1>2
<1>6. directory = [t \in Tenant |-> [s \in Session |-> RecordOf(s, rows[t][s])]]
  BY <1>2, <1>4
<1>7. SqlInv
  BY <1>1, <1>3, <1>5, <1>6 DEF SqlInv
<1>8. sReply = SqlContract!Answer(<<>>, SqlContract!None)
  BY <1>2 DEF Sql!Answer, SqlContract!Answer, Sql!None, SqlContract!None
<1>9. (IF backend = "sql" THEN seen ELSE Nothing) = [s \in Session |-> <<>>]
  BY <1>1 DEF Nothing
<1> QED
  BY <1>2, <1>7, <1>8, <1>9 DEF SqlContract!Init

LEMMA SqlCreateStep ==
  ASSUME backend = "sql", backend' = "sql", SqlInv, seen' = SeenBy(owner', rows'),
         NEW t \in Tenant, NEW s \in Session, NEW p \in Project \cup {None}, Create(t, s, p)
  PROVE  SqlInv' /\ SqlServes
<1> DEFINE e == Event("created", now + 1, t, p)
<1>1. /\ now < MaxEvents /\ now' = now + 1 /\ live[s] = FALSE /\ owner[s] \in {None, t}
      /\ owner' = [owner EXCEPT ![s] = t] /\ live' = [live EXCEPT ![s] = TRUE]
  BY DEF Create, Tick
<1>2. Sql!AppendEvent(t, s, e)
  BY DEF Create, OnMemory, WriteLog, OnLog, OnSql, Of
<1>3. now \in Nat /\ now' \in Nat /\ now <= now'
  BY <1>1 DEF SqlInv
<1>4. e \in Written /\ e.type = "created" /\ e.at = now'
  BY <1>1, <1>3, EventIs DEF Event
<1>5. seen[s] = <<>>
  BY <1>1 DEF SqlInv
<1>6. Sql!Insert(t, s, e)
  BY <1>2 DEF Sql!AppendEvent
<1> HIDE DEF e
<1>7. SqlInv' /\ seen' = [seen EXCEPT ![s] = Append(@, [e EXCEPT !.tenant = t])]
  BY <1>1, <1>3, <1>4, <1>5, <1>6, InsertKeeps
<1>8. SqlServes
  BY <1>2, <1>4, <1>5, <1>7, SqlAppends
<1> QED
  BY <1>7, <1>8

LEMMA SqlUpdateStep ==
  ASSUME backend = "sql", backend' = "sql", SqlInv, seen' = SeenBy(owner', rows'),
         NEW t \in Tenant, NEW s \in Session, NEW n \in 1 .. MaxEvents, NEW type \in Types,
         Update(t, s, n, type)
  PROVE  SqlInv' /\ SqlServes
<1> DEFINE e == Event(type, now + 1, t, None)
<1>1. now < MaxEvents /\ now' = now + 1 /\ UNCHANGED <<owner, live>>
  BY DEF Update, Tick
<1>2. Sql!ReadModifyWrite(t, s, n, e)
  BY DEF Update, OnMemory, WriteLog, OnLog, OnSql, Of
<1>3. now \in Nat /\ now' \in Nat /\ now <= now'
  BY <1>1 DEF SqlInv
<1>4. e \in Written /\ e.project = None /\ e.type # "created"
  BY <1>1, <1>3, EventIs, CallsKnown DEF Event, StatusBearing, StatusPreserving
<1>5. n \in Nat \ {0}
  BY CallsKnown
<1> HIDE DEF e
<1>6. CASE Len(rows[t][s]) = n
  <2>1. Sql!Insert(t, s, e)
    BY <1>2, <1>6 DEF Sql!ReadModifyWrite
  <2>2. rows[t][s] # <<>> /\ rows[t][s] = IF owner[s] = t THEN seen[s] ELSE <<>>
    BY <1>5, <1>6, RowIs
  <2>3. seen[s] # <<>> /\ owner[s] = t
    BY <2>2
  <2>4. live[s] /\ live \in [Session -> BOOLEAN] /\ owner \in [Session -> Tenant \cup {None}]
    BY <2>3 DEF SqlInv
  <2>5. owner' = [owner EXCEPT ![s] = t] /\ live' = [live EXCEPT ![s] = TRUE]
    BY <1>1, <2>3, <2>4
  <2>6. SqlInv' /\ seen' = [seen EXCEPT ![s] = Append(@, [e EXCEPT !.tenant = t])]
    <3>1. seen[s] # <<>> /\ owner[s] = t /\ e.type # "created" /\ e.project = None /\ e \in Written
      BY <1>4, <2>3
    <3>2. \/ seen[s] # <<>> /\ owner[s] = t /\ e.type # "created" /\ e.project = None
          \/ /\ seen[s] = <<>> /\ owner[s] \in {None, t} /\ e.type = "created"
             /\ e.at = now' /\ now' = now + 1
      BY <3>1
    <3> QED
      BY <1>3, <1>4, <2>1, <2>5, <3>2, InsertKeeps
  <2>7. SqlServes
    BY <1>2, <1>4, <1>5, <1>6, <2>6, SqlWrites
  <2> QED
    BY <2>6, <2>7
<1>7. CASE Len(rows[t][s]) # n
  <2>1. UNCHANGED <<rows, directory>>
    BY <1>2, <1>7 DEF Sql!ReadModifyWrite
  <2>2. SqlInv' /\ seen' = seen
    BY <1>1, <1>3, <2>1, NothingStored
  <2>3. SqlServes
    BY <1>2, <1>4, <1>5, <1>7, <2>2, SqlWrites
  <2> QED
    BY <2>2, <2>3
<1> QED
  BY <1>6, <1>7

LEMMA SqlDeleteStep ==
  ASSUME backend = "sql", backend' = "sql", SqlInv, seen' = SeenBy(owner', rows'),
         NEW t \in Tenant, NEW s \in Session, Delete(t, s)
  PROVE  SqlInv' /\ SqlServes
<1>1. /\ live[s] /\ now < MaxEvents /\ now' = now + 1 /\ owner' = owner
      /\ live' = [live EXCEPT ![s] = owner[s] # t]
  BY DEF Delete, Tick
<1>2. Sql!DeleteSession(t, s)
  BY DEF Delete, OnMemory, WriteLog, OnLog, OnSql, Of
<1>3. now' \in Nat /\ now <= now'
  BY <1>1 DEF SqlInv
<1> DEFINE gone == {s}
<1>4. Sql!Delete(t, gone)
  BY <1>2 DEF Sql!DeleteSession
<1>5. /\ live' \in [Session -> BOOLEAN]
      /\ \A x \in Session : live'[x] = live[x] \/ (owner[x] = t /\ x \in gone)
  <2>1. live \in [Session -> BOOLEAN]
    BY DEF SqlInv
  <2> QED
    BY <1>1, <2>1
<1> HIDE DEF gone
<1>6. /\ SqlInv'
      /\ seen' = [x \in Session |-> IF owner[x] = t /\ x \in gone THEN <<>> ELSE seen[x]]
  BY <1>1, <1>3, <1>4, <1>5, SessionsGo
<1>7. SqlServes
  BY <1>2, <1>6, SqlDeletes DEF gone
<1> QED
  BY <1>6, <1>7

LEMMA SqlDropStep ==
  ASSUME backend = "sql", backend' = "sql", SqlInv, seen' = SeenBy(owner', rows'),
         NEW t \in Tenant, NEW p \in Project, DropProject(t, p)
  PROVE  SqlInv' /\ SqlServes
<1> DEFINE gone == {s \in Session : [id |-> p, tenant |-> t] \in sProjects
                                    /\ directory[t][s].project = p}
<1>1. UNCHANGED <<now, owner, live>>
  BY DEF DropProject
<1>2. Sql!DeleteProject(t, p)
  BY DEF DropProject, OnMemory, ReadLog, OnLog, OnSql, Of
<1>3. now' \in Nat /\ now <= now' /\ live' \in [Session -> BOOLEAN]
  BY <1>1 DEF SqlInv
<1>4. Sql!Delete(t, gone)
  BY <1>2 DEF Sql!DeleteProject
<1>5. gone = {s \in Session : [id |-> p, tenant |-> t] \in sProjects /\ directory[t][s].project = p}
  OBVIOUS
<1> HIDE DEF gone
<1>6. /\ SqlInv'
      /\ seen' = [x \in Session |-> IF owner[x] = t /\ x \in gone THEN <<>> ELSE seen[x]]
  BY <1>1, <1>3, <1>4, SessionsGo
<1>7. SqlServes
  BY <1>2, <1>5, <1>6, SqlDropsProject
<1> QED
  BY <1>6, <1>7

LEMMA SqlReadStep ==
  ASSUME backend = "sql", backend' = "sql", SqlInv, seen' = SeenBy(owner', rows'),
         NEW t \in Tenant
  PROVE  /\ \A s \in Session : Get(t, s) => SqlInv' /\ SqlServes
         /\ \A filter \in Filters : List(t, filter) => SqlInv' /\ SqlServes
         /\ \A p \in Project : NewProject(t, p) => SqlInv' /\ SqlServes
         /\ Projects(t) => SqlInv' /\ SqlServes
<1> DEFINE Untouched == UNCHANGED <<now, owner, live, rows, directory>>
<1>1. ASSUME Untouched PROVE SqlInv' /\ seen' = seen
  <2>1. now' \in Nat /\ now <= now'
    BY <1>1 DEF SqlInv
  <2> QED
    BY <1>1, <2>1, NothingStored
<1>2. ASSUME NEW s \in Session, Get(t, s) PROVE SqlInv' /\ SqlServes
  <2>1. Sql!Get(t, s) /\ Untouched
    BY <1>2 DEF Get, OnMemory, ReadLog, OnLog, OnSql, Of, callers, Sql!Get
  <2> QED
    BY <1>1, <2>1, SqlGets
<1>3. ASSUME NEW filter \in Filters, List(t, filter) PROVE SqlInv' /\ SqlServes
  <2>1. Sql!List(t, filter) /\ Untouched
    BY <1>3 DEF List, OnMemory, ReadLog, OnLog, OnSql, Of, callers, Sql!List
  <2> QED
    BY <1>1, <2>1, SqlListsThem
<1>4. ASSUME NEW p \in Project, NewProject(t, p) PROVE SqlInv' /\ SqlServes
  <2>1. Sql!CreateProject(t, p) /\ Untouched
    BY <1>4 DEF NewProject, OnMemory, ReadLog, OnLog, OnSql, Of, Sql!CreateProject
  <2> QED
    BY <1>1, <2>1, SqlProjects
<1>5. ASSUME Projects(t) PROVE SqlInv' /\ SqlServes
  <2>1. Sql!ListProjects(t) /\ Untouched
    BY <1>5 DEF Projects, OnMemory, ReadLog, OnLog, OnSql, Of, callers, Sql!ListProjects
  <2> QED
    BY <1>1, <2>1, SqlProjects
<1> QED
  BY <1>2, <1>3, <1>4, <1>5

LEMMA SqlStep ==
  ASSUME backend = "sql", SqlInv, [Next]_vars
  PROVE  SqlInv' /\ [SqlContract!Next]_(SqlContract!contractVars)
<1>1. backend' = "sql"
  BY DEF Next, vars
<1>2. CASE Next
  <2>1. seen' = SeenBy(owner', rows')
    BY <1>1, <1>2, StreamsAre DEF Next
  <2>2. CASE Call
    <3>1. SqlInv' /\ SqlServes
      BY <1>1, <2>1, <2>2, SqlCreateStep, SqlUpdateStep, SqlDeleteStep, SqlDropStep, SqlReadStep
      DEF Call, BehindTheLog, OnLog, Of
    <3>2. dialect' = dialect
      <4>1. UNCHANGED <<schema, ledger>>
        BY <1>2, <2>2 DEF Next
      <4> QED
        BY <4>1 DEF schema
    <3> QED
      BY <3>1, <3>2 DEF SqlServes, SqlContract!Next
  <2>3. CASE ~Call
    BY <1>2, <2>3 DEF Next
  <2> QED
    BY <2>2, <2>3
<1>3. CASE UNCHANGED vars
  <2>1. UNCHANGED <<now, owner, live, rows, directory, sProjects, sReply, seen, backend, dialect>>
    BY <1>3 DEF vars, callers, sql, schema
  <2>2. SqlInv'
    BY <2>1 DEF SqlInv
  <2> QED
    BY <2>1, <2>2 DEF SqlContract!contractVars
<1> QED
  BY <1>2, <1>3

LEMMA DialectStays == ASSUME [Next]_vars PROVE dialect' = dialect
<1>1. Schema!Next => dialect' = dialect
  BY DEF Schema!Next, Schema!Start, Schema!Begin, Schema!ReadApplied, Schema!Migrate, Schema!Busy,
         Schema!Commit, Schema!Crash, Schema!Write
<1> QED
  BY <1>1 DEF Next, vars, schema

LEMMA SqlIdle ==
  ASSUME backend # "sql", [Next]_vars PROVE UNCHANGED SqlContract!contractVars
<1>1. UNCHANGED <<sql, backend>>
  BY DEF Next, vars, Call, Create, Update, Get, List, Delete, NewProject, Projects, DropProject,
         BehindTheLog, OnMemory, ReadLog, WriteLog, OnLog, OnSql, Of
<1> QED
  BY <1>1, DialectStays DEF sql, SqlContract!contractVars

\* So are those of the tables on either database: on SQLite to the last list, on PostgreSQL but for
\* the lists across projects, which are empty.
THEOREM SqlIsTheContract == Spec => SqlHonoursContract
<1>1. Init => (backend = "sql" => SqlInv) /\ SqlContract!Init
  BY SqlOpens
<1>2. (backend = "sql" => SqlInv) /\ [Next]_vars =>
        (backend = "sql" => SqlInv)' /\ [SqlContract!Next]_(SqlContract!contractVars)
  <2> SUFFICES ASSUME backend = "sql" => SqlInv, [Next]_vars
               PROVE  (backend = "sql" => SqlInv)' /\ [SqlContract!Next]_(SqlContract!contractVars)
    OBVIOUS
  <2>1. backend' = backend
    BY DEF Next, vars
  <2>2. CASE backend = "sql"
    BY <2>2, SqlStep
  <2>3. CASE backend # "sql"
    BY <2>1, <2>3, SqlIdle
  <2> QED
    BY <2>2, <2>3
<1> QED
  BY <1>1, <1>2, PTL DEF Spec, SqlHonoursContract, SqlContract!Spec
=============================================================================
