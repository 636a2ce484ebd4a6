---------------------------- MODULE BridgeProofs ----------------------------
(***************************************************************************)
(* Theorems about the parts that MCBridge puts into one run.               *)
(*                                                                         *)
(* EventLog, for any number of clients, any file size and any faults: ids  *)
(* on disk are unique whatever fails; and as long as no line was lost or   *)
(* left partial, the log holds a suffix of what was emitted, and a client  *)
(* that resumes by id has everything since it first connected or was last  *)
(* told of a gap.  The argument: the files, oldest first, hold events in   *)
(* the order they were emitted (Older), the last event emitted is in one   *)
(* of them (Latest), so the cursor restored from them is beyond every id   *)
(* given out; a client has all up to its last id, and what it misses       *)
(* beyond is still on disk unless the oldest id there is beyond its own.   *)
(*                                                                         *)
(* Feeds, for any sessions, projects, readers and list limit: a filtered   *)
(* stream has been sent exactly what is due to the list its route read.    *)
(*                                                                         *)
(* PostgresBackend, for any requests and backend objects, on either        *)
(* database and in each mode: a write commits only on the events it was    *)
(* decided from, and on SQLite no cache is left stale for good.            *)
(***************************************************************************)
EXTENDS MCBridge, Sequences, FiniteSetTheorems, TLAPS

On(f) == UNION {f[k].events : k \in 0..2}

Files == [0..2 -> [events : SUBSET Event, junk : Nat]]

FilesOK(f) == f \in Files /\ \A k \in 0..2 : IsFiniteSet(f[k].events)

Types == TypeOK /\ FilesOK(files) /\ IsFiniteSet(issued)

\* While the process runs its cursor is beyond every id on disk.
AheadOfDisk == up => \A e \in Retained : e.id < cursor

DiskInv == Types /\ LogIdsAreUnique /\ AheadOfDisk

\* An undamaged log: f holds, in order and to the last, a suffix of `all'.
Older(f) == \A k, l \in 0..2 : k < l =>
              \A e \in f[l].events, g \in f[k].events : e.no < g.no
Latest(f, all) == \A e \in all : \E g \in On(f) : e.no <= g.no
Suffix(f, all) == \A e \in all, g \in On(f) : e.no > g.no => e \in On(f)

Whole(f, all) ==
  /\ \A k \in 0..2 : f[k].junk = 0
  /\ On(f) \subseteq all
  /\ Older(f) /\ Latest(f, all) /\ Suffix(f, all)

\* Ids and numbers were given out in the same order, and none twice.
InOrder(all) ==
  \A e, g \in all : (e.no < g.no => e.id < g.id) /\ (e.no = g.no => e = g)

Numbered == \A e \in issued : e.no < Emissions /\ (up => e.id < cursor)

Has(r, e) == e.no >= r.since => e \in r.seen

Readers ==
  \A c \in Client :
    LET r == client[c] IN
    /\ r.last # None => \E e \in issued : e.id = r.last
    /\ c \notin ByQuery =>
         /\ r.on => \A e \in issued : Has(r, e)
         /\ r.last # None => \A e \in issued : e.id <= r.last => Has(r, e)

Undamaged == ~torn /\ Whole(files, issued) /\ InOrder(issued) /\ Numbered /\ Readers

LogInv == DiskInv /\ (~damaged => Undamaged)

-----------------------------------------------------------------------------
(* The files.                                                              *)

LEMMA OnThree ==
  ASSUME NEW f
  PROVE  On(f) = f[0].events \cup f[1].events \cup f[2].events
BY DEF On

LEMMA NoFileOK == NoFile \in [events : SUBSET Event, junk : Nat] /\ IsFiniteSet(NoFile.events)
BY FS_EmptySet DEF NoFile

\* What the first rename leaves.
LEMMA MoveOlderIs ==
  ASSUME NEW f, FilesOK(f)
  PROVE  LET g == MoveOlder(f) IN
         /\ FilesOK(g)
         /\ g[0] = f[0] /\ g[1] = NoFile
         /\ g[2] = IF f[1] = NoFile THEN f[2] ELSE f[1]
BY NoFileOK DEF MoveOlder, FilesOK, Files

\* What the second one leaves, in a place that the first has cleared.
LEMMA MoveTailIs ==
  ASSUME NEW f, FilesOK(f), f[1] = NoFile
  PROVE  LET g == MoveTail(f) IN
         /\ FilesOK(g)
         /\ g[0] = NoFile /\ g[1] = f[0] /\ g[2] = f[2]
BY NoFileOK DEF MoveTail, FilesOK, Files

\* An undamaged file that exists has an event.
LEMMA FileHasEvent ==
  ASSUME NEW file \in [events : SUBSET Event, junk : Nat], file # NoFile, file.junk = 0
  PROVE  file.events # {}
BY DEF NoFile

LEMMA MoveOlderWhole ==
  ASSUME NEW f, FilesOK(f), NEW all \in SUBSET Event, Whole(f, all)
  PROVE  Whole(MoveOlder(f), all)
<1> DEFINE g == MoveOlder(f)
<1>1. /\ g[0] = f[0] /\ g[1] = NoFile
      /\ g[2] = IF f[1] = NoFile THEN f[2] ELSE f[1]
  BY MoveOlderIs
<1>2. NoFile.events = {} /\ NoFile.junk = 0
  BY DEF NoFile
<1>3. CASE f[1] = NoFile
  <2>1. g[0] = f[0] /\ g[1] = f[1] /\ g[2] = f[2]
    BY <1>1, <1>3
  <2>2. QED
    BY <2>1, OnThree DEF Whole, Older, Latest, Suffix
<1>4. CASE f[1] # NoFile
  <2>1. /\ f[1] \in [events : SUBSET Event, junk : Nat] /\ f[1].junk = 0
        /\ f[0].events \subseteq Event /\ f[1].events \subseteq Event /\ f[2].events \subseteq Event
    BY DEF FilesOK, Files, Whole
  <2>2. PICK m \in f[1].events : TRUE
    BY <2>1, <1>4, FileHasEvent
  <2>3. On(f) = f[0].events \cup f[1].events \cup f[2].events
    BY OnThree
  <2>4. On(g) = f[0].events \cup f[1].events
    BY <1>1, <1>2, <1>4, OnThree
  <2>5. \A e \in f[2].events, x \in f[0].events \cup f[1].events : e.no < x.no
    BY DEF Whole, Older
  <2>6. \A k \in 0..2 : g[k].junk = 0
    BY <1>1, <1>2, <1>4 DEF Whole
  <2>7. Older(g)
    BY <1>1, <1>2, <1>4 DEF Whole, Older
  <2>8. Latest(g, all)
    <3>1. SUFFICES ASSUME NEW e \in all PROVE \E x \in On(g) : e.no <= x.no
      BY DEF Latest
    <3>2. PICK x \in On(f) : e.no <= x.no
      BY DEF Whole, Latest
    <3>3. CASE x \in f[2].events
      <4>1. x.no < m.no /\ m \in On(g)
        BY <2>2, <2>4, <2>5, <3>3
      <4>2. e.no \in Nat /\ x.no \in Nat /\ m.no \in Nat
        BY <2>1, <2>2, <3>3 DEF Event
      <4>3. e.no <= m.no
        BY <3>2, <4>1, <4>2
      <4>4. QED
        BY <4>1, <4>3
    <3>4. QED
      BY <2>3, <2>4, <3>2, <3>3
  <2>9. Suffix(g, all)
    <3>1. SUFFICES ASSUME NEW e \in all, NEW x \in On(g), e.no > x.no PROVE e \in On(g)
      BY DEF Suffix
    <3>2. e \in On(f)
      BY <2>3, <2>4, <3>1 DEF Whole, Suffix
    <3>3. e \notin f[2].events
      <4>1. SUFFICES ASSUME e \in f[2].events PROVE FALSE
        OBVIOUS
      <4>2. e.no < x.no
        BY <2>4, <2>5, <4>1
      <4>3. e.no \in Nat /\ x.no \in Nat
        BY <2>1, <2>4 DEF Event
      <4>4. QED
        BY <3>1, <4>2, <4>3
    <3>4. QED
      BY <2>3, <2>4, <3>2, <3>3
  <2>10. On(g) \subseteq all
    BY <2>3, <2>4 DEF Whole
  <2>11. QED
    BY <2>6, <2>7, <2>8, <2>9, <2>10 DEF Whole
<1>5. QED
  BY <1>3, <1>4

LEMMA MoveTailWhole ==
  ASSUME NEW f, FilesOK(f), f[1] = NoFile, NEW all \in SUBSET Event, Whole(f, all)
  PROVE  Whole(MoveTail(f), all)
<1> DEFINE g == MoveTail(f)
<1>1. g[0] = NoFile /\ g[1] = f[0] /\ g[2] = f[2]
  BY MoveTailIs
<1>2. NoFile.events = {} /\ NoFile.junk = 0
  BY DEF NoFile
<1>3. On(g) = On(f)
  BY <1>1, <1>2, OnThree
<1>4. \A k \in 0..2 : g[k].junk = 0
  BY <1>1, <1>2 DEF Whole
<1>5. Older(g)
  BY <1>1, <1>2 DEF Whole, Older
<1>6. QED
  BY <1>3, <1>4, <1>5 DEF Whole, Latest, Suffix

\* What the append finds after the rotation, if there was one.
LEMMA RotationsAre ==
  ASSUME DiskInv, NEW kept \in Rotations
  PROVE  /\ FilesOK(kept.files) /\ On(kept.files) \subseteq Retained
         /\ kept.torn \in BOOLEAN /\ kept.sidecar \in Nat /\ kept.size \in Nat
         /\ ~torn /\ Whole(files, issued) => ~kept.torn /\ Whole(kept.files, issued)
<1> DEFINE older == MoveOlder(files)
           tail == MoveTail(older)
<1>1. /\ FilesOK(files) /\ torn \in BOOLEAN /\ sidecar \in Nat /\ cursor \in Nat
      /\ tailSize \in Nat /\ issued \in SUBSET Event
  BY DEF DiskInv, Types, TypeOK
<1>2. /\ FilesOK(older) /\ older[0] = files[0] /\ older[1] = NoFile
      /\ older[2] = IF files[1] = NoFile THEN files[2] ELSE files[1]
  BY <1>1, MoveOlderIs
<1>3. /\ FilesOK(tail) /\ tail[0] = NoFile /\ tail[1] = older[0] /\ tail[2] = older[2]
  BY <1>2, MoveTailIs
<1>4. On(files) = Retained
  BY DEF On, Retained
<1>5. On(older) \subseteq Retained /\ On(tail) \subseteq Retained
  <2>1. NoFile.events = {}
    BY DEF NoFile
  <2>2. QED
    BY <1>2, <1>3, <1>4, <2>1, OnThree
<1>6. Size(files[0]) \in Nat
  BY <1>1, FS_CardinalityType DEF FilesOK, Files, Size
<1>7. Whole(files, issued) => Whole(older, issued) /\ Whole(tail, issued)
  BY <1>1, <1>2, MoveOlderWhole, MoveTailWhole
<1>8. \/ kept = [files |-> files, torn |-> torn, sidecar |-> sidecar, size |-> tailSize]
      \/ kept = Rotate
      \/ kept = RotationFails(files)
      \/ kept = RotationFails(older)
  BY DEF Rotations
<1>9. Rotate = [files |-> tail, torn |-> FALSE, sidecar |-> cursor + 1, size |-> 0]
  BY DEF Rotate
<1>10. \A f : RotationFails(f) =
                [files |-> f, torn |-> torn, sidecar |-> sidecar, size |-> Size(files[0])]
  BY DEF RotationFails
<1>11. \/ kept.files = files /\ kept.torn = torn /\ kept.sidecar = sidecar /\ kept.size = tailSize
       \/ kept.files = tail /\ kept.torn = FALSE /\ kept.sidecar = cursor + 1 /\ kept.size = 0
       \/ kept.files = files /\ kept.torn = torn /\ kept.sidecar = sidecar /\ kept.size = Size(files[0])
       \/ kept.files = older /\ kept.torn = torn /\ kept.sidecar = sidecar /\ kept.size = Size(files[0])
  BY <1>8, <1>9, <1>10
<1>12. FilesOK(kept.files) /\ On(kept.files) \subseteq Retained
  BY <1>1, <1>2, <1>3, <1>4, <1>5, <1>11
<1>13. kept.torn \in BOOLEAN /\ kept.sidecar \in Nat /\ kept.size \in Nat
  <2> HIDE DEF older, tail
  <2>1. kept.torn = torn \/ kept.torn = FALSE
    BY <1>11
  <2>2. kept.sidecar = sidecar \/ kept.sidecar = cursor + 1
    BY <1>11
  <2>3. kept.size = tailSize \/ kept.size = 0 \/ kept.size = Size(files[0])
    BY <1>11
  <2>4. kept.torn \in BOOLEAN
    BY <1>1, <2>1, Zenon
  <2>5. kept.sidecar \in Nat
    BY <1>1, <2>2
  <2>6. kept.size \in Nat
    BY <1>1, <1>6, <2>3
  <2>7. QED
    BY <2>4, <2>5, <2>6, Zenon
<1>14. ASSUME ~torn, Whole(files, issued)
       PROVE  ~kept.torn /\ Whole(kept.files, issued)
  BY <1>7, <1>11, <1>14
<1>15. QED
  BY <1>12, <1>13, <1>14

LEMMA NextEventType ==
  ASSUME DiskInv
  PROVE  NextEvent \in Event /\ NextEvent.id = cursor /\ NextEvent.no = Emissions
         /\ Emissions \in Nat /\ cursor \in Nat
BY FS_CardinalityType DEF DiskInv, Types, TypeOK, Event, NextEvent, Emissions

\* The line is in the tail, or lost behind a partial one.
LEMMA WithLineIs ==
  ASSUME NEW f, FilesOK(f), NEW kept, kept.files = f, NEW e \in Event
  PROVE  LET g == WithLine(kept, e) IN
         /\ FilesOK(g)
         /\ g[1] = f[1] /\ g[2] = f[2] /\ g[0].junk = f[0].junk
         /\ g[0].events = IF kept.torn THEN f[0].events ELSE f[0].events \cup {e}
<1>1. CASE kept.torn
  BY <1>1 DEF WithLine
<1>2. CASE ~kept.torn
  <2>1. WithLine(kept, e) = [f EXCEPT ![0] = [f[0] EXCEPT !.events = f[0].events \cup {e}]]
    BY <1>2 DEF WithLine, FilesOK, Files
  <2>2. IsFiniteSet(f[0].events \cup {e})
    BY FS_AddElement DEF FilesOK
  <2>3. [f[0] EXCEPT !.events = f[0].events \cup {e}] \in [events : SUBSET Event, junk : Nat]
    BY DEF FilesOK, Files
  <2>4. QED
    BY <1>2, <2>1, <2>2, <2>3 DEF FilesOK, Files
<1>3. QED
  BY <1>1, <1>2

LEMMA WithPartialLineIs ==
  ASSUME NEW f, FilesOK(f), NEW kept, kept.files = f
  PROVE  LET g == WithPartialLine(kept) IN
         FilesOK(g) /\ \A k \in 0..2 : g[k].events = f[k].events
<1>1. CASE kept.torn
  BY <1>1 DEF WithPartialLine
<1>2. CASE ~kept.torn
  <2>1. WithPartialLine(kept) = [f EXCEPT ![0] = [f[0] EXCEPT !.junk = f[0].junk + 1]]
    BY <1>2 DEF WithPartialLine, FilesOK, Files
  <2>2. [f[0] EXCEPT !.junk = f[0].junk + 1] \in [events : SUBSET Event, junk : Nat]
    BY DEF FilesOK, Files
  <2>3. QED
    BY <1>2, <2>1, <2>2 DEF FilesOK, Files
<1>3. QED
  BY <1>1, <1>2

-----------------------------------------------------------------------------
(* Whatever fails, the ids on disk are unique.                             *)

LEMMA RetainedIsOn == Retained = On(files)
BY DEF Retained, On

\* Every way to write a file back: the events that were there, and perhaps
\* the one being emitted.
LEMMA WrittenBack ==
  ASSUME DiskInv, NEW kept \in Rotations,
         NEW g \in {WithLine(kept, NextEvent), WithPartialLine(kept), kept.files}
  PROVE  FilesOK(g) /\ On(g) \subseteq Retained \cup {NextEvent}
<1>1. FilesOK(kept.files) /\ On(kept.files) \subseteq Retained
  BY RotationsAre
<1>2. CASE g = WithLine(kept, NextEvent)
  <2>1. /\ FilesOK(g) /\ g[1] = kept.files[1] /\ g[2] = kept.files[2]
        /\ g[0].events \subseteq kept.files[0].events \cup {NextEvent}
    <3>1. NextEvent \in Event
      BY NextEventType
    <3>2. LET h == WithLine(kept, NextEvent) IN
          /\ FilesOK(h) /\ h[1] = kept.files[1] /\ h[2] = kept.files[2]
          /\ h[0].events = IF kept.torn THEN kept.files[0].events
                           ELSE kept.files[0].events \cup {NextEvent}
      BY <1>1, <3>1, WithLineIs
    <3>3. QED
      BY <1>2, <3>2
  <2>2. QED
    BY <1>1, <2>1, OnThree
<1>3. CASE g = WithPartialLine(kept)
  <2>1. FilesOK(g) /\ \A k \in 0..2 : g[k].events = kept.files[k].events
    BY <1>1, <1>3, WithPartialLineIs
  <2>2. QED
    BY <1>1, <2>1, OnThree
<1>4. CASE g = kept.files
  BY <1>1, <1>4
<1>5. QED
  BY <1>2, <1>3, <1>4

LEMMA UniqueOnDisk ==
  ASSUME DiskInv, up, NEW g, On(g) \subseteq Retained \cup {NextEvent}
  PROVE  /\ \A e, f \in On(g) : e.id = f.id => e = f
         /\ \A e \in On(g) : e.id < cursor + 1
<1>1. \A e \in Retained : e.id < cursor /\ e.id \in Nat
  <2>1. Retained \subseteq Event
    BY RetainedIsOn, OnThree DEF DiskInv, Types, FilesOK, Files
  <2>2. QED
    BY <2>1 DEF DiskInv, AheadOfDisk, Event
<1>2. NextEvent.id = cursor /\ cursor \in Nat
  BY NextEventType
<1>3. \A e, f \in Retained : e.id = f.id => e = f
  BY DEF DiskInv, LogIdsAreUnique
<1>4. QED
  BY <1>1, <1>2, <1>3

\* The events of the rotated files are events that were there.
LEMMA RenamedFiles ==
  ASSUME DiskInv, NEW g \in {MoveOlder(files), MoveTail(MoveOlder(files))}
  PROVE  FilesOK(g) /\ On(g) \subseteq Retained
<1>1. FilesOK(files)
  BY DEF DiskInv, Types
<1>2. LET f == MoveOlder(files) IN
      /\ FilesOK(f) /\ f[0] = files[0] /\ f[1] = NoFile
      /\ f[2] = IF files[1] = NoFile THEN files[2] ELSE files[1]
  BY <1>1, MoveOlderIs
<1>3. LET f == MoveTail(MoveOlder(files)) IN
      /\ FilesOK(f) /\ f[0] = NoFile /\ f[1] = files[0]
      /\ f[2] = IF files[1] = NoFile THEN files[2] ELSE files[1]
  BY <1>2, MoveTailIs
<1>4. NoFile.events = {}
  BY DEF NoFile
<1>5. QED
  BY <1>2, <1>3, <1>4, RetainedIsOn, OnThree

ClientType == [Client -> [on : BOOLEAN, last : Nat \cup {None}, since : Nat, seen : SUBSET Event]]

\* What a delivery makes of the streams and of the history.
LEMMA DeliverTypes ==
  ASSUME DiskInv, Deliver(NextEvent)
  PROVE  client' \in ClientType /\ issued' \subseteq Event /\ IsFiniteSet(issued')
<1>1. NextEvent \in Event /\ NextEvent.id \in Nat
  BY NextEventType
<1>2. client \in ClientType /\ issued \subseteq Event /\ IsFiniteSet(issued)
  BY DEF DiskInv, Types, TypeOK, ClientType
<1>3. issued' \subseteq Event /\ IsFiniteSet(issued')
  BY <1>1, <1>2, FS_AddElement DEF Deliver
<1>4. \A r \in [on : BOOLEAN, last : Nat \cup {None}, since : Nat, seen : SUBSET Event] :
        [r EXCEPT !.seen = r.seen \cup {NextEvent}, !.last = NextEvent.id]
          \in [on : BOOLEAN, last : Nat \cup {None}, since : Nat, seen : SUBSET Event]
  BY <1>1
<1>5. QED
  BY <1>2, <1>3, <1>4 DEF Deliver, ClientType

LEMMA DownTypes ==
  ASSUME DiskInv, Down
  PROVE  client' \in ClientType /\ up' = FALSE /\ cursor' \in Nat /\ tailSize' \in Nat
BY DEF DiskInv, Types, TypeOK, ClientType, Down, Disconnected

LEMMA DiskInvInit == Init => DiskInv
<1> SUFFICES ASSUME Init PROVE DiskInv
  OBVIOUS
<1>1. FilesOK(files) /\ \A k \in 0..2 : files[k].events = {}
  BY NoFileOK DEF Init, FilesOK, Files, NoFile
<1>2. Retained = {}
  BY <1>1, RetainedIsOn, OnThree
<1>3. IsFiniteSet(issued)
  BY FS_EmptySet DEF Init
<1>4. TypeOK
  BY <1>1 DEF Init, TypeOK, FilesOK, Files, None
<1>5. QED
  BY <1>1, <1>2, <1>3, <1>4 DEF DiskInv, Types, LogIdsAreUnique, AheadOfDisk

LEMMA DiskInvStep == DiskInv /\ [Next]_vars => DiskInv'
<1> SUFFICES ASSUME DiskInv, [Next]_vars PROVE DiskInv'
  OBVIOUS
<1>0. /\ FilesOK(files) /\ torn \in BOOLEAN /\ sidecar \in Nat /\ up \in BOOLEAN
      /\ cursor \in Nat /\ tailSize \in Nat /\ damaged \in BOOLEAN
      /\ client \in ClientType /\ issued \subseteq Event /\ IsFiniteSet(issued)
      /\ LogIdsAreUnique /\ (up => \A e \in Retained : e.id < cursor)
  BY DEF DiskInv, Types, TypeOK, AheadOfDisk, ClientType
<1>T. ASSUME /\ FilesOK(files') /\ torn' \in BOOLEAN /\ sidecar' \in Nat /\ up' \in BOOLEAN
             /\ cursor' \in Nat /\ tailSize' \in Nat /\ damaged' \in BOOLEAN
             /\ client' \in ClientType /\ issued' \subseteq Event /\ IsFiniteSet(issued')
             /\ \A e, f \in On(files') : e.id = f.id => e = f
             /\ up' => \A e \in On(files') : e.id < cursor'
      PROVE  DiskInv'
  <2>1. Retained' = On(files')
    BY DEF Retained, On
  <2>2. LogIdsAreUnique' /\ AheadOfDisk'
    BY <1>T, <2>1 DEF LogIdsAreUnique, AheadOfDisk
  <2>3. TypeOK'
    BY <1>T DEF TypeOK, FilesOK, Files, ClientType
  <2>4. QED
    BY <1>T, <2>2, <2>3 DEF DiskInv, Types
<1>1. CASE Emit
  <2>1. PICK kept \in Rotations :
          /\ files' = WithLine(kept, NextEvent)
          /\ torn' = FALSE /\ sidecar' = kept.sidecar /\ tailSize' = kept.size + 1
          /\ damaged' = (damaged \/ kept.torn)
    BY <1>1 DEF Emit
  <2>2. kept.torn \in BOOLEAN /\ kept.sidecar \in Nat /\ kept.size \in Nat
    BY RotationsAre
  <2>3. up /\ up' = up /\ cursor' = cursor + 1 /\ Deliver(NextEvent)
    BY <1>1 DEF Emit, MayEmit
  <2>4. FilesOK(files') /\ On(files') \subseteq Retained \cup {NextEvent}
    BY <2>1, WrittenBack
  <2>5. damaged' \in BOOLEAN
    BY <2>1
  <2>6. client' \in ClientType /\ issued' \subseteq Event /\ IsFiniteSet(issued')
    BY <2>3, DeliverTypes
  <2>7. /\ \A e, f \in On(files') : e.id = f.id => e = f
        /\ \A e \in On(files') : e.id < cursor'
    BY <2>3, <2>4, UniqueOnDisk
  <2>8. sidecar' \in Nat /\ tailSize' \in Nat /\ cursor' \in Nat
    BY <1>0, <2>1, <2>2, <2>3
  <2>9. torn' \in BOOLEAN /\ up' \in BOOLEAN
    BY <1>0, <2>1, <2>3
  <2>10. QED
    BY <1>T, <2>4, <2>5, <2>6, <2>7, <2>8, <2>9, Zenon
<1>2. CASE EmitUnwritten
  <2>1. PICK kept \in Rotations, partial \in BOOLEAN :
          /\ files' = IF partial THEN WithPartialLine(kept) ELSE kept.files
          /\ torn' = (kept.torn \/ partial)
          /\ sidecar' = kept.sidecar /\ tailSize' = kept.size
    BY <1>2 DEF EmitUnwritten
  <2>2. kept.torn \in BOOLEAN /\ kept.sidecar \in Nat /\ kept.size \in Nat
    BY RotationsAre
  <2>3. up /\ up' = up /\ cursor' = cursor + 1 /\ damaged' = TRUE /\ Deliver(NextEvent)
    BY <1>2 DEF EmitUnwritten, MayEmit
  <2>4. files' \in {WithLine(kept, NextEvent), WithPartialLine(kept), kept.files}
    BY <2>1
  <2>5. FilesOK(files') /\ On(files') \subseteq Retained \cup {NextEvent}
    BY <2>4, WrittenBack
  <2>6. client' \in ClientType /\ issued' \subseteq Event /\ IsFiniteSet(issued')
    BY <2>3, DeliverTypes
  <2>7. /\ \A e, f \in On(files') : e.id = f.id => e = f
        /\ \A e \in On(files') : e.id < cursor'
    BY <2>3, <2>5, UniqueOnDisk
  <2>8. sidecar' \in Nat /\ tailSize' \in Nat /\ cursor' \in Nat
    BY <1>0, <2>1, <2>2, <2>3
  <2>9. torn' \in BOOLEAN /\ up' \in BOOLEAN /\ damaged' \in BOOLEAN
    BY <1>0, <2>1, <2>3
  <2>10. QED
    BY <1>T, <2>5, <2>6, <2>7, <2>8, <2>9, Zenon
<1>3. CASE Crash
  <2>1. Down /\ UNCHANGED <<files, torn, sidecar, issued, damaged>>
    BY <1>3 DEF Crash, disk
  <2>2. client' \in ClientType /\ up' = FALSE /\ cursor' \in Nat /\ tailSize' \in Nat
    BY <2>1, DownTypes
  <2>3. \A e, f \in On(files') : e.id = f.id => e = f
    BY <1>0, <2>1, RetainedIsOn DEF LogIdsAreUnique
  <2>4. QED
    BY <1>0, <1>T, <2>1, <2>2, <2>3
<1>4. CASE CrashInRotation
  <2>1. /\ files' \in {MoveOlder(files), MoveTail(MoveOlder(files))}
        /\ torn' = (torn /\ files'[0] # NoFile)
        /\ Down /\ UNCHANGED <<sidecar, issued, damaged>>
    BY <1>4 DEF CrashInRotation
  <2>2. FilesOK(files') /\ On(files') \subseteq Retained
    BY <2>1, RenamedFiles
  <2>3. client' \in ClientType /\ up' = FALSE /\ cursor' \in Nat /\ tailSize' \in Nat
    BY <2>1, DownTypes
  <2>4. \A e, f \in On(files') : e.id = f.id => e = f
    BY <1>0, <2>2 DEF LogIdsAreUnique
  <2>5. torn' \in BOOLEAN
    BY <2>1
  <2>6. QED
    BY <1>0, <1>T, <2>1, <2>2, <2>3, <2>4, <2>5
<1>5. CASE CrashInAppend
  <2>1. PICK kept \in Rotations : files' = WithPartialLine(kept) /\ sidecar' = kept.sidecar
    BY <1>5 DEF CrashInAppend
  <2>2. up /\ torn' = TRUE /\ damaged' = TRUE /\ Down /\ issued' = issued
    BY <1>5 DEF CrashInAppend, MayEmit
  <2>3. FilesOK(files') /\ On(files') \subseteq Retained \cup {NextEvent}
    BY <2>1, WrittenBack
  <2>4. client' \in ClientType /\ up' = FALSE /\ cursor' \in Nat /\ tailSize' \in Nat
    BY <2>2, DownTypes
  <2>5. \A e, f \in On(files') : e.id = f.id => e = f
    BY <2>2, <2>3, UniqueOnDisk
  <2>6. sidecar' \in Nat
    BY <2>1, RotationsAre
  <2>7. QED
    BY <1>0, <1>T, <2>2, <2>3, <2>4, <2>5, <2>6
<1>6. CASE CrashBeforeDelivery
  <2>1. PICK kept \in Rotations :
          /\ files' = WithLine(kept, NextEvent) /\ sidecar' = kept.sidecar
          /\ damaged' = (damaged \/ kept.torn)
    BY <1>6 DEF CrashBeforeDelivery
  <2>2. up /\ torn' = FALSE /\ issued' = issued \cup {NextEvent} /\ Down
    BY <1>6 DEF CrashBeforeDelivery, MayEmit
  <2>3. FilesOK(files') /\ On(files') \subseteq Retained \cup {NextEvent}
    BY <2>1, WrittenBack
  <2>4. client' \in ClientType /\ up' = FALSE /\ cursor' \in Nat /\ tailSize' \in Nat
    BY <2>2, DownTypes
  <2>5. \A e, f \in On(files') : e.id = f.id => e = f
    BY <2>2, <2>3, UniqueOnDisk
  <2>6. sidecar' \in Nat
    BY <2>1, RotationsAre
  <2>7. issued' \subseteq Event /\ IsFiniteSet(issued')
    BY <1>0, <2>2, NextEventType, FS_AddElement
  <2>8. damaged' \in BOOLEAN
    BY <2>1
  <2>9. torn' \in BOOLEAN /\ up' \in BOOLEAN
    BY <2>2, <2>4
  <2>10. QED
    BY <1>T, <2>3, <2>4, <2>5, <2>6, <2>7, <2>8, <2>9, Zenon
<1>7. CASE Restart
  <2>1. PICK n \in 0..MaxIds : Restores(n) /\ cursor' = n
    BY <1>7 DEF Restart
  <2>2. /\ up' = TRUE /\ tailSize' = Size(files[0])
        /\ UNCHANGED <<files, torn, sidecar, client, issued, damaged>>
    BY <1>7 DEF Restart, disk
  <2>3. cursor' \in Nat /\ \A e \in On(files') : e.id < cursor'
    BY <2>1, <2>2, RetainedIsOn, CapPositive DEF Restores
  <2>4. tailSize' \in Nat
    BY <1>0, <2>2, FS_CardinalityType DEF Size, FilesOK, Files
  <2>5. \A e, f \in On(files') : e.id = f.id => e = f
    BY <1>0, <2>2, RetainedIsOn DEF LogIdsAreUnique
  <2>6. QED
    BY <1>0, <1>T, <2>2, <2>3, <2>4, <2>5
<1>8. ASSUME client' \in ClientType, UNCHANGED <<disk, memory, issued, damaged>>
      PROVE  DiskInv'
  <2>1. UNCHANGED <<files, torn, sidecar, up, cursor, tailSize, issued, damaged>>
    BY <1>8 DEF disk, memory
  <2>2. /\ \A e, f \in On(files') : e.id = f.id => e = f
        /\ up' => \A e \in On(files') : e.id < cursor'
    BY <1>0, <2>1, RetainedIsOn DEF LogIdsAreUnique
  <2>3. QED
    BY <1>0, <1>8, <1>T, <2>1, <2>2
<1>9. ASSUME NEW c \in Client,
             ConnectLive(c) \/ ConnectGap(c) \/ ConnectReplay(c) \/ Disconnect(c)
      PROVE  DiskInv'
  <2>1. /\ client[c] \in [on : BOOLEAN, last : Nat \cup {None}, since : Nat, seen : SUBSET Event]
        /\ Emissions \in Nat /\ Retained \subseteq Event
    BY <1>0, FS_CardinalityType, RetainedIsOn, OnThree DEF ClientType, Emissions, FilesOK, Files
  <2>2. CASE ConnectLive(c)
    <3>1. client' = [client EXCEPT ![c] = [client[c] EXCEPT !.on = TRUE,
                       !.since = IF client[c].last = None THEN Emissions ELSE client[c].since]]
      BY <2>2 DEF ConnectLive
    <3>2. client' \in ClientType
      BY <1>0, <2>1, <3>1 DEF ClientType
    <3>3. QED
      BY <1>8, <2>2, <3>2 DEF ConnectLive
  <2>3. CASE ConnectGap(c)
    <3>1. client' \in ClientType
      BY <1>0, <2>1, <2>3 DEF ConnectGap, ClientType
    <3>2. QED
      BY <1>8, <2>3, <3>1 DEF ConnectGap
  <2>4. CASE ConnectReplay(c)
    <3>1. PICK last \in {client[c].last} \cup {e.id : e \in Missed(client[c].last)} :
            client' = [client EXCEPT ![c].on = TRUE, ![c].last = last,
                                     ![c].seen = @ \cup Missed(client[c].last)]
      BY <2>4 DEF ConnectReplay
    <3>2. Missed(client[c].last) \subseteq Event
      BY <2>1 DEF Missed
    <3>3. last \in Nat \cup {None}
      BY <2>1, <3>2 DEF Event
    <3>4. client' \in ClientType
      BY <1>0, <2>1, <3>1, <3>2, <3>3 DEF ClientType
    <3>5. QED
      BY <1>8, <2>4, <3>4 DEF ConnectReplay
  <2>5. CASE Disconnect(c)
    <3>1. client' \in ClientType
      BY <1>0, <2>5 DEF Disconnect, ClientType
    <3>2. QED
      BY <1>8, <2>5, <3>1 DEF Disconnect
  <2>6. QED
    BY <1>9, <2>2, <2>3, <2>4, <2>5
<1>10. CASE UNCHANGED vars
  BY <1>0, <1>8, <1>10 DEF vars, disk, memory
<1>11. QED
  BY <1>1, <1>2, <1>3, <1>4, <1>5, <1>6, <1>7, <1>9, <1>10 DEF Next

\* Every state is of the right type.
THEOREM LogTypeCorrect == Spec => []TypeOK
<1>1. DiskInv => TypeOK
  BY DEF DiskInv, Types
<1>2. QED
  BY DiskInvInit, DiskInvStep, <1>1, PTL DEF Spec

\* Whatever fails and whenever the process dies, no two lines of the log carry
\* one id, and the cursor never dips below one that is stored.
THEOREM LogNeverReusesAStoredId == Spec => [](LogIdsAreUnique /\ AheadOfDisk)
<1>1. DiskInv => LogIdsAreUnique /\ AheadOfDisk
  BY DEF DiskInv
<1>2. QED
  BY DiskInvInit, DiskInvStep, <1>1, PTL DEF Spec

-----------------------------------------------------------------------------
(* As long as no line was lost: order, completeness, honest streams.       *)

\* What DiskInv says of the types, for the steps below.
LEMMA KnownTypes ==
  ASSUME DiskInv
  PROVE  /\ issued \in SUBSET Event /\ IsFiniteSet(issued) /\ FilesOK(files)
         /\ Emissions \in Nat /\ cursor \in Nat
         /\ \A e \in issued : e.id \in Nat /\ e.no \in Nat
         /\ \A c \in Client : client[c].last \in Nat \cup {None} /\ client[c].since \in Nat
BY FS_CardinalityType DEF DiskInv, Types, TypeOK, Event, Emissions

\* The event being emitted comes after every other, in number and in id.
LEMMA NextIsLast ==
  ASSUME DiskInv, Undamaged, up
  PROVE  /\ \A e \in issued : e.no < NextEvent.no /\ e.id < NextEvent.id
         /\ NextEvent \notin issued
BY KnownTypes, NextEventType DEF Undamaged, Numbered

LEMMA AppendedWhole ==
  ASSUME DiskInv, Undamaged, up, NEW kept \in Rotations
  PROVE  Whole(WithLine(kept, NextEvent), issued \cup {NextEvent})
<1> DEFINE f == kept.files
           g == WithLine(kept, NextEvent)
           all == issued \cup {NextEvent}
<1>1. ~kept.torn /\ FilesOK(f) /\ Whole(f, issued)
  BY RotationsAre DEF Undamaged
<1>2. NextEvent \in Event
  BY NextEventType
<1>3. /\ g[1] = f[1] /\ g[2] = f[2] /\ g[0].junk = f[0].junk
      /\ g[0].events = f[0].events \cup {NextEvent}
  <2>1. LET h == WithLine(kept, NextEvent) IN
        /\ h[1] = f[1] /\ h[2] = f[2] /\ h[0].junk = f[0].junk
        /\ h[0].events = IF kept.torn THEN f[0].events ELSE f[0].events \cup {NextEvent}
    <3>1. FilesOK(kept.files) /\ kept.files = kept.files
      BY <1>1
    <3>2. QED
      BY ONLY <3>1, <1>2, WithLineIs
  <2>2. QED
    BY <1>1, <2>1
<1> HIDE DEF g, f
<1>4. On(g) = On(f) \cup {NextEvent}
  BY <1>3, OnThree
<1>5. /\ \A e \in issued : e.no < NextEvent.no
      /\ \A e \in all : e.no \in Nat
  BY <1>2, NextIsLast, KnownTypes DEF Event
<1>6. On(f) \subseteq issued
  BY <1>1 DEF Whole
<1>7. \A k \in 0..2 : g[k].junk = 0
  BY <1>1, <1>3 DEF Whole
<1>8. Older(g)
  <2>1. f[1].events \subseteq issued /\ f[2].events \subseteq issued
    BY <1>6, OnThree
  <2>2. QED
    BY <1>1, <1>3, <1>5, <2>1 DEF Whole, Older
<1>9. Latest(g, all)
  <2>1. ASSUME NEW e \in issued PROVE \E x \in On(g) : e.no <= x.no
    BY <1>1, <1>4 DEF Whole, Latest
  <2>2. NextEvent.no <= NextEvent.no /\ NextEvent \in On(g)
    BY <1>4, <1>5
  <2>3. QED
    BY <2>1, <2>2 DEF Latest
<1>10. Suffix(g, all)
  <2>1. SUFFICES ASSUME NEW e \in all, NEW x \in On(g), e.no > x.no PROVE e \in On(g)
    BY DEF Suffix
  <2>2. CASE e = NextEvent
    BY <1>4, <2>2
  <2>3. CASE e # NextEvent
    <3>1. e \in issued /\ e.no < NextEvent.no
      BY <1>5, <2>3
    <3>2. x \in On(f)
      BY <1>4, <1>5, <2>1, <3>1
    <3>3. QED
      BY <1>1, <1>4, <2>1, <3>1, <3>2 DEF Whole, Suffix
  <2>4. QED
    BY <2>2, <2>3
<1>11. On(g) \subseteq all
  BY <1>4, <1>6
<1>12. QED
  BY <1>7, <1>8, <1>9, <1>10, <1>11 DEF Whole, g

LEMMA AppendedInOrder ==
  ASSUME DiskInv, Undamaged, up
  PROVE  InOrder(issued \cup {NextEvent})
<1>1. \A e \in issued : e.no < NextEvent.no /\ e.id < NextEvent.id
  BY NextIsLast
<1>2. /\ \A e \in issued : e.no \in Nat /\ e.id \in Nat
      /\ NextEvent.no \in Nat /\ NextEvent.id \in Nat
  BY KnownTypes, NextEventType
<1>3. InOrder(issued)
  BY DEF Undamaged
<1>4. QED
  BY <1>1, <1>2, <1>3 DEF InOrder

\* The history counts its events; up tells whether the cursor is known.
LEMMA AppendedNumbered ==
  ASSUME DiskInv, Undamaged, up, issued' = issued \cup {NextEvent},
         up' => cursor' = cursor + 1
  PROVE  Numbered'
<1>1. Emissions' = Emissions + 1
  <2>1. NextEvent \notin issued /\ IsFiniteSet(issued)
    BY NextIsLast, KnownTypes
  <2>2. Cardinality(issued \cup {NextEvent}) = Cardinality(issued) + 1
    BY <2>1, FS_AddElement
  <2>3. QED
    BY <2>2 DEF Emissions
<1>2. \A e \in issued : e.no < NextEvent.no /\ e.id < NextEvent.id /\ e.no \in Nat /\ e.id \in Nat
  BY NextIsLast, KnownTypes
<1>3. NextEvent.no = Emissions /\ NextEvent.id = cursor /\ Emissions \in Nat /\ cursor \in Nat
  BY NextEventType
<1>4. QED
  BY <1>1, <1>2, <1>3 DEF Numbered

\* An id a client has is an id that was given out: nothing emitted now is
\* behind it.
LEMMA LastIsBehind ==
  ASSUME DiskInv, Undamaged, up, NEW c \in Client, client[c].last # None
  PROVE  ~(NextEvent.id <= client[c].last)
<1>1. PICK e \in issued : e.id = client[c].last
  BY DEF Undamaged, Readers
<1>2. QED
  BY <1>1, NextIsLast, KnownTypes, NextEventType

\* What one client's stream owes it, given what was emitted.
StreamOf(c, r, all) ==
  /\ r.last # None => \E e \in all : e.id = r.last
  /\ c \notin ByQuery =>
       /\ r.on => \A e \in all : Has(r, e)
       /\ r.last # None => \A e \in all : e.id <= r.last => Has(r, e)

LEMMA StreamsAre == Readers <=> \A c \in Client : StreamOf(c, client[c], issued)
BY DEF Readers, StreamOf

\* A delivery, and an emission that its process did not survive.
LEMMA StreamsDelivered ==
  ASSUME DiskInv, Undamaged, up, Deliver(NextEvent)
  PROVE  Readers'
<1>1. SUFFICES ASSUME NEW c \in Client PROVE StreamOf(c, client'[c], issued')
  BY DEF Readers, StreamOf
<1> DEFINE r == client[c]
<1>2. StreamOf(c, r, issued)
  BY StreamsAre DEF Undamaged
<1>3. issued' = issued \cup {NextEvent}
  BY DEF Deliver
<1>4. client \in ClientType /\ NextEvent.id \in Nat
  BY NextEventType DEF DiskInv, Types, TypeOK, ClientType
<1>5. CASE r.on
  <2>1. client'[c] = [r EXCEPT !.seen = r.seen \cup {NextEvent}, !.last = NextEvent.id]
    BY <1>5 DEF Deliver
  <2>2. /\ client'[c].on = r.on /\ client'[c].since = r.since
        /\ client'[c].seen = r.seen \cup {NextEvent} /\ client'[c].last = NextEvent.id
    BY <1>4, <2>1 DEF ClientType
  <2>3. c \notin ByQuery => \A e \in issued' : Has(client'[c], e)
    BY <1>2, <1>3, <1>5, <2>2 DEF StreamOf, Has
  <2>4. QED
    BY <1>3, <2>2, <2>3 DEF StreamOf
<1>6. CASE ~r.on
  <2>1. client'[c] = r
    BY <1>6 DEF Deliver
  <2>2. r.last # None => ~(NextEvent.id <= r.last)
    BY LastIsBehind
  <2>3. QED
    BY <1>2, <1>3, <1>6, <2>1, <2>2 DEF StreamOf
<1>7. QED
  BY <1>5, <1>6

LEMMA StreamsDown ==
  ASSUME DiskInv, Undamaged, Down,
         issued' = issued \/ (up /\ issued' = issued \cup {NextEvent})
  PROVE  Readers'
<1>1. SUFFICES ASSUME NEW c \in Client PROVE StreamOf(c, client'[c], issued')
  BY DEF Readers, StreamOf
<1> DEFINE r == client[c]
<1>2. StreamOf(c, r, issued)
  BY StreamsAre DEF Undamaged
<1>3. client \in ClientType
  BY DEF DiskInv, Types, TypeOK, ClientType
<1>4. client'[c] = [r EXCEPT !.on = FALSE]
  BY DEF Down, Disconnected
<1>5. /\ client'[c].on = FALSE /\ client'[c].since = r.since
      /\ client'[c].seen = r.seen /\ client'[c].last = r.last
  BY <1>3, <1>4 DEF ClientType
<1>6. \A e : Has(client'[c], e) <=> Has(r, e)
  BY <1>5 DEF Has
<1>7. CASE issued' = issued
  BY <1>2, <1>5, <1>6, <1>7 DEF StreamOf
<1>8. CASE up /\ issued' = issued \cup {NextEvent}
  <2>1. r.last # None => ~(NextEvent.id <= r.last)
    BY <1>8, LastIsBehind
  <2>2. QED
    BY <1>2, <1>5, <1>6, <1>8, <2>1 DEF StreamOf
<1>9. QED
  BY <1>7, <1>8

\* One client's stream changes, and still owes it nothing.
LEMMA StreamsChanged ==
  ASSUME DiskInv, Undamaged, NEW c \in Client, NEW r, StreamOf(c, r, issued),
         client' = [client EXCEPT ![c] = r], issued' = issued
  PROVE  Readers'
<1>1. client \in ClientType
  BY DEF DiskInv, Types, TypeOK, ClientType
<1>2. \A d \in Client : StreamOf(d, client'[d], issued')
  BY <1>1, StreamsAre DEF Undamaged, ClientType
<1>3. QED
  BY <1>2 DEF Readers, StreamOf

\* What a client misses beyond its last id is on disk, unless the oldest id
\* there is beyond it too.
LEMMA MissedIsRetained ==
  ASSUME DiskInv, Undamaged, NEW last \in Nat, ~FellOff(last),
         NEW e \in issued, e.id > last
  PROVE  e \in Retained
<1>1. Retained = On(files) /\ Whole(files, issued) /\ InOrder(issued)
  BY RetainedIsOn DEF Undamaged
<1>2. Retained # {}
  BY <1>1 DEF Whole, Latest
<1>3. PICK x \in Retained : ~(last < x.id)
  BY <1>2 DEF FellOff
<1>4. x \in issued
  BY <1>1 DEF Whole
<1>5. /\ e.no \in Nat /\ x.no \in Nat /\ e.id \in Nat /\ x.id \in Nat
  BY <1>4, KnownTypes
<1>6. ~(e.no < x.no) /\ e.no # x.no
  BY <1>1, <1>3, <1>4, <1>5 DEF InOrder
<1>7. e.no > x.no
  BY <1>5, <1>6
<1>8. QED
  BY <1>1, <1>7 DEF Whole, Suffix

LEMMA StreamsReplayed ==
  ASSUME DiskInv, Undamaged, NEW c \in Client, ConnectReplay(c)
  PROVE  Readers'
<1> DEFINE r == client[c]
<1>1. PICK last \in {r.last} \cup {e.id : e \in Missed(r.last)} :
        client' = [client EXCEPT ![c].on = TRUE, ![c].last = last,
                                 ![c].seen = @ \cup Missed(r.last)]
  BY DEF ConnectReplay
<1>2. c \notin ByQuery /\ r.last # None /\ ~FellOff(r.last) /\ issued' = issued
  BY DEF ConnectReplay, Asks
<1>3. client \in ClientType /\ r.last \in Nat
  BY <1>2, KnownTypes DEF DiskInv, Types, TypeOK, ClientType
<1> DEFINE s == [r EXCEPT !.on = TRUE, !.last = last, !.seen = r.seen \cup Missed(r.last)]
<1>4. client' = [client EXCEPT ![c] = s]
  BY <1>1
<1>5. /\ s.on = TRUE /\ s.last = last /\ s.since = r.since
      /\ s.seen = r.seen \cup Missed(r.last)
  BY <1>3 DEF ClientType
<1>6. StreamOf(c, r, issued)
  BY StreamsAre DEF Undamaged
<1>7. \A e \in issued : Has(s, e)
  <2>1. SUFFICES ASSUME NEW e \in issued, e.no >= r.since PROVE e \in s.seen
    BY <1>5 DEF Has
  <2>2. CASE e.id <= r.last
    BY <1>2, <1>5, <1>6, <2>1, <2>2 DEF StreamOf, Has
  <2>3. CASE e.id > r.last
    <3>1. e \in Retained
      BY <1>2, <1>3, <2>3, MissedIsRetained
    <3>2. QED
      BY <1>5, <2>3, <3>1 DEF Missed
  <2>4. QED
    BY <1>3, <2>2, <2>3, KnownTypes
<1>8. \E e \in issued : e.id = last
  <2>1. CASE last = r.last
    BY <1>2, <1>6, <2>1 DEF StreamOf
  <2>2. CASE last # r.last
    <3>1. PICK e \in Missed(r.last) : last = e.id
      BY <1>1, <2>2
    <3>2. e \in issued
      BY <3>1, RetainedIsOn DEF Missed, Undamaged, Whole
    <3>3. QED
      BY <3>1, <3>2
  <2>3. QED
    BY <2>1, <2>2
<1>9. StreamOf(c, s, issued)
  BY <1>5, <1>7, <1>8 DEF StreamOf
<1>10. QED
  BY <1>2, <1>4, <1>9, StreamsChanged

LEMMA LogInvInit == Init => LogInv
<1> SUFFICES ASSUME Init PROVE LogInv
  OBVIOUS
<1>1. DiskInv
  BY DiskInvInit
<1>2. \A k \in 0..2 : files[k].events = {} /\ files[k].junk = 0
  BY DEF Init, NoFile
<1>3. On(files) = {}
  BY <1>2, OnThree
<1>4. issued = {} /\ ~torn /\ \A c \in Client : client[c].on = FALSE /\ client[c].last = None
  BY DEF Init
<1>5. Whole(files, issued)
  BY <1>2, <1>3, <1>4 DEF Whole, Older, Latest, Suffix
<1>6. InOrder(issued) /\ Numbered /\ Readers
  BY <1>4 DEF InOrder, Numbered, Readers
<1>7. QED
  BY <1>1, <1>4, <1>5, <1>6 DEF LogInv, Undamaged

LEMMA UndamagedStep == DiskInv /\ Undamaged /\ [Next]_vars /\ ~damaged' => Undamaged'
<1> SUFFICES ASSUME DiskInv, Undamaged, [Next]_vars, ~damaged' PROVE Undamaged'
  OBVIOUS
<1>0. /\ ~torn /\ Whole(files, issued) /\ InOrder(issued) /\ Numbered /\ Readers
  BY DEF Undamaged
<1>T. ASSUME ~torn', Whole(files', issued'), InOrder(issued'), Numbered', Readers'
      PROVE  Undamaged'
  BY <1>T DEF Undamaged, Whole, Older, Latest, Suffix, On, InOrder
<1>1. CASE Emit
  <2>1. PICK kept \in Rotations : files' = WithLine(kept, NextEvent)
    BY <1>1 DEF Emit
  <2>2. /\ up /\ cursor' = cursor + 1 /\ Deliver(NextEvent) /\ torn' = FALSE
        /\ issued' = issued \cup {NextEvent}
    BY <1>1 DEF Emit, MayEmit, Deliver
  <2>3. Whole(files', issued')
    BY <2>1, <2>2, AppendedWhole
  <2>4. InOrder(issued')
    BY <2>2, AppendedInOrder
  <2>5. Numbered'
    BY <2>2, AppendedNumbered
  <2>6. Readers'
    BY <2>2, StreamsDelivered
  <2>7. QED
    BY <1>T, <2>2, <2>3, <2>4, <2>5, <2>6
<1>2. CASE EmitUnwritten
  BY <1>2 DEF EmitUnwritten
<1>3. CASE Crash
  <2>1. Down /\ UNCHANGED <<files, torn, sidecar, issued, damaged>>
    BY <1>3 DEF Crash, disk
  <2>2. Numbered'
    BY <1>0, <2>1 DEF Numbered, Emissions, Down
  <2>3. Readers'
    BY <2>1, StreamsDown
  <2>4. QED
    BY <1>0, <1>T, <2>1, <2>2, <2>3
<1>4. CASE CrashInRotation
  <2>1. /\ files' \in {MoveOlder(files), MoveTail(MoveOlder(files))}
        /\ torn' = (torn /\ files'[0] # NoFile)
        /\ Down /\ UNCHANGED <<sidecar, issued, damaged>>
    BY <1>4 DEF CrashInRotation
  <2>2. FilesOK(files) /\ issued \in SUBSET Event
    BY KnownTypes
  <2>3. /\ FilesOK(MoveOlder(files)) /\ MoveOlder(files)[1] = NoFile
        /\ Whole(MoveOlder(files), issued)
    BY <1>0, <2>2, MoveOlderIs, MoveOlderWhole
  <2>4. Whole(MoveTail(MoveOlder(files)), issued)
    BY <2>2, <2>3, MoveTailWhole
  <2>5. Whole(files', issued')
    BY <2>1, <2>3, <2>4
  <2>6. Numbered'
    BY <1>0, <2>1 DEF Numbered, Emissions, Down
  <2>7. Readers'
    BY <2>1, StreamsDown
  <2>8. ~torn' /\ InOrder(issued')
    BY <1>0, <2>1
  <2>9. QED
    BY <1>T, <2>5, <2>6, <2>7, <2>8
<1>5. CASE CrashInAppend
  BY <1>5 DEF CrashInAppend
<1>6. CASE CrashBeforeDelivery
  <2>1. PICK kept \in Rotations : files' = WithLine(kept, NextEvent)
    BY <1>6 DEF CrashBeforeDelivery
  <2>2. /\ up /\ torn' = FALSE /\ Down /\ issued' = issued \cup {NextEvent}
    BY <1>6 DEF CrashBeforeDelivery, MayEmit
  <2>3. Whole(files', issued')
    BY <2>1, <2>2, AppendedWhole
  <2>4. InOrder(issued')
    BY <2>2, AppendedInOrder
  <2>5. Numbered'
    BY <2>2, AppendedNumbered DEF Down
  <2>6. Readers'
    BY <2>2, StreamsDown
  <2>7. QED
    BY <1>T, <2>2, <2>3, <2>4, <2>5, <2>6
<1>7. CASE Restart
  <2>1. PICK n \in 0..MaxIds : Restores(n) /\ cursor' = n
    BY <1>7 DEF Restart
  <2>2. UNCHANGED <<files, torn, sidecar, client, issued, damaged>>
    BY <1>7 DEF Restart, disk
  <2>3. ASSUME NEW e \in issued PROVE e.id < cursor'
    <3>1. PICK x \in On(files) : e.no <= x.no
      BY <1>0 DEF Whole, Latest
    <3>2. x \in issued /\ x.id < n
      BY <1>0, <2>1, <3>1, RetainedIsOn DEF Whole, Restores
    <3>3. e.no < x.no \/ e.no = x.no
      BY <3>1, <3>2, KnownTypes
    <3>4. e.id <= x.id
      BY <1>0, <3>2, <3>3, KnownTypes DEF InOrder
    <3>5. n \in Nat /\ e.id \in Nat /\ x.id \in Nat
      BY <2>1, <3>2, CapPositive, KnownTypes
    <3>6. QED
      BY <2>1, <3>2, <3>4, <3>5
  <2>4. Numbered'
    BY <1>0, <2>2, <2>3 DEF Numbered, Emissions
  <2>5. Readers'
    BY <1>0, <2>2, StreamsAre DEF Readers, StreamOf, Has
  <2>6. QED
    BY <1>0, <1>T, <2>2, <2>4, <2>5
<1>8. ASSUME UNCHANGED <<disk, memory, issued, damaged>>, Readers'
      PROVE  Undamaged'
  <2>1. UNCHANGED <<files, torn, up, cursor, issued>>
    BY <1>8 DEF disk, memory
  <2>2. Numbered'
    BY <1>0, <2>1 DEF Numbered, Emissions
  <2>3. QED
    BY <1>0, <1>8, <1>T, <2>1, <2>2
<1>9. ASSUME NEW c \in Client,
             ConnectLive(c) \/ ConnectGap(c) \/ ConnectReplay(c) \/ Disconnect(c)
      PROVE  Undamaged'
  <2> DEFINE r == client[c]
  <2>1. StreamOf(c, r, issued) /\ client \in ClientType
    BY <1>0, StreamsAre DEF DiskInv, Types, TypeOK, ClientType
  <2>2. \A e \in issued : ~(e.no >= Emissions)
    BY <1>0, KnownTypes DEF Numbered
  <2>3. CASE ConnectLive(c)
    <3> DEFINE s == [r EXCEPT !.on = TRUE,
                              !.since = IF r.last = None THEN Emissions ELSE r.since]
    <3>1. client' = [client EXCEPT ![c] = s] /\ issued' = issued
      BY <2>3 DEF ConnectLive
    <3>2. /\ s.last = r.last /\ s.seen = r.seen
          /\ s.since = IF r.last = None THEN Emissions ELSE r.since
      BY <2>1 DEF ClientType
    <3>3. c \in ByQuery \/ r.last = None
      BY <2>3 DEF ConnectLive, Asks
    <3>4. StreamOf(c, s, issued)
      BY <2>1, <2>2, <3>2, <3>3 DEF StreamOf, Has
    <3>5. Readers'
      BY <3>1, <3>4, StreamsChanged
    <3>6. QED
      BY <1>8, <2>3, <3>5 DEF ConnectLive
  <2>4. CASE ConnectGap(c)
    <3> DEFINE s == [r EXCEPT !.on = TRUE, !.since = Emissions]
    <3>1. client' = [client EXCEPT ![c] = s] /\ issued' = issued
      BY <2>4 DEF ConnectGap
    <3>2. s.last = r.last /\ s.seen = r.seen /\ s.since = Emissions
      BY <2>1 DEF ClientType
    <3>3. StreamOf(c, s, issued)
      BY <2>1, <2>2, <3>2 DEF StreamOf, Has
    <3>4. Readers'
      BY <3>1, <3>3, StreamsChanged
    <3>5. QED
      BY <1>8, <2>4, <3>4 DEF ConnectGap
  <2>5. CASE ConnectReplay(c)
    <3>1. Readers'
      BY <2>5, StreamsReplayed
    <3>2. QED
      BY <1>8, <2>5, <3>1 DEF ConnectReplay
  <2>6. CASE Disconnect(c)
    <3> DEFINE s == [r EXCEPT !.on = FALSE]
    <3>1. client' = [client EXCEPT ![c] = s] /\ issued' = issued /\ r.on
      BY <2>6 DEF Disconnect
    <3>2. s.last = r.last /\ s.seen = r.seen /\ s.since = r.since /\ s.on = FALSE
      BY <2>1 DEF ClientType
    <3>3. StreamOf(c, s, issued)
      BY <2>1, <3>2 DEF StreamOf, Has
    <3>4. Readers'
      BY <3>1, <3>3, StreamsChanged
    <3>5. QED
      BY <1>8, <2>6, <3>4 DEF Disconnect
  <2>7. QED
    BY <1>9, <2>3, <2>4, <2>5, <2>6
<1>10. CASE UNCHANGED vars
  <2>1. Readers'
    BY <1>0, <1>10, StreamsAre DEF vars, Readers, StreamOf, Has
  <2>2. QED
    BY <1>8, <1>10, <2>1 DEF vars, disk, memory
<1>11. QED
  BY <1>1, <1>2, <1>3, <1>4, <1>5, <1>6, <1>7, <1>9, <1>10 DEF Next

\* A line once lost stays lost.
LEMMA DamageStays == DiskInv /\ [Next]_vars /\ ~damaged' => ~damaged
<1> SUFFICES ASSUME DiskInv, [Next]_vars, ~damaged' PROVE ~damaged
  OBVIOUS
<1>1. CASE Emit
  BY <1>1 DEF Emit
<1>2. CASE EmitUnwritten
  BY <1>2 DEF EmitUnwritten
<1>3. CASE Crash
  BY <1>3 DEF Crash
<1>4. CASE CrashInRotation
  BY <1>4 DEF CrashInRotation
<1>5. CASE CrashInAppend
  BY <1>5 DEF CrashInAppend
<1>6. CASE CrashBeforeDelivery
  BY <1>6 DEF CrashBeforeDelivery
<1>7. CASE Restart
  BY <1>7 DEF Restart
<1>8. CASE \E c \in Client : ConnectLive(c) \/ ConnectGap(c) \/ ConnectReplay(c) \/ Disconnect(c)
  BY <1>8 DEF ConnectLive, ConnectGap, ConnectReplay, Disconnect
<1>9. CASE UNCHANGED vars
  BY <1>9 DEF vars
<1>10. QED
  BY <1>1, <1>2, <1>3, <1>4, <1>5, <1>6, <1>7, <1>8, <1>9 DEF Next

LEMMA LogInvStep == LogInv /\ [Next]_vars => LogInv'
BY DiskInvStep, UndamagedStep, DamageStays DEF LogInv

LEMMA LogInvariant == Spec => []LogInv
BY LogInvInit, LogInvStep, PTL DEF Spec

\* As long as no line was lost, no id is ever given to two events, across
\* restarts and rotations.
THEOREM CursorNeverResets == Spec => []IdsAreUnique
<1>1. LogInv => IdsAreUnique
  <2> SUFFICES ASSUME LogInv, ~damaged, NEW e \in issued, NEW f \in issued, e.id = f.id
              PROVE  e = f
    BY DEF IdsAreUnique
  <2>1. InOrder(issued) /\ DiskInv
    BY DEF LogInv, Undamaged
  <2>2. e.no \in Nat /\ f.no \in Nat /\ e.id \in Nat
    BY <2>1, KnownTypes
  <2>3. ~(e.no < f.no) /\ ~(f.no < e.no)
    BY <2>1, <2>2 DEF InOrder
  <2>4. QED
    BY <2>1, <2>2, <2>3 DEF InOrder
<1>2. QED
  BY <1>1, LogInvariant, PTL

\* As long as no line was lost, the log holds the latest events and drops the
\* oldest.
THEOREM RetentionDropsTheOldest == Spec => []RetainsASuffix
<1>1. LogInv => RetainsASuffix
  BY RetainedIsOn DEF LogInv, Undamaged, Whole, Suffix, RetainsASuffix
<1>2. QED
  BY <1>1, LogInvariant, PTL

\* As long as no line was lost, a stream resumed by Last-Event-ID is complete
\* since its first connection or its last bridge.gap.
THEOREM ResumeIsHonest == Spec => []HonestResume
<1>1. LogInv => HonestResume
  BY DEF LogInv, Undamaged, Readers, Has, HonestResume
<1>2. QED
  BY <1>1, LogInvariant, PTL

-----------------------------------------------------------------------------
(* Feeds: ids in order.  Induction comes from counting.                    *)

LEMMA Climb ==
  ASSUME NEW n \in Nat, NEW P, 0 \in P, \A m \in 0 .. n - 1 : m \in P => m + 1 \in P
  PROVE  n \in P
<1> DEFINE D == {i \in 1 .. n : 0 .. i \subseteq P}
           k == Cardinality(D)
<1>1. \A i : i \in D <=> i \in 1 .. n /\ 0 .. i \subseteq P
  OBVIOUS
<1>2. IsFiniteSet(D) /\ k \in Nat /\ k <= n
  <2>1. D \subseteq 1 .. n /\ IsFiniteSet(1 .. n) /\ Cardinality(1 .. n) = n
    BY FS_Interval
  <2> QED
    BY <2>1, FS_Subset, FS_CardinalityType
<1> HIDE DEF D
<1>3. ASSUME NEW i \in D PROVE i <= k
  <2>1. i \in 1 .. n /\ 0 .. i \subseteq P
    BY <1>1
  <2>2. Cardinality(1 .. i) = i
    BY <2>1, FS_Interval
  <2>3. \A j \in 1 .. i : j \in 1 .. n /\ 0 .. j \subseteq 0 .. i
    BY <2>1
  <2>4. 1 .. i \subseteq D
    BY <1>1, <2>1, <2>3
  <2>5. Cardinality(1 .. i) <= Cardinality(D)
    BY <1>2, <2>4, FS_Subset
  <2> QED
    BY <2>2, <2>5
<1>4. D = 1 .. k
  <2>1. \A i \in D : i \in 1 .. k
    BY <1>1, <1>2, <1>3
  <2>2. IsFiniteSet(1 .. k) /\ Cardinality(1 .. k) = k
    BY <1>2, FS_Interval
  <2>3. D \subseteq 1 .. k
    BY <2>1
  <2>4. Cardinality(D) = Cardinality(1 .. k) => D = 1 .. k
    BY <2>2, <2>3, FS_Subset
  <2> QED
    BY <2>2, <2>4
<1> HIDE DEF k
<1>5. 0 .. k \subseteq P
  <2>1. CASE k = 0
    <3>1. 0 .. k = {0}
      BY <2>1
    <3> QED
      BY <3>1
  <2>2. CASE k # 0
    <3>1. k \in D
      BY <1>2, <1>4, <2>2
    <3> QED
      BY <1>1, <3>1
  <2> QED
    BY <2>1, <2>2
<1>6. CASE k = n
  BY <1>5, <1>6
<1>7. CASE k < n
  <2>1. k \in P /\ k + 1 \in P
    BY <1>2, <1>5, <1>7
  <2>2. 0 .. k + 1 \subseteq P
    BY <1>2, <1>5, <2>1
  <2>3. k + 1 \in 1 .. n /\ k + 1 \notin 1 .. k
    BY <1>2, <1>7
  <2> QED
    BY <1>1, <1>4, <2>2, <2>3
<1> QED
  BY <1>2, <1>6, <1>7

\* Counting is the same in the module of the streams as here.
LEMMA Counting == ASSUME NEW S PROVE Streams!Cardinality(S) = Cardinality(S)
BY DEF Streams!Cardinality, Cardinality, Streams!IsFiniteSet, IsFiniteSet

Ordered(ids, q) ==
  q \in [1 .. Cardinality(ids) -> ids] /\ Streams!Range(q) = ids /\ Streams!Rises(q)

LEMMA LastIsAppended ==
  ASSUME NEW n \in Nat, NEW ids \in SUBSET (1 .. n), IsFiniteSet(ids), NEW q, Ordered(ids, q)
  PROVE  \E r : Ordered(ids \cup {n + 1}, r)
<1> DEFINE c == Cardinality(ids)
           more == ids \cup {n + 1}
           r == [k \in 1 .. c + 1 |-> IF k = c + 1 THEN n + 1 ELSE q[k]]
<1>1. c \in Nat /\ Cardinality(more) = c + 1
  <2>1. n + 1 \notin ids
    OBVIOUS
  <2> QED
    BY <2>1, FS_AddElement, FS_CardinalityType
<1>2. q \in [1 .. c -> ids] /\ Streams!Range(q) = ids /\ Streams!Rises(q)
  BY DEF Ordered
<1> HIDE DEF c
<1>3. r \in [1 .. c + 1 -> more] /\ r[c + 1] = n + 1 /\ \A k \in 1 .. c : r[k] = q[k]
  BY <1>1, <1>2
<1> HIDE DEF r
<1>4. Streams!Range(r) = more
  <2>1. \A i \in ids : \E k \in 1 .. c : q[k] = i
    BY <1>2 DEF Streams!Range
  <2>2. more \subseteq Streams!Range(r)
    <3>1. DOMAIN r = 1 .. c + 1 /\ c + 1 \in DOMAIN r
      BY <1>1, <1>3
    <3>2. \A i \in more : \E k \in 1 .. c + 1 : r[k] = i
      BY <1>1, <1>3, <2>1
    <3> QED
      BY <3>1, <3>2 DEF Streams!Range
  <2>3. Streams!Range(r) \subseteq more
    BY <1>3 DEF Streams!Range
  <2> QED
    BY <2>2, <2>3
<1>5. Streams!Rises(r)
  <2> SUFFICES ASSUME NEW j \in 1 .. c + 1, NEW k \in 1 .. c + 1, j < k PROVE r[j] < r[k]
    BY <1>3 DEF Streams!Rises
  <2>1. j \in 1 .. c /\ r[j] = q[j] /\ q[j] \in 1 .. n
    <3>1. j \in 1 .. c
      BY <1>1
    <3>2. q[j] \in ids /\ r[j] = q[j]
      BY <1>2, <1>3, <3>1
    <3> QED
      BY <3>1, <3>2
  <2>2. CASE k = c + 1
    BY <1>3, <2>1, <2>2
  <2>3. CASE k \in 1 .. c
    <3>1. q[j] < q[k]
      BY <1>2, <2>1, <2>3 DEF Streams!Rises
    <3> QED
      BY <1>3, <2>1, <2>3, <3>1
  <2> QED
    BY <1>1, <2>2, <2>3
<1>6. Ordered(more, r)
  BY <1>1, <1>3, <1>4, <1>5 DEF Ordered
<1> QED
  BY <1>6

LEMMA IdsHaveAnOrder ==
  ASSUME NEW n \in Nat, NEW ids \in SUBSET (1 .. n)
  PROVE  Ordered(ids, Streams!InOrder(ids))
<1> DEFINE P == {m \in Nat : \A set \in SUBSET (1 .. m) : \E q : Ordered(set, q)}
<1>1. 0 \in P
  <2>1. \A set \in SUBSET (1 .. 0) : set = {}
    OBVIOUS
  <2>2. Ordered({}, <<>>)
    BY FS_EmptySet DEF Ordered, Streams!Range, Streams!Rises
  <2> QED
    BY <2>1, <2>2
<1>2. ASSUME NEW m \in Nat, m \in P PROVE m + 1 \in P
  <2> SUFFICES ASSUME NEW set \in SUBSET (1 .. m + 1) PROVE \E q : Ordered(set, q)
    OBVIOUS
  <2>1. CASE m + 1 \notin set
    <3>1. set \in SUBSET (1 .. m)
      BY <2>1
    <3> QED
      BY <1>2, <3>1
  <2>2. CASE m + 1 \in set
    <3> DEFINE old == set \ {m + 1}
    <3>1. old \in SUBSET (1 .. m) /\ set = old \cup {m + 1}
      BY <2>2
    <3> HIDE DEF old
    <3>2. PICK q : Ordered(old, q)
      BY <1>2, <3>1
    <3>3. IsFiniteSet(1 .. m)
      BY FS_Interval
    <3>4. IsFiniteSet(old)
      BY <3>1, <3>3, FS_Subset
    <3> QED
      BY <3>1, <3>2, <3>4, LastIsAppended
  <2> QED
    BY <2>1, <2>2
<1> HIDE DEF P
<1>3. n \in P
  BY <1>1, <1>2, Climb
<1>4. PICK q : Ordered(ids, q)
  BY <1>3 DEF P
<1>5. \E r \in [1 .. Streams!Cardinality(ids) -> ids] : Streams!Range(r) = ids /\ Streams!Rises(r)
  BY <1>4, Counting DEF Ordered
<1>6. /\ Streams!InOrder(ids) \in [1 .. Streams!Cardinality(ids) -> ids]
      /\ Streams!Range(Streams!InOrder(ids)) = ids /\ Streams!Rises(Streams!InOrder(ids))
  BY <1>5 DEF Streams!InOrder
<1> QED
  BY <1>6, Counting DEF Ordered
-----------------------------------------------------------------------------
(* Feeds: what a connection has at each phase.                             *)

Gone == [phase : {"closed", "ended"}]
Asked == [phase : {"asked"}, of : Session \cup Project, resume : Nat, there : SUBSET Session]
Listed == [phase : {"read"}, of : Session \cup Project, resume : Nat, there : SUBSET Session,
           ids : SUBSET Session]
Opened == [phase : {"open"}, of : Session \cup Project, resume : Nat, there : SUBSET Session,
           ids : SUBSET Session, from : Nat, got : Seq(Nat)]
Connection == Gone \cup Asked \cup Listed \cup Opened

FeedTypes ==
  /\ stored \in Seq(Session) /\ log \in Seq(Session)
  /\ \A j, k \in DOMAIN stored : stored[j] = stored[k] => j = k
  /\ lastId \in [Reader -> 0 .. Len(log)]
  /\ stream \in [Reader -> Connection]

OfProject(there, p) == {s \in there : MCProjectOf[s] = p}

\* What a route makes of the store: its own session, or sessions of its project,
\* all of those that the client could know of if the list has room.
Chosen(c, there) ==
  /\ \A s \in c.ids : c.of \in {s, MCProjectOf[s]}
  /\ c.of \in Session => c.of \in c.ids
  /\ \A s \in c.there :
       c.of = MCProjectOf[s] /\ Cardinality(OfProject(there, c.of)) <= ListLimit => s \in c.ids

\* What an open stream has been sent: every event of its sessions from where it began.
Due(c, events) == {i \in DOMAIN events : i > c.from /\ events[i] \in c.ids}
Sent(c, events) ==
  c.from <= Len(events) /\ Streams!Range(c.got) = Due(c, events) /\ Streams!Rises(c.got)

StreamInv(c, there, events) ==
  /\ c.phase \in {"asked", "read", "open"} => c.there \subseteq there /\ c.resume <= Len(events)
  /\ c.phase \in {"read", "open"} => Chosen(c, there)
  /\ c.phase = "open" => Sent(c, events)

FeedInv ==
  /\ FeedTypes
  /\ \A r \in Reader : StreamInv(stream[r], Streams!Range(stored), log)

LEMMA PhasesTell ==
  ASSUME NEW c \in Connection
  PROVE  /\ c.phase \in {"closed", "ended", "asked", "read", "open"}
         /\ c.phase = "asked" => c \in Asked
         /\ c.phase = "read" => c \in Listed
         /\ c.phase = "open" => c \in Opened
BY DEF Connection, Gone, Asked, Listed, Opened

LEMMA InputsOfFeeds ==
  /\ MCProjectOf \in [Session -> Project] /\ MCWantOf \in [Reader -> Session \cup Project]
  /\ Session \cap Project = {} /\ ListLimit \in Nat
BY InputsKnown DEF Streams!InputsKnown

\* The stored sessions are finitely many.
LEMMA StoredAreFinite ==
  ASSUME NEW q \in Seq(Session)
  PROVE  /\ IsFiniteSet(Streams!Range(q)) /\ Streams!Range(q) \subseteq Session
         /\ \A p : IsFiniteSet(OfProject(Streams!Range(q), p))
                   /\ Cardinality(OfProject(Streams!Range(q), p)) \in Nat
<1>1. DOMAIN q = 1 .. Len(q) /\ Len(q) \in Nat /\ IsFiniteSet(1 .. Len(q))
  BY FS_Interval
<1>2. q \in Surjection(1 .. Len(q), Streams!Range(q)) /\ Streams!Range(q) \subseteq Session
  BY <1>1 DEF Surjection, Streams!Range
<1>3. IsFiniteSet(Streams!Range(q))
  BY <1>1, <1>2, FS_Surjection
<1>4. \A p : OfProject(Streams!Range(q), p) \subseteq Streams!Range(q)
  BY DEF OfProject
<1> QED
  BY <1>2, <1>3, <1>4, FS_Subset, FS_CardinalityType

\* A route's choice stands while sessions are added.
LEMMA ChoiceStands ==
  ASSUME NEW c, NEW few, NEW many, few \subseteq many, Chosen(c, few), c.there \subseteq few,
         \A p : IsFiniteSet(OfProject(many, p)) /\ Cardinality(OfProject(many, p)) \in Nat
  PROVE  Chosen(c, many)
<1>1. OfProject(few, c.of) \subseteq OfProject(many, c.of)
  BY DEF OfProject
<1>2. /\ Cardinality(OfProject(few, c.of)) <= Cardinality(OfProject(many, c.of))
      /\ Cardinality(OfProject(few, c.of)) \in Nat /\ Cardinality(OfProject(many, c.of)) \in Nat
  BY <1>1, FS_Subset, FS_CardinalityType
<1>3. ListLimit \in Nat
  BY InputsOfFeeds
<1> QED
  BY <1>2, <1>3 DEF Chosen

-----------------------------------------------------------------------------
(* Feeds: the steps.                                                       *)

LEMMA CreateKeepsFeeds ==
  ASSUME FeedInv, NEW s \in Session, Streams!Create(s) PROVE FeedInv'
<1>1. /\ s \notin Streams!Range(stored) /\ stored' = Append(stored, s)
      /\ log' = log /\ stream' = stream /\ lastId' = lastId
  BY DEF Streams!Create
<1>2. /\ stored \in Seq(Session) /\ Len(stored) \in Nat /\ DOMAIN stored = 1 .. Len(stored)
      /\ stored' \in Seq(Session) /\ DOMAIN stored' = 1 .. Len(stored) + 1
      /\ stored'[Len(stored) + 1] = s /\ \A k \in 1 .. Len(stored) : stored'[k] = stored[k]
  BY <1>1 DEF FeedInv, FeedTypes
<1>3. \A k \in 1 .. Len(stored) : stored[k] # s
  BY <1>1, <1>2 DEF Streams!Range
<1>4. \A j, k \in DOMAIN stored' : stored'[j] = stored'[k] => j = k
  <2> SUFFICES ASSUME NEW j \in 1 .. Len(stored) + 1, NEW k \in 1 .. Len(stored) + 1,
                      stored'[j] = stored'[k]
               PROVE  j = k
    BY <1>2
  <2>1. CASE j \in 1 .. Len(stored) /\ k \in 1 .. Len(stored)
    BY <1>2, <2>1 DEF FeedInv, FeedTypes
  <2>2. CASE j = Len(stored) + 1 \/ k = Len(stored) + 1
    BY <1>2, <1>3, <2>2
  <2> QED
    BY <1>2, <2>1, <2>2
<1>5. FeedTypes'
  BY <1>1, <1>2, <1>4 DEF FeedInv, FeedTypes
<1>6. Streams!Range(stored) \subseteq Streams!Range(stored')
  BY <1>2 DEF Streams!Range
<1>7. \A p : /\ IsFiniteSet(OfProject(Streams!Range(stored'), p))
             /\ Cardinality(OfProject(Streams!Range(stored'), p)) \in Nat
  BY <1>2, StoredAreFinite
<1>8. ASSUME NEW r \in Reader
      PROVE  StreamInv(stream'[r], Streams!Range(stored'), log')
  <2>1. StreamInv(stream[r], Streams!Range(stored), log)
    BY DEF FeedInv
  <2>2. stream[r].phase \in {"read", "open"} => Chosen(stream[r], Streams!Range(stored'))
    BY <1>6, <1>7, <2>1, ChoiceStands DEF StreamInv
  <2> QED
    BY <1>1, <1>6, <2>1, <2>2 DEF StreamInv
<1> QED
  BY <1>5, <1>8 DEF FeedInv

Grown(c, got) == [c EXCEPT !.got = got]

LEMMA GrownIs ==
  ASSUME NEW c \in Opened, NEW got \in Seq(Nat)
  PROVE  /\ Grown(c, got) \in Opened /\ Grown(c, got).got = got
         /\ Grown(c, got).of = c.of /\ Grown(c, got).resume = c.resume
         /\ Grown(c, got).there = c.there /\ Grown(c, got).ids = c.ids
         /\ Grown(c, got).from = c.from
BY DEF Grown, Opened

\* A stream that hears a new event has it after all others.
LEMMA NewestIsSent ==
  ASSUME NEW c \in Opened, NEW d \in Opened, NEW l \in Seq(Session), NEW s \in Session,
         Sent(c, l), s \in c.ids, d.got = Append(c.got, Len(l) + 1),
         d.ids = c.ids, d.from = c.from
  PROVE  Sent(d, Append(l, s))
<1> DEFINE n == Len(l) + 1
           m == Len(c.got)
           more == Append(l, s)
<1>1. /\ Len(l) \in Nat /\ DOMAIN l = 1 .. Len(l) /\ n \in Nat /\ n = Len(l) + 1
      /\ Len(more) = n /\ DOMAIN more = 1 .. n
      /\ more[n] = s /\ \A i \in 1 .. Len(l) : more[i] = l[i]
  OBVIOUS
<1>2. c.got \in Seq(Nat) /\ c.from \in Nat /\ d.from = c.from /\ d.ids = c.ids
  BY DEF Opened
<1>3. /\ DOMAIN c.got = 1 .. m /\ m \in Nat /\ DOMAIN d.got = 1 .. m + 1
      /\ d.got[m + 1] = n /\ \A i \in 1 .. m : d.got[i] = c.got[i]
  BY <1>1, <1>2
<1> HIDE DEF n, m, more
<1>4. c.from <= Len(l) /\ Streams!Range(c.got) = Due(c, l) /\ Streams!Rises(c.got)
  BY DEF Sent
<1>5. \A i \in 1 .. m : c.got[i] \in Due(c, l) /\ c.got[i] \in 1 .. Len(l)
  BY <1>1, <1>3, <1>4 DEF Streams!Range, Due
<1>6. Streams!Rises(d.got)
  <2> SUFFICES ASSUME NEW i \in 1 .. m + 1, NEW j \in 1 .. m + 1, i < j PROVE d.got[i] < d.got[j]
    BY <1>3 DEF Streams!Rises
  <2>1. i \in 1 .. m
    BY <1>3
  <2>2. CASE j = m + 1
    BY <1>1, <1>3, <1>5, <2>1, <2>2
  <2>3. CASE j \in 1 .. m
    <3>1. c.got[i] < c.got[j]
      BY <1>3, <1>4, <2>1, <2>3 DEF Streams!Rises
    <3> QED
      BY <1>3, <2>1, <2>3, <3>1
  <2> QED
    BY <1>3, <2>2, <2>3
<1>7. Streams!Range(d.got) = Due(c, l) \cup {n}
  <2>1. \A i \in Due(c, l) : \E k \in 1 .. m : c.got[k] = i
    BY <1>3, <1>4 DEF Streams!Range
  <2>2. \A i \in Due(c, l) \cup {n} : \E k \in 1 .. m + 1 : d.got[k] = i
    BY <1>3, <2>1
  <2>3. \A k \in 1 .. m + 1 : d.got[k] \in Due(c, l) \cup {n}
    BY <1>3, <1>5
  <2> QED
    BY <1>3, <2>2, <2>3 DEF Streams!Range
<1>8. Due(d, more) = Due(c, l) \cup {n}
  <2>1. \A i : i \in 1 .. n <=> i \in 1 .. Len(l) \/ i = n
    BY <1>1
  <2>2. n > c.from
    BY <1>1, <1>2, <1>4
  <2>3. \A i : i \in Due(d, more) <=> i \in 1 .. n /\ i > c.from /\ more[i] \in c.ids
    BY <1>1, <1>2 DEF Due
  <2>4. \A i : i \in Due(c, l) <=> i \in 1 .. Len(l) /\ i > c.from /\ l[i] \in c.ids
    BY <1>1 DEF Due
  <2> QED
    BY <1>1, <2>1, <2>2, <2>3, <2>4
<1>9. d.from <= Len(more)
  BY <1>1, <1>2, <1>4
<1> QED
  BY <1>6, <1>7, <1>8, <1>9 DEF Sent, more

\* An event of a session that a stream does not carry is not due to it.
LEMMA OthersAreNotDue ==
  ASSUME NEW c \in Opened, NEW l \in Seq(Session), NEW s \in Session, Sent(c, l), s \notin c.ids
  PROVE  Sent(c, Append(l, s))
<1>1. /\ Len(l) \in Nat /\ DOMAIN l = 1 .. Len(l)
      /\ Len(Append(l, s)) = Len(l) + 1 /\ DOMAIN Append(l, s) = 1 .. Len(l) + 1
      /\ Append(l, s)[Len(l) + 1] = s /\ \A i \in 1 .. Len(l) : Append(l, s)[i] = l[i]
  OBVIOUS
<1> DEFINE more == Append(l, s)
<1> HIDE DEF more
<1>2. Due(c, more) = Due(c, l)
  <2>1. \A i : i \in 1 .. Len(l) + 1 <=> i \in 1 .. Len(l) \/ i = Len(l) + 1
    BY <1>1
  <2> QED
    BY <1>1, <2>1 DEF Due, more
<1>3. c.from \in Nat
  BY DEF Opened
<1> QED
  BY <1>1, <1>2, <1>3 DEF Sent, more

LEMMA EmitKeepsFeeds ==
  ASSUME FeedInv, NEW s \in Session, Streams!Emit(s) PROVE FeedInv'
<1>1. /\ log' = Append(log, s) /\ stored' = stored
      /\ stream' = [r \in Reader |->
           IF Streams!Hears(r, s) THEN Grown(stream[r], Append(stream[r].got, Len(log) + 1))
           ELSE stream[r]]
      /\ lastId' = [r \in Reader |-> IF Streams!Hears(r, s) THEN Len(log) + 1 ELSE lastId[r]]
  BY DEF Streams!Emit, Grown
<1>2. /\ log \in Seq(Session) /\ Len(log) \in Nat
      /\ log' \in Seq(Session) /\ Len(log') = Len(log) + 1
      /\ stream \in [Reader -> Connection] /\ lastId \in [Reader -> 0 .. Len(log)]
  BY <1>1 DEF FeedInv, FeedTypes
<1>3. ASSUME NEW r \in Reader
      PROVE  /\ stream'[r] \in Connection
             /\ StreamInv(stream'[r], Streams!Range(stored'), log')
  <2>1. stream[r] \in Connection /\ StreamInv(stream[r], Streams!Range(stored), log)
    BY <1>2 DEF FeedInv
  <2>2. CASE Streams!Hears(r, s)
    <3>1. PICK d : d = Grown(stream[r], Append(stream[r].got, Len(log) + 1)) /\ d = stream'[r]
      BY <1>1, <2>2
    <3>2. stream[r].phase = "open" /\ stream[r] \in Opened /\ s \in stream[r].ids
      BY <2>1, <2>2, PhasesTell DEF Streams!Hears
    <3>3. PICK got \in Seq(Nat) : got = Append(stream[r].got, Len(log) + 1)
      <4>1. stream[r].got \in Seq(Nat) /\ Len(log) + 1 \in Nat
        BY <1>2, <3>2 DEF Opened
      <4>2. Append(stream[r].got, Len(log) + 1) \in Seq(Nat)
        BY <4>1
      <4> QED
        BY <4>2
    <3>4. /\ d \in Opened /\ d.got = Append(stream[r].got, Len(log) + 1)
          /\ d.of = stream[r].of /\ d.resume = stream[r].resume /\ d.there = stream[r].there
          /\ d.ids = stream[r].ids /\ d.from = stream[r].from
      <4>1. d = Grown(stream[r], got)
        BY <3>1, <3>3
      <4> QED
        BY <3>2, <3>3, <4>1, GrownIs
    <3>5. /\ stream[r].there \subseteq Streams!Range(stored) /\ stream[r].resume <= Len(log)
          /\ Chosen(stream[r], Streams!Range(stored)) /\ Sent(stream[r], log)
      BY <2>1, <3>2 DEF StreamInv
    <3>6. Sent(d, log')
      BY <1>1, <1>2, <3>2, <3>4, <3>5, NewestIsSent
    <3>7. Chosen(d, Streams!Range(stored))
      BY <3>4, <3>5 DEF Chosen
    <3>8. d.phase = "open" /\ d.resume \in Nat /\ d \in Connection
      BY <3>4 DEF Opened, Connection
    <3>9. StreamInv(d, Streams!Range(stored), log')
      BY <1>2, <3>4, <3>5, <3>6, <3>7, <3>8 DEF StreamInv
    <3> QED
      BY <1>1, <3>1, <3>8, <3>9
  <2>3. CASE ~Streams!Hears(r, s)
    <3>1. stream'[r] = stream[r]
      BY <1>1, <2>3
    <3>2. stream[r].phase = "open" => Sent(stream[r], log')
      BY <1>1, <1>2, <2>1, <2>3, PhasesTell, OthersAreNotDue DEF StreamInv, Streams!Hears
    <3>3. stream[r].phase \in {"asked", "read", "open"} => stream[r].resume <= Len(log')
      <4>1. stream[r].phase \in {"asked", "read", "open"} =>
              stream[r].resume <= Len(log) /\ stream[r].resume \in Nat
        BY <2>1, PhasesTell DEF StreamInv, Asked, Listed, Opened
      <4> QED
        BY <1>2, <4>1
    <3> QED
      BY <1>1, <2>1, <3>1, <3>2, <3>3 DEF StreamInv
  <2> QED
    BY <2>2, <2>3
<1>4. lastId' \in [Reader -> 0 .. Len(log')]
  BY <1>1, <1>2
<1>5. stream' \in [Reader -> Connection]
  BY <1>1, <1>3
<1> QED
  BY <1>1, <1>2, <1>3, <1>4, <1>5 DEF FeedInv, FeedTypes

\* A step of one connection, over the store and the log as they are.
LEMMA OneConnectionMoves ==
  ASSUME FeedInv, NEW r \in Reader, NEW d \in Connection,
         stream' = [stream EXCEPT ![r] = d], stored' = stored, log' = log,
         lastId' \in [Reader -> 0 .. Len(log)],
         StreamInv(d, Streams!Range(stored), log)
  PROVE  FeedInv'
<1>1. stream \in [Reader -> Connection]
  BY DEF FeedInv, FeedTypes
<1>2. stream' \in [Reader -> Connection] /\ stream'[r] = d
      /\ \A o \in Reader : o # r => stream'[o] = stream[o]
  BY <1>1
<1>3. FeedTypes'
  BY <1>2 DEF FeedInv, FeedTypes
<1>4. ASSUME NEW o \in Reader PROVE StreamInv(stream'[o], Streams!Range(stored'), log')
  BY <1>2 DEF FeedInv
<1> QED
  BY <1>3, <1>4 DEF FeedInv

LEMMA AskKeepsFeeds ==
  ASSUME FeedInv, NEW r \in Reader, Streams!Ask(r) PROVE FeedInv'
<1>1. /\ stream' = [stream EXCEPT ![r] =
           [phase |-> "asked", of |-> MCWantOf[r], resume |-> lastId[r],
            there |-> Streams!Range(stored)]]
      /\ stored' = stored /\ log' = log /\ lastId' = lastId
  BY DEF Streams!Ask
<1>2. stored \in Seq(Session) /\ lastId \in [Reader -> 0 .. Len(log)] /\ log \in Seq(Session)
  BY DEF FeedInv, FeedTypes
<1>3. Streams!Range(stored) \subseteq Session /\ MCWantOf[r] \in Session \cup Project
  BY <1>2, StoredAreFinite, InputsOfFeeds
<1>4. PICK d : d = [phase |-> "asked", of |-> MCWantOf[r], resume |-> lastId[r],
                    there |-> Streams!Range(stored)]
  OBVIOUS
<1>5. d \in Asked /\ d.phase = "asked" /\ d.resume <= Len(log) /\ d.there = Streams!Range(stored)
  BY <1>2, <1>3, <1>4 DEF Asked
<1>6. d \in Connection /\ StreamInv(d, Streams!Range(stored), log)
  BY <1>5 DEF StreamInv, Connection
<1> QED
  BY <1>1, <1>2, <1>4, <1>6, OneConnectionMoves

\* One session's place in the list: with room for all of its project it is on it.
LEMMA ListHasRoom ==
  ASSUME FeedTypes, NEW s \in Streams!Range(stored),
         Cardinality(OfProject(Streams!Range(stored), MCProjectOf[s])) <= ListLimit
  PROVE  s \in Streams!Newest(MCProjectOf[s])
<1> DEFINE mine == OfProject(Streams!Range(stored), MCProjectOf[s])
           later == {t \in mine : Streams!Later(s, t)}
<1>1. stored \in Seq(Session) /\ \A j, k \in DOMAIN stored : stored[j] = stored[k] => j = k
  BY DEF FeedTypes
<1>2. IsFiniteSet(mine) /\ Cardinality(mine) \in Nat /\ s \in mine
  BY <1>1, StoredAreFinite DEF OfProject
<1>3. s \notin later
  <2>1. ASSUME NEW j \in DOMAIN stored, NEW k \in DOMAIN stored, j < k, stored[j] = s, stored[k] = s
        PROVE  FALSE
    <3>1. j = k /\ j \in Nat
      BY <1>1, <2>1
    <3> QED
      BY <2>1, <3>1
  <2> QED
    BY <2>1 DEF Streams!Later
<1>4. later \subseteq mine /\ later # mine
  BY <1>2, <1>3
<1> HIDE DEF later
<1>5. Cardinality(later) < Cardinality(mine) /\ Cardinality(later) \in Nat
  <2>1. IsFiniteSet(later) /\ Cardinality(later) <= Cardinality(mine)
        /\ (Cardinality(mine) = Cardinality(later) => later = mine)
    BY <1>2, <1>4, FS_Subset
  <2>2. Cardinality(later) \in Nat
    BY <2>1, FS_CardinalityType
  <2> QED
    BY <1>2, <1>4, <2>1, <2>2
<1>6. Cardinality(later) < ListLimit
  BY <1>2, <1>5, InputsOfFeeds
<1>7. Streams!Of(MCProjectOf[s]) = mine
  BY DEF Streams!Of, OfProject
<1>8. Streams!Cardinality({t \in Streams!Of(MCProjectOf[s]) : Streams!Later(s, t)}) = Cardinality(later)
  BY <1>7, Counting DEF later
<1> QED
  BY <1>2, <1>6, <1>7, <1>8 DEF Streams!Newest

LEMMA ReadKeepsFeeds ==
  ASSUME FeedInv, NEW r \in Reader, Streams!Read(r) PROVE FeedInv'
<1>1. PICK c : c = stream[r]
  OBVIOUS
<1>2. /\ FeedTypes /\ c \in Asked /\ c.phase = "asked" /\ StreamInv(c, Streams!Range(stored), log)
      /\ lastId' \in [Reader -> 0 .. Len(log)] /\ stored' = stored /\ log' = log
  BY <1>1, PhasesTell DEF Streams!Read, FeedInv, FeedTypes
<1>3. CASE c.of \in Session \ Streams!Range(stored)
  <2>1. stream' = [stream EXCEPT ![r] = Streams!Closed]
    BY <1>1, <1>3 DEF Streams!Read
  <2>2. Streams!Closed \in Connection /\ Streams!Closed.phase = "closed"
    BY DEF Streams!Closed, Connection, Gone
  <2>3. StreamInv(Streams!Closed, Streams!Range(stored), log)
    BY <2>2 DEF StreamInv
  <2> QED
    BY <1>2, <2>1, <2>2, <2>3, OneConnectionMoves
<1>4. CASE c.of \notin Session \ Streams!Range(stored)
  <2> DEFINE list == IF c.of \in Project THEN Streams!Newest(c.of) ELSE {c.of}
  <2>1. PICK d : d = [phase |-> "read", of |-> c.of, resume |-> c.resume,
                      there |-> c.there, ids |-> list]
    OBVIOUS
  <2>2. stream' = [stream EXCEPT ![r] = d]
    BY <1>1, <1>4, <2>1 DEF Streams!Read
  <2>3. c.of \in Session \cup Project /\ c.resume \in Nat /\ c.there \subseteq Session
        /\ c.there \subseteq Streams!Range(stored) /\ c.resume <= Len(log)
    BY <1>2 DEF Asked, StreamInv
  <2>4. Streams!Newest(c.of) \subseteq OfProject(Streams!Range(stored), c.of)
    BY DEF Streams!Newest, Streams!Of, OfProject
  <2>5. Streams!Range(stored) \subseteq Session
    BY <1>2, StoredAreFinite DEF FeedTypes
  <2>6. list \subseteq Session
    BY <2>3, <2>4, <2>5 DEF OfProject
  <2> HIDE DEF list
  <2>7. /\ d \in Listed /\ d.phase = "read" /\ d.of = c.of /\ d.resume = c.resume
        /\ d.there = c.there /\ d.ids = list
    BY <2>1, <2>3, <2>6 DEF Listed
  <2>8. Chosen(d, Streams!Range(stored))
    <3>1. ASSUME NEW s \in list PROVE c.of \in {s, MCProjectOf[s]}
      BY <2>4 DEF list, OfProject
    <3>2. c.of \in Session => c.of \in list
      BY InputsOfFeeds DEF list
    <3>3. ASSUME NEW s \in c.there, c.of = MCProjectOf[s],
                 Cardinality(OfProject(Streams!Range(stored), c.of)) <= ListLimit
          PROVE  s \in list
      <4>1. s \in Streams!Range(stored) /\ s \in Session
        BY <2>3
      <4>2. c.of \in Project
        BY <3>3, <4>1, InputsOfFeeds
      <4>3. s \in Streams!Newest(c.of)
        BY <1>2, <3>3, <4>1, ListHasRoom
      <4> QED
        BY <4>2, <4>3 DEF list
    <3> QED
      BY <2>7, <3>1, <3>2, <3>3 DEF Chosen
  <2>9. d \in Connection /\ StreamInv(d, Streams!Range(stored), log)
    BY <2>3, <2>7, <2>8 DEF StreamInv, Connection
  <2> QED
    BY <1>2, <2>2, <2>9, OneConnectionMoves
<1> QED
  BY <1>3, <1>4

LEMMA OpenKeepsFeeds ==
  ASSUME FeedInv, NEW r \in Reader, Streams!Open(r) PROVE FeedInv'
<1>1. PICK c : c = stream[r]
  OBVIOUS
<1>2. /\ FeedTypes /\ c \in Listed /\ c.phase = "read" /\ StreamInv(c, Streams!Range(stored), log)
      /\ stored' = stored /\ log' = log
      /\ log \in Seq(Session) /\ lastId \in [Reader -> 0 .. Len(log)]
  BY <1>1, PhasesTell DEF Streams!Open, FeedInv, FeedTypes
<1>3. PICK missed : missed = Streams!Replay(c.ids, c.resume)
  OBVIOUS
<1>4. PICK from : from = IF c.resume = 0 THEN Len(log) ELSE c.resume
  OBVIOUS
<1>5. PICK d : d = [phase |-> "open", of |-> c.of, resume |-> c.resume, there |-> c.there,
                    ids |-> c.ids, from |-> from, got |-> missed]
  OBVIOUS
<1>6. /\ stream' = [stream EXCEPT ![r] = d]
      /\ lastId' = [lastId EXCEPT ![r] = IF missed = <<>> THEN @ ELSE missed[Len(missed)]]
  BY <1>1, <1>3, <1>4, <1>5 DEF Streams!Open, Streams!None
<1>7. /\ c.of \in Session \cup Project /\ c.resume \in Nat /\ c.there \subseteq Session
      /\ c.ids \subseteq Session /\ c.there \subseteq Streams!Range(stored) /\ c.resume <= Len(log)
      /\ Chosen(c, Streams!Range(stored))
  BY <1>2 DEF Listed, StreamInv
<1>8. Len(log) \in Nat /\ DOMAIN log = 1 .. Len(log) /\ from \in Nat /\ from <= Len(log)
  BY <1>2, <1>4, <1>7
<1> DEFINE due == {i \in 1 .. Len(log) : i > from /\ log[i] \in c.ids}
<1>9. /\ missed \in Seq(Nat) /\ Streams!Range(missed) = due /\ Streams!Rises(missed)
      /\ \A k \in DOMAIN missed : missed[k] \in 1 .. Len(log)
  <2>1. CASE c.resume = 0
    <3>1. missed = <<>> /\ due = {}
      BY <1>3, <1>4, <1>8, <2>1 DEF Streams!Replay, Streams!None
    <3> HIDE DEF due
    <3> QED
      BY <3>1 DEF Streams!Range, Streams!Rises
  <2>2. CASE c.resume # 0
    <3>1. missed = Streams!InOrder(due)
      BY <1>3, <1>4, <1>8, <2>2 DEF Streams!Replay, Streams!None
    <3>2. due \in SUBSET (1 .. Len(log))
      OBVIOUS
    <3> HIDE DEF due
    <3>3. /\ missed \in [1 .. Cardinality(due) -> due] /\ Streams!Range(missed) = due
          /\ Streams!Rises(missed)
      BY <1>8, <3>1, <3>2, IdsHaveAnOrder DEF Ordered
    <3>4. Cardinality(due) \in Nat
      <4>1. IsFiniteSet(1 .. Len(log))
        BY <1>8, FS_Interval
      <4> QED
        BY <3>2, <4>1, FS_Subset, FS_CardinalityType
    <3>5. \A k \in DOMAIN missed : missed[k] \in 1 .. Len(log)
      BY <3>2, <3>3
    <3>6. missed \in [1 .. Cardinality(due) -> Nat]
      BY <3>3, <3>5
    <3>7. missed \in Seq(Nat)
      BY <3>4, <3>6
    <3> QED
      BY <3>3, <3>5, <3>7
  <2> QED
    BY <2>1, <2>2
<1>10. /\ d \in Opened /\ d.phase = "open" /\ d.of = c.of /\ d.resume = c.resume
       /\ d.there = c.there /\ d.ids = c.ids /\ d.from = from /\ d.got = missed
  BY <1>5, <1>7, <1>8, <1>9 DEF Opened
<1>11. Due(d, log) = due
  BY <1>8, <1>10 DEF Due
<1> HIDE DEF due
<1>12. Sent(d, log)
  BY <1>8, <1>9, <1>10, <1>11 DEF Sent
<1>13. Chosen(d, Streams!Range(stored))
  BY <1>7, <1>10 DEF Chosen
<1>14. d \in Connection /\ StreamInv(d, Streams!Range(stored), log)
  BY <1>7, <1>10, <1>12, <1>13 DEF StreamInv, Connection
<1>15. missed = <<>> \/ missed[Len(missed)] \in 0 .. Len(log)
  <2>1. missed # <<>> => Len(missed) \in DOMAIN missed
    BY <1>9
  <2> QED
    BY <1>8, <1>9, <2>1
<1>16. lastId' \in [Reader -> 0 .. Len(log)]
  BY <1>2, <1>6, <1>15
<1> QED
  BY <1>2, <1>6, <1>14, <1>16, OneConnectionMoves

LEMMA EndingsKeepFeeds ==
  ASSUME FeedInv, Streams!Shutdown \/ \E r \in Reader : Streams!Close(r) PROVE FeedInv'
<1>1. CASE Streams!Shutdown
  <2>1. /\ stream' = [r \in Reader |->
             IF stream[r].phase = "open" THEN [phase |-> "ended"] ELSE stream[r]]
        /\ stored' = stored /\ log' = log /\ lastId' = lastId
    BY <1>1 DEF Streams!Shutdown
  <2>2. PICK e : e = [phase |-> "ended"]
    OBVIOUS
  <2>3. e \in Connection /\ StreamInv(e, Streams!Range(stored), log)
    BY <2>2 DEF Connection, Gone, StreamInv
  <2>4. \A r \in Reader : stream'[r] = e \/ stream'[r] = stream[r]
    BY <2>1, <2>2
  <2>5. \A r \in Reader : stream'[r] \in Connection
    BY <2>3, <2>4 DEF FeedInv, FeedTypes
  <2>6. stream' \in [Reader -> Connection]
    BY <2>1, <2>5
  <2>7. FeedTypes'
    BY <2>1, <2>6 DEF FeedInv, FeedTypes
  <2>8. \A r \in Reader : StreamInv(stream'[r], Streams!Range(stored'), log')
    BY <2>1, <2>3, <2>4 DEF FeedInv
  <2> QED
    BY <2>7, <2>8 DEF FeedInv
<1>2. ASSUME NEW r \in Reader, Streams!Close(r) PROVE FeedInv'
  <2>1. stream' = [stream EXCEPT ![r] = Streams!Closed]
        /\ stored' = stored /\ log' = log /\ lastId' \in [Reader -> 0 .. Len(log)]
    BY <1>2 DEF Streams!Close, FeedInv, FeedTypes
  <2>2. Streams!Closed \in Connection /\ Streams!Closed.phase = "closed"
    BY DEF Streams!Closed, Connection, Gone
  <2>3. StreamInv(Streams!Closed, Streams!Range(stored), log)
    BY <2>2 DEF StreamInv
  <2> QED
    BY <2>1, <2>2, <2>3, OneConnectionMoves
<1> QED
  BY <1>1, <1>2

LEMMA FeedsBegin == Streams!Init => FeedInv
<1> SUFFICES ASSUME Streams!Init PROVE FeedInv
  OBVIOUS
<1>1. /\ stored = <<>> /\ log = <<>> /\ stream = [r \in Reader |-> Streams!Closed]
      /\ lastId = [r \in Reader |-> 0]
  BY DEF Streams!Init, Streams!None
<1>2. Streams!Closed \in Connection /\ Streams!Closed.phase = "closed"
  BY DEF Streams!Closed, Connection, Gone
<1>3. FeedTypes
  BY <1>1, <1>2 DEF FeedTypes
<1>4. \A r \in Reader : StreamInv(stream[r], Streams!Range(stored), log)
  BY <1>1, <1>2 DEF StreamInv
<1> QED
  BY <1>3, <1>4 DEF FeedInv

LEMMA FeedsStep == FeedInv /\ [MCNext]_<<part, vars, feeds, sql, traces>> => FeedInv'
<1> SUFFICES ASSUME FeedInv, [MCNext]_<<part, vars, feeds, sql, traces>> PROVE FeedInv'
  OBVIOUS
<1>1. CASE Streams!Next
  BY <1>1, CreateKeepsFeeds, EmitKeepsFeeds, AskKeepsFeeds, ReadKeepsFeeds, OpenKeepsFeeds,
     EndingsKeepFeeds DEF Streams!Next
<1>2. CASE UNCHANGED feeds
  <2>1. stored' = stored /\ log' = log /\ stream' = stream /\ lastId' = lastId
    BY <1>2 DEF feeds
  <2>2. FeedTypes'
    BY <2>1 DEF FeedInv, FeedTypes
  <2>3. \A r \in Reader : StreamInv(stream'[r], Streams!Range(stored'), log')
    BY <2>1 DEF FeedInv
  <2> QED
    BY <2>2, <2>3 DEF FeedInv
<1> QED
  BY <1>1, <1>2 DEF MCNext

LEMMA FeedsAreTrue == FeedInv => Streams!StreamsCarryTheirSessions
<1> SUFFICES ASSUME FeedInv, NEW r \in Reader, stream[r].phase = "open"
             PROVE  /\ \A i \in DOMAIN stream[r].got :
                         stream[r].got[i] > stream[r].from /\ Streams!Belongs(r, log[stream[r].got[i]])
                    /\ Streams!Rises(stream[r].got)
                    /\ \A i \in DOMAIN log :
                         i > stream[r].from /\ Streams!Promised(r, log[i])
                           => i \in Streams!Range(stream[r].got)
  BY DEF Streams!StreamsCarryTheirSessions
<1>1. PICK c : c = stream[r]
  OBVIOUS
<1>2. c \in Opened /\ Chosen(c, Streams!Range(stored)) /\ Sent(c, log)
      /\ log \in Seq(Session)
  BY <1>1, PhasesTell DEF FeedInv, FeedTypes, StreamInv
<1>3. Streams!Range(c.got) = Due(c, log) /\ Streams!Rises(c.got)
  BY <1>2 DEF Sent
<1>4. ASSUME NEW i \in DOMAIN c.got PROVE c.got[i] > c.from /\ Streams!Belongs(r, log[c.got[i]])
  <2>1. c.got[i] \in Due(c, log)
    BY <1>3 DEF Streams!Range
  <2>2. c.got[i] > c.from /\ log[c.got[i]] \in c.ids
    BY <2>1 DEF Due
  <2>3. c.of \in {log[c.got[i]], MCProjectOf[log[c.got[i]]]}
    BY <1>2, <2>2 DEF Chosen
  <2> QED
    BY <1>1, <2>2, <2>3 DEF Streams!Belongs
<1>5. ASSUME NEW i \in DOMAIN log, i > c.from, Streams!Promised(r, log[i])
      PROVE  i \in Streams!Range(c.got)
  <2>1. log[i] \in Session
    BY <1>2
  <2>2. CASE c.of = log[i]
    <3>1. log[i] \in c.ids
      BY <1>2, <2>1, <2>2 DEF Chosen
    <3> QED
      BY <1>3, <1>5, <3>1 DEF Due
  <2>3. CASE c.of # log[i]
    <3>1. /\ c.of = MCProjectOf[log[i]] /\ log[i] \in c.there
          /\ Cardinality(Streams!Of(MCProjectOf[log[i]])) <= ListLimit
      BY <1>1, <1>5, <2>3, Counting DEF Streams!Promised
    <3>2. Streams!Of(c.of) = OfProject(Streams!Range(stored), c.of)
      BY DEF Streams!Of, OfProject
    <3>3. log[i] \in c.ids
      BY <1>2, <3>1, <3>2 DEF Chosen
    <3> QED
      BY <1>3, <1>5, <3>3 DEF Due
  <2> QED
    BY <2>2, <2>3
<1> QED
  BY <1>1, <1>3, <1>4, <1>5

\* Whatever was created, emitted or stopped while a route read the store, an open
\* stream has every event of the sessions promised to it since it was opened or since
\* the client's Last-Event-ID, once and in order, and none of another project.
THEOREM StreamsAreWhole == MCSpec => []StreamsCarryTheirSessions
<1>1. MCInit => FeedInv
  BY FeedsBegin DEF MCInit
<1>2. FeedInv => StreamsCarryTheirSessions
  BY FeedsAreTrue DEF StreamsCarryTheirSessions
<1> QED
  BY <1>1, <1>2, FeedsStep, PTL DEF MCSpec

-----------------------------------------------------------------------------
(* PostgresBackend: optimistic concurrency over the rows of a session, for  *)
(* any number of requests and backend objects, on either database.          *)
(*                                                                          *)
(* A request compares only the LENGTH of the aggregate it decided from with *)
(* the last version in the table.  That length is that version for one      *)
(* aggregate only: all that is ever read, cached or kept is an unbroken run *)
(* of versions a .. b, b is at most the highest version ever committed, and *)
(* while there is a row the last one is that version.                       *)

\* What was read when the highest version ever was `top'.
Unbroken(set, top) ==
  \/ set = {}
  \/ \E a, b \in 1 .. top : a <= b /\ set = a .. b

\* The table: what a delete left, up to the newest.
Standing(set, top) ==
  \/ set = {}
  \/ \E a \in 1 .. top : set = a .. top

Request == [op : {"none", "create", "read", "update", "mirror", "delete"},
            pc : {"idle", "get", "install", "select", "insert", "invalidate", "append",
                  "append.insert", "count", "delete", "delete.rows", "done"},
            at : Instance \cup {"none"}, read : SUBSET Nat, expected : Nat, seen : Nat,
            try : {1, 2}, rival : BOOLEAN,
            code : {"none", "200", "201", "404", "409", "skipped", "dropped"}]

\* Where a request stands, given the rows and the highest version ever.
RequestAt(r, table, top) ==
  /\ r \in Request
  /\ IF r.pc = "idle" THEN r.op = "none" /\ r.at = "none" ELSE r.at \in Instance
  /\ r.code # "none" => r.pc \in {"append.insert", "count", "done"}
  /\ r.pc \in {"append.insert", "count"} => r.code \in {"none", "201"}
  /\ Unbroken(r.read, top)
  /\ r.pc \in {"append", "append.insert"} => r.op = "create" /\ top = 0
  /\ r.pc \in {"delete", "delete.rows"} => r.op = "delete"
  /\ r.pc = "append.insert" => r.seen = 0
  /\ r.pc = "select" => r.read # {} /\ r.expected = Store!Cardinality(r.read)
  /\ r.pc = "insert" => r.seen \in table /\ r.read = 1 .. r.seen
  /\ r.pc = "delete.rows" =>
       \/ r.read = {} \/ table = {}
       \/ \E a, b \in 1 .. top : a <= b /\ r.read = a .. b /\ table = a .. top

OneOf(op) == \A c, d \in Caller : caller[c].op = op /\ caller[d].op = op => c = d

BookInv(top) ==
  /\ dialect \in Dialects /\ durability \in Durabilities
  /\ Standing(rows, top)
  /\ snapshots \in [Instance -> SUBSET Nat]
  /\ \A i \in Instance : Unbroken(snapshots[i], top)
  /\ versions \in [Instance -> Nat] /\ buffered \in [Instance -> Nat]
  /\ caller \in [Caller -> Request]
  /\ \A c \in Caller : RequestAt(caller[c], rows, top)
  /\ OneOf("create") /\ OneOf("delete")
  /\ top # 0 => \E c \in Caller : caller[c].op = "create"
  /\ \A w \in commits : w.saw = 1 .. w.version - 1

-----------------------------------------------------------------------------
(* Intervals.                                                              *)

LEMMA SameCardinality == ASSUME NEW S PROVE Store!Cardinality(S) = Cardinality(S)
BY DEF Store!Cardinality, Cardinality, Store!IsFiniteSet, IsFiniteSet

LEMMA MaxOfInterval ==
  ASSUME NEW a \in Nat, NEW b \in Nat, a <= b
  PROVE  Store!Max(a .. b) = b
<1>1. b \in a .. b /\ \A y \in a .. b : b >= y
  OBVIOUS
<1>2. \A x \in a .. b : (\A y \in a .. b : x >= y) => x = b
  OBVIOUS
<1> QED
  BY <1>1, <1>2 DEF Store!Max

\* An aggregate that is not empty: its length, and that its length is known.
LEMMA UnbrokenFacts ==
  ASSUME NEW top \in Nat, NEW set, Unbroken(set, top)
  PROVE  /\ set \in SUBSET Nat /\ set \subseteq 1 .. top /\ IsFiniteSet(set)
         /\ Store!Cardinality(set) \in 0 .. top
         /\ set # {} => Store!Cardinality(set) > 0
         /\ Store!Cardinality(set) = top => set = 1 .. top
<1>0. Store!Cardinality(set) = Cardinality(set)
  BY SameCardinality
<1>1. CASE set = {}
  BY <1>0, <1>1, FS_EmptySet
<1>2. ASSUME NEW a \in 1 .. top, NEW b \in 1 .. top, a <= b, set = a .. b
      PROVE  /\ IsFiniteSet(set) /\ Store!Cardinality(set) = b - a + 1
  BY <1>0, <1>2, FS_Interval
<1> QED
  BY <1>1, <1>2 DEF Unbroken

LEMMA StandingFacts ==
  ASSUME NEW top \in Nat, NEW set, Standing(set, top)
  PROVE  /\ set \in SUBSET Nat /\ Unbroken(set, top) /\ Store!LatestVersion(set) \in Nat
         /\ Store!LatestVersion(set) = IF set = {} THEN 0 ELSE top
         /\ set # {} => top \in set
<1>1. CASE set = {}
  BY <1>1 DEF Store!LatestVersion, Unbroken
<1>2. ASSUME NEW a \in 1 .. top, set = a .. top PROVE Store!LatestVersion(set) = top /\ Unbroken(set, top) /\ top \in set
  BY <1>2, MaxOfInterval DEF Store!LatestVersion, Unbroken
<1> QED
  BY <1>1, <1>2 DEF Standing, Unbroken

\* A higher version makes nothing that was read less of an unbroken run.
LEMMA UnbrokenStays ==
  ASSUME NEW top \in Nat, NEW set, Unbroken(set, top)
  PROVE  Unbroken(set, top + 1)
BY DEF Unbroken

LEMMA BookInvInit == Store!Init => BookInv(0)
<1> SUFFICES ASSUME Store!Init PROVE BookInv(0)
  OBVIOUS
<1>1. RequestAt(Store!NoRequest, rows, 0) /\ Store!NoRequest \in Request
  BY DEF RequestAt, Store!NoRequest, Request, Unbroken
<1>2. \A c \in Caller : caller[c] = Store!NoRequest
  BY DEF Store!Init
<1>3. Store!NoRequest.op = "none"
  BY DEF Store!NoRequest
<1> QED
  BY <1>1, <1>2, <1>3 DEF Store!Init, BookInv, Standing, Unbroken, OneOf

-----------------------------------------------------------------------------
(* A request moves on, and no row comes or goes.                           *)

\* The caches of one object, as a step may leave them.
CachesAt(top) ==
  /\ snapshots \in [Instance -> SUBSET Nat] /\ versions \in [Instance -> Nat]
  /\ buffered \in [Instance -> Nat]
  /\ \A i \in Instance : Unbroken(snapshots[i], top)

LEMMA RequestMoves ==
  ASSUME NEW top \in Nat, BookInv(top), NEW c \in Caller, NEW q,
         caller' = [caller EXCEPT ![c] = q], RequestAt(q, rows, top),
         q.op = caller[c].op, CachesAt(top)',
         UNCHANGED <<dialect, durability, rows, commits>>
  PROVE  BookInv(top)'
<1>1. caller' \in [Caller -> Request] /\ caller'[c] = q
      /\ \A d \in Caller : d # c => caller'[d] = caller[d]
  BY DEF BookInv, RequestAt
<1>2. \A d \in Caller : RequestAt(caller'[d], rows, top) /\ caller'[d].op = caller[d].op
  BY <1>1 DEF BookInv
<1>3. OneOf("create")' /\ OneOf("delete")'
  BY <1>2 DEF BookInv, OneOf
<1> QED
  BY <1>1, <1>2, <1>3 DEF BookInv, CachesAt

LEMMA CachesStay ==
  ASSUME NEW top \in Nat, BookInv(top), UNCHANGED <<snapshots, versions, buffered>>
  PROVE  CachesAt(top)'
BY DEF BookInv, CachesAt

\* An answered request is nobody's business but its own.
LEMMA DoneStands ==
  ASSUME NEW top \in Nat, NEW table, NEW r \in Request, Unbroken(r.read, top),
         r.at \in Instance, NEW code \in {"200", "201", "404", "409", "skipped", "dropped"}
  PROVE  /\ RequestAt(Store!Done(r, code), table, top) /\ Store!Done(r, code).op = r.op
         /\ Store!Done(r, code).pc = "done"
BY DEF RequestAt, Store!Done, Request

\* A request that got an aggregate, empty or not.
LEMMA GotStands ==
  ASSUME NEW top \in Nat, NEW table, NEW r \in Request, r.at \in Instance,
         r.code = "none", NEW set, Unbroken(set, top)
  PROVE  RequestAt(Store!Got(r, set), table, top) /\ Store!Got(r, set).op = r.op
<1> DEFINE got == [r EXCEPT !.read = set, !.expected = Store!Cardinality(set)]
<1>1. set \in SUBSET Nat /\ Store!Cardinality(set) \in Nat
  BY UnbrokenFacts
<1>2. got \in Request /\ got.read = set /\ got.at = r.at /\ got.op = r.op
      /\ got.code = r.code
      /\ got.expected = Store!Cardinality(set)
  BY <1>1 DEF Request
<1> HIDE DEF got
<1>3. RequestAt(Store!Done(got, "skipped"), table, top) /\ RequestAt(Store!Done(got, "404"), table, top)
      /\ RequestAt(Store!Done(got, "200"), table, top)
      /\ \A code : Store!Done(got, code).op = r.op
  <2>1. \A code : Store!Done(got, code).op = r.op
    BY <1>2 DEF Store!Done, Request
  <2> QED
    BY <2>1, <1>2, DoneStands
<1>4. set # {} => RequestAt([got EXCEPT !.pc = "select"], table, top)
                  /\ [got EXCEPT !.pc = "select"].op = r.op
  BY <1>2 DEF RequestAt, Request
<1>5. Store!Got(r, set) = IF set = {} THEN Store!Done(got, IF r.op = "mirror" THEN "skipped" ELSE "404")
                    ELSE IF r.op = "read" THEN Store!Done(got, "200")
                    ELSE [got EXCEPT !.pc = "select"]
  BY DEF Store!Got, got
<1> QED
  BY <1>3, <1>4, <1>5

LEMMA RejectedStands ==
  ASSUME NEW top \in Nat, NEW table, NEW r \in Request, r.at \in Instance, Unbroken(r.read, top),
         r.code = "none"
  PROVE  RequestAt(Store!Rejected(r), table, top) /\ Store!Rejected(r).op = r.op
<1>1. RequestAt([r EXCEPT !.pc = "get", !.try = 2], table, top)
      /\ [r EXCEPT !.pc = "get", !.try = 2].op = r.op
  BY DEF RequestAt, Request
<1> QED
  BY <1>1, DoneStands DEF Store!Rejected

LEMMA ArriveKeeps ==
  ASSUME NEW top \in Nat, BookInv(top), NEW c \in Caller, NEW op \in Ops, NEW i \in Instance,
         Store!RequestsKnown, Store!Arrive(c, op, i)
  PROVE  BookInv(top)'
<1> DEFINE q == [Store!NoRequest EXCEPT !.op = op, !.at = i, !.rival = Store!Unsettled,
                         !.pc = CASE op = "create" -> "append"
                                  [] op = "delete" -> "delete"
                                  [] OTHER -> "get"]
<1>1. caller' = [caller EXCEPT ![c] = q]
  BY DEF Store!Arrive
<1>2. op \in {"create", "read", "update", "mirror", "delete"}
  BY DEF Store!RequestsKnown
<1>3. /\ q \in Request /\ q.op = op /\ q.at = i /\ q.read = {}
      /\ q.pc \in {"append", "delete", "get"}
      /\ q.pc = "append" <=> op = "create"
      /\ q.pc = "delete" <=> op = "delete"
      /\ q.code = "none"
  BY <1>2 DEF Request, Store!NoRequest, Store!Unsettled
<1> HIDE DEF q
<1>4. op = "create" => top = 0
  BY DEF Store!Arrive, BookInv
<1>5. RequestAt(q, rows, top)
  BY <1>3, <1>4 DEF RequestAt, Unbroken
<1>6. caller' \in [Caller -> Request] /\ caller'[c] = q
      /\ \A d \in Caller : d # c => caller'[d] = caller[d]
  BY <1>1, <1>3 DEF BookInv
<1>7. \A d \in Caller : RequestAt(caller'[d], rows, top)
  BY <1>5, <1>6 DEF BookInv
<1>8. OneOf("create")' /\ OneOf("delete")'
  BY <1>3, <1>6 DEF BookInv, OneOf, Store!Arrive
<1>9. top # 0 => \E d \in Caller : caller'[d].op = "create"
  <2>1. caller[c].op # "create"
    BY DEF Store!Arrive, BookInv, RequestAt
  <2> QED
    BY <2>1, <1>6 DEF BookInv
<1> QED
  BY <1>6, <1>7, <1>8, <1>9 DEF BookInv, Store!Arrive

-----------------------------------------------------------------------------
(* Reads.                                                                  *)

LEMMA InstallKeeps ==
  ASSUME NEW top \in Nat, BookInv(top), NEW c \in Caller, caller[c].pc \in {"get", "install"},
         NEW set, Unbroken(set, top), Store!Install(c, set),
         UNCHANGED <<dialect, durability, rows, buffered, commits>>
  PROVE  BookInv(top)'
<1> DEFINE i == caller[c].at
           seen == IF set = {} THEN {} ELSE snapshots'[i]
<1>1. caller[c] \in Request /\ i \in Instance /\ caller[c].code = "none"
  BY DEF BookInv, RequestAt
<1>2. set \in SUBSET Nat /\ Store!Cardinality(set) \in Nat
  BY UnbrokenFacts
<1>3. CachesAt(top)'
  BY <1>1, <1>2 DEF Store!Install, CachesAt, BookInv
<1>4. Unbroken(seen, top)
  BY <1>1, <1>3 DEF CachesAt, Unbroken
<1>5. caller' = [caller EXCEPT ![c] = Store!Got(caller[c], seen)]
  BY DEF Store!Install
<1> HIDE DEF seen
<1> QED
  BY <1>1, <1>3, <1>4, <1>5, GotStands, RequestMoves

LEMMA ReadsKeep ==
  ASSUME NEW top \in Nat, BookInv(top), NEW c \in Caller,
         Store!GetHit(c) \/ Store!GetSync(c) \/ Store!GetQuery(c) \/ Store!GetInstall(c)
  PROVE  BookInv(top)'
<1>1. caller[c] \in Request /\ RequestAt(caller[c], rows, top)
  BY DEF BookInv
<1>2. Unbroken(rows, top) /\ rows \in SUBSET Nat
  BY StandingFacts DEF BookInv
<1>3. CASE Store!GetHit(c)
  <2>1. /\ caller[c].at \in Instance /\ Unbroken(snapshots[caller[c].at], top)
        /\ caller[c].code = "none"
    BY <1>1, <1>3 DEF Store!GetHit, RequestAt, BookInv
  <2> QED
    BY <1>1, <1>3, <2>1, GotStands, RequestMoves, CachesStay DEF Store!GetHit
<1>4. CASE Store!GetSync(c)
  BY <1>2, <1>4, InstallKeeps DEF Store!GetSync
<1>5. CASE Store!GetQuery(c)
  <2> DEFINE q == [caller[c] EXCEPT !.pc = "install", !.read = rows]
  <2>1. RequestAt(q, rows, top) /\ q.op = caller[c].op
    BY <1>1, <1>2, <1>5 DEF Store!GetQuery, RequestAt, Request
  <2>2. caller' = [caller EXCEPT ![c] = q]
    BY <1>1, <1>5 DEF Store!GetQuery, BookInv
  <2> QED
    BY <1>5, <2>1, <2>2, RequestMoves, CachesStay DEF Store!GetQuery
<1>6. CASE Store!GetInstall(c)
  <2>1. Unbroken(caller[c].read, top)
    BY <1>1 DEF RequestAt
  <2> QED
    BY <1>6, <2>1, InstallKeeps DEF Store!GetInstall
<1> QED
  BY <1>3, <1>4, <1>5, <1>6

-----------------------------------------------------------------------------
(* Writes.                                                                 *)

\* The heart of it: only the whole history has the length of the last version.
LEMMA SelectKeeps ==
  ASSUME NEW top \in Nat, BookInv(top), NEW c \in Caller, Store!Select(c)
  PROVE  BookInv(top)'
<1> DEFINE r == caller[c]
           q == [r EXCEPT !.pc = "insert", !.seen = Store!LatestVersion(rows)]
<1>1. /\ r \in Request /\ r.at \in Instance /\ Unbroken(r.read, top)
      /\ r.read # {} /\ r.expected = Store!Cardinality(r.read) /\ r.pc = "select" /\ r.code = "none"
  BY DEF Store!Select, BookInv, RequestAt
<1>2. CASE r.expected = Store!LatestVersion(rows)
  <2> HIDE DEF r
  <2>a. Store!Cardinality(r.read) > 0 /\ (Store!Cardinality(r.read) = top => r.read = 1 .. top)
    BY <1>1, UnbrokenFacts
  <2>b. /\ Store!LatestVersion(rows) = IF rows = {} THEN 0 ELSE top
        /\ rows # {} => top \in rows
    BY StandingFacts DEF BookInv
  <2>1. Store!LatestVersion(rows) = top /\ top \in rows /\ Store!Cardinality(r.read) = top
    BY <1>1, <1>2, <2>a, <2>b
  <2>2. r.read = 1 .. top
    BY <2>a, <2>1
  <2> USE DEF r
  <2>3. RequestAt(q, rows, top) /\ q.op = r.op
    BY <1>1, <2>1, <2>2 DEF RequestAt, Request
  <2>4. caller' = [caller EXCEPT ![c] = q]
    BY <1>2 DEF Store!Select
  <2> QED
    BY <2>3, <2>4, RequestMoves, CachesStay DEF Store!Select
<1>3. CASE r.expected # Store!LatestVersion(rows)
  <2>1. caller' = [caller EXCEPT ![c] = Store!Rejected(r)]
    BY <1>3 DEF Store!Select
  <2> QED
    BY <1>1, <2>1, RejectedStands, RequestMoves, CachesStay DEF Store!Select
<1> QED
  BY <1>2, <1>3

LEMMA InvalidateKeeps ==
  ASSUME NEW top \in Nat, BookInv(top), NEW c \in Caller,
         Store!Invalidate(c) \/ Store!AppendBuffers(c) \/ Store!AppendCounts(c)
  PROVE  BookInv(top)'
<1>1. caller[c] \in Request /\ caller[c].at \in Instance /\ Unbroken(caller[c].read, top)
  BY DEF BookInv, RequestAt, Store!Invalidate, Store!AppendBuffers, Store!AppendCounts
<1>2. caller' = [caller EXCEPT ![c] = Store!Done(caller[c], "201")]
  BY DEF Store!Invalidate, Store!AppendBuffers, Store!AppendCounts
<1>3. CachesAt(top)'
  <2>1. Unbroken({}, top)
    BY DEF Unbroken
  <2>2. CASE Store!Invalidate(c)
    BY <1>1, <2>1, <2>2 DEF Store!Invalidate, CachesAt, BookInv
  <2>3. CASE Store!AppendBuffers(c)
    BY <1>1, <2>3 DEF Store!AppendBuffers, CachesAt, BookInv
  <2>4. CASE Store!AppendCounts(c)
    BY <1>1, <2>1, <2>4 DEF Store!AppendCounts, Store!Counted, CachesAt, BookInv
  <2> QED
    BY <2>2, <2>3, <2>4
<1> QED
  BY <1>1, <1>2, <1>3, DoneStands, RequestMoves DEF Store!Invalidate, Store!AppendBuffers,
     Store!AppendCounts

LEMMA AppendSelectKeeps ==
  ASSUME NEW top \in Nat, BookInv(top), NEW c \in Caller, Store!AppendSelect(c)
  PROVE  BookInv(top)'
<1> DEFINE r == caller[c]
           q == [r EXCEPT !.pc = "append.insert", !.seen = Store!LatestVersion(rows),
                          !.code = IF durability = "async" THEN "201" ELSE "none"]
<1>1. r \in Request /\ r.at \in Instance /\ Unbroken(r.read, top) /\ r.op = "create" /\ top = 0
  BY DEF Store!AppendSelect, BookInv, RequestAt
<1>2. Store!LatestVersion(rows) = 0
  BY <1>1, StandingFacts DEF BookInv
<1>3. RequestAt(q, rows, top) /\ q.op = r.op
  BY <1>1, <1>2 DEF RequestAt, Request
<1>4. caller' = [caller EXCEPT ![c] = q]
  BY <1>1 DEF Store!AppendSelect, BookInv
<1>5. CachesAt(top)'
  <2>1. Unbroken({}, top)
    BY DEF Unbroken
  <2>2. /\ snapshots' = snapshots \/ snapshots' = [snapshots EXCEPT ![r.at] = {}]
        /\ versions' = versions \/ versions' = [versions EXCEPT ![r.at] = @ + 1]
        /\ buffered' = buffered
    BY DEF Store!AppendSelect, Store!Counted
  <2>3. /\ snapshots \in [Instance -> SUBSET Nat] /\ versions \in [Instance -> Nat]
        /\ buffered \in [Instance -> Nat] /\ \A i \in Instance : Unbroken(snapshots[i], top)
    BY DEF BookInv
  <2>4. snapshots' \in [Instance -> SUBSET Nat] /\ \A i \in Instance : Unbroken(snapshots'[i], top)
    BY <1>1, <2>1, <2>2, <2>3
  <2>5. versions' \in [Instance -> Nat]
    BY <1>1, <2>2, <2>3
  <2> QED
    BY <2>2, <2>3, <2>4, <2>5 DEF CachesAt
<1> QED
  BY <1>3, <1>4, <1>5, RequestMoves DEF Store!AppendSelect

\* A commit raises the highest version by one, or is the first; a request in
\* flight then has a rival, and is where it was.
Marked(r, q) == q = r \/ q = [r EXCEPT !.rival = TRUE]

LEMMA RivalsStand ==
  ASSUME NEW top \in Nat, BookInv(top), NEW c \in Caller, NEW q \in Request,
         caller' = Store!RivalsOf(c, [caller EXCEPT ![c] = q])
  PROVE  /\ caller' \in [Caller -> Request] /\ caller'[c] = q
         /\ \A d \in Caller : d # c => Marked(caller[d], caller'[d])
<1> DEFINE next == [caller EXCEPT ![c] = q]
<1>1. \A r \in Request : [r EXCEPT !.rival = TRUE] \in Request
  BY DEF Request
<1>2. next \in [Caller -> Request] /\ next[c] = q /\ \A d \in Caller : d # c => next[d] = caller[d]
  BY DEF BookInv
<1>3. caller' = Store!RivalsOf(c, next)
  OBVIOUS
<1> HIDE DEF next
<1> QED
  BY <1>1, <1>2, <1>3 DEF Store!RivalsOf, Marked

LEMMA MarkedFacts ==
  ASSUME NEW r \in Request, NEW q, Marked(r, q)
  PROVE  /\ q \in Request /\ q.op = r.op /\ q.pc = r.pc /\ q.at = r.at /\ q.read = r.read
         /\ q.code = r.code /\ (r.rival => q.rival)
         /\ q.expected = r.expected /\ q.seen = r.seen
BY DEF Marked, Request

LEMMA MarkedStands ==
  ASSUME NEW top \in Nat, NEW table, NEW r \in Request, NEW q, Marked(r, q),
         RequestAt(r, table, top)
  PROVE  RequestAt(q, table, top)
BY MarkedFacts DEF RequestAt

\* The next version is inserted.
LEMMA CommitKeeps ==
  ASSUME NEW top \in Nat, NEW new \in Nat, new = top + 1, BookInv(top),
         NEW c \in Caller, NEW q,
         caller[c].seen = top, new \notin rows,
         RequestAt(q, rows \cup {new}, new), q.op = caller[c].op,
         rows' = rows \cup {new},
         caller' \in [Caller -> Request], caller'[c] = q,
         \A d \in Caller : d # c => Marked(caller[d], caller'[d]),
         \/ rows # {}
         \/ top = 0 /\ caller[c].op = "create",
         \A w \in commits' : w.saw = 1 .. w.version - 1,
         UNCHANGED <<dialect, durability, snapshots, versions, buffered>>
  PROVE  BookInv(new)'
<1>1. /\ caller' \in [Caller -> Request] /\ caller'[c] = q
      /\ \A d \in Caller : d # c => Marked(caller[d], caller'[d])
  OBVIOUS
<1>2. \A d \in Caller : caller'[d].op = caller[d].op
  BY <1>1, MarkedFacts DEF BookInv
<1>3. Standing(rows', new)
  <2>1. CASE rows = {}
    <3>1. rows' = new .. new /\ new \in 1 .. new
      BY <2>1
    <3> QED
      BY <3>1 DEF Standing
  <2>2. CASE rows # {}
    <3>1. PICK a \in 1 .. top : rows = a .. top
      BY <2>2 DEF BookInv, Standing
    <3>2. rows' = a .. new /\ a \in 1 .. new
      BY <3>1
    <3> QED
      BY <3>2 DEF Standing
  <2> QED
    BY <2>1, <2>2
<1>4. \A d \in Caller : RequestAt(caller'[d], rows', new)
  <2> SUFFICES ASSUME NEW d \in Caller, d # c PROVE RequestAt(caller[d], rows', new)
    <3>1. RequestAt(caller'[c], rows', new)
      BY <1>1
    <3>2. ASSUME NEW d \in Caller, d # c, RequestAt(caller[d], rows', new)
          PROVE  RequestAt(caller'[d], rows', new)
      <4>1. caller[d] \in Request
        BY DEF BookInv
      <4>2. Marked(caller[d], caller'[d])
        BY <1>1, <3>2
      <4> QED
        BY <3>2, <4>1, <4>2, MarkedStands
    <3> QED
      BY <3>1, <3>2
  <2>1. caller[d] \in Request /\ RequestAt(caller[d], rows, top)
    BY DEF BookInv
  <2>2. Unbroken(caller[d].read, new)
    BY <2>1, UnbrokenStays DEF RequestAt
  <2>3. caller[d].pc \notin {"append", "append.insert"}
    <3>1. CASE rows # {}
      BY <2>1, <3>1 DEF RequestAt, BookInv, Standing
    <3>2. CASE caller[c].op = "create"
      BY <2>1, <3>2 DEF RequestAt, BookInv, OneOf
    <3> QED
      BY <3>1, <3>2
  <2>4. caller[d].pc = "delete.rows" =>
          \/ caller[d].read = {} \/ rows' = {}
          \/ \E a, b \in 1 .. new : a <= b /\ caller[d].read = a .. b /\ rows' = a .. new
    <3> SUFFICES ASSUME caller[d].pc = "delete.rows", caller[d].read # {}, rows # {}
                 PROVE  \E a, b \in 1 .. new : a <= b /\ caller[d].read = a .. b /\ rows' = a .. new
      <4>1. top = 0 => caller[d].read = {}
        BY <2>1 DEF RequestAt, Unbroken
      <4> QED
        BY <4>1
    <3>1. PICK a \in 1 .. top, b \in 1 .. top : a <= b /\ caller[d].read = a .. b /\ rows = a .. top
      BY <2>1 DEF RequestAt
    <3>2. rows' = a .. new /\ a \in 1 .. new /\ b \in 1 .. new
      BY <3>1
    <3> QED
      BY <3>1, <3>2
  <2> QED
    BY <2>1, <2>2, <2>3, <2>4 DEF RequestAt
<1>5. \A i \in Instance : Unbroken(snapshots[i], new)
  BY UnbrokenStays DEF BookInv
<1>6. \E d \in Caller : caller'[d].op = "create"
  <2>1. rows # {} => top # 0
    BY DEF BookInv, Standing
  <2> QED
    BY <1>2, <2>1 DEF BookInv
<1>7. OneOf("create")' /\ OneOf("delete")'
  <2>1. OneOf("create") /\ OneOf("delete")
    BY DEF BookInv
  <2> QED
    BY <1>2, <2>1 DEF OneOf
<1> QED
  BY <1>1, <1>3, <1>4, <1>5, <1>6, <1>7 DEF BookInv

LEMMA InsertKeeps ==
  ASSUME NEW top \in Nat, BookInv(top), NEW c \in Caller, Store!Insert(c)
  PROVE  IF rows' = rows THEN BookInv(top)' ELSE BookInv(top + 1)'
<1> DEFINE r == caller[c]
           next == r.seen + 1
           q == [r EXCEPT !.pc = "invalidate"]
<1>1. /\ r \in Request /\ r.at \in Instance /\ Unbroken(r.read, top)
      /\ r.seen \in rows /\ r.read = 1 .. r.seen /\ r.pc = "insert" /\ r.code = "none"
  BY DEF Store!Insert, BookInv, RequestAt
<1>2. CASE next \in rows
  <2>1. caller' = [caller EXCEPT ![c] = Store!Rejected(r)] /\ UNCHANGED <<rows, commits>>
    BY <1>2 DEF Store!Insert
  <2> QED
    BY <1>1, <2>1, RejectedStands, RequestMoves, CachesStay DEF Store!Insert
<1>3. CASE next \notin rows
  <2>1. PICK a \in 1 .. top : rows = a .. top
    BY <1>1 DEF BookInv, Standing
  <2>2. r.seen = top
    BY <1>1, <1>3, <2>1
  <2>3. rows' = rows \cup {top + 1} /\ commits' = commits \cup {[version |-> top + 1, saw |-> r.read]}
        /\ caller' = Store!RivalsOf(c, [caller EXCEPT ![c].pc = "invalidate"])
    BY <1>3, <2>2 DEF Store!Insert
  <2>4. [caller EXCEPT ![c].pc = "invalidate"] = [caller EXCEPT ![c] = q]
    BY DEF BookInv
  <2>5. Unbroken(r.read, top + 1)
    BY <1>1, UnbrokenStays
  <2>6. RequestAt(q, rows \cup {top + 1}, top + 1) /\ q.op = r.op
    BY <1>1, <2>5 DEF RequestAt, Request
  <2>7. \A w \in commits' : w.saw = 1 .. w.version - 1
    BY <1>1, <2>2, <2>3 DEF BookInv
  <2>8. top + 1 \notin rows /\ rows # {}
    BY <2>1
  <2>9. /\ caller' \in [Caller -> Request] /\ caller'[c] = q
        /\ \A d \in Caller : d # c => Marked(caller[d], caller'[d])
    <3>1. q \in Request
      BY <2>6 DEF RequestAt
    <3>2. caller' = Store!RivalsOf(c, [caller EXCEPT ![c] = q])
      BY <2>3, <2>4
    <3> HIDE DEF q, r, next
    <3> QED
      BY <3>1, <3>2, RivalsStand
  <2>10. UNCHANGED <<dialect, durability, snapshots, versions, buffered>>
    BY DEF Store!Insert
  <2>11. caller[c].seen = top /\ q.op = caller[c].op
    BY <1>1, <2>2, <2>6
  <2> HIDE DEF q, r, next
  <2>12. \A new \in Nat : new = top + 1 => BookInv(new)'
    BY <2>3, <2>6, <2>7, <2>8, <2>9, <2>10, <2>11, CommitKeeps
  <2>13. rows' # rows
    BY <2>3, <2>8
  <2> QED
    BY <2>12, <2>13
<1> QED
  BY <1>2, <1>3

LEMMA AppendInsertKeeps ==
  ASSUME NEW top \in Nat, BookInv(top), NEW c \in Caller, Store!AppendInsert(c)
  PROVE  BookInv(top + 1)'
<1> DEFINE r == caller[c]
           q == IF durability = "async" THEN Store!Done(r, "201") ELSE [r EXCEPT !.pc = "count"]
<1>1. /\ r \in Request /\ r.at \in Instance /\ Unbroken(r.read, top)
      /\ r.op = "create" /\ top = 0 /\ r.seen = top /\ r.pc = "append.insert"
  BY DEF Store!AppendInsert, BookInv, RequestAt
<1>2. rows = {}
  BY <1>1 DEF BookInv, Standing
<1>3. /\ rows' = rows \cup {top + 1} /\ caller' = Store!RivalsOf(c, [caller EXCEPT ![c] = q])
      /\ commits' = commits \cup {[version |-> top + 1, saw |-> rows]}
  BY <1>1 DEF Store!AppendInsert
<1>4. Unbroken(r.read, top + 1)
  BY <1>1, UnbrokenStays
<1>5. RequestAt(q, rows \cup {top + 1}, top + 1) /\ q.op = r.op
  <2>1. RequestAt([r EXCEPT !.pc = "count"], rows \cup {top + 1}, top + 1)
        /\ [r EXCEPT !.pc = "count"].op = r.op
    <3> DEFINE p == [r EXCEPT !.pc = "count"]
    <3>1. /\ p \in Request /\ p.pc = "count" /\ p.op = r.op /\ p.at = r.at
          /\ p.read = r.read /\ p.code = r.code
      BY <1>1 DEF Request
    <3>2. r.code \in {"none", "201"}
      BY <1>1 DEF BookInv, RequestAt
    <3> HIDE DEF p
    <3>3. RequestAt(p, rows \cup {top + 1}, top + 1)
      BY <1>1, <1>4, <3>1, <3>2 DEF RequestAt
    <3> QED
      BY <3>1, <3>3 DEF p
  <2>2. top + 1 \in Nat
    OBVIOUS
  <2>3. RequestAt(Store!Done(r, "201"), rows \cup {top + 1}, top + 1) /\ Store!Done(r, "201").op = r.op
    BY <1>1, <1>4, <2>2, DoneStands
  <2> QED
    BY <2>1, <2>3
<1>6. \A w \in commits' : w.saw = 1 .. w.version - 1
  <2>1. \A w \in commits : w.saw = 1 .. w.version - 1
    BY DEF BookInv
  <2>2. rows = 1 .. (top + 1) - 1
    BY <1>1, <1>2
  <2> QED
    BY <1>3, <2>1, <2>2
<1>7. UNCHANGED <<dialect, durability, snapshots, versions, buffered>>
  BY DEF Store!AppendInsert
<1>8. caller[c].seen = top /\ q.op = caller[c].op
      /\ top = 0 /\ caller[c].op = "create" /\ top + 1 \notin rows
  BY <1>1, <1>2, <1>5
<1> HIDE DEF q, r
<1>9. /\ caller' \in [Caller -> Request] /\ caller'[c] = q
      /\ \A d \in Caller : d # c => Marked(caller[d], caller'[d])
  <2>1. q \in Request
    BY <1>5 DEF RequestAt
  <2> QED
    BY <1>3, <2>1, RivalsStand
<1>10. \A new \in Nat : new = top + 1 => BookInv(new)'
  BY <1>3, <1>5, <1>6, <1>7, <1>8, <1>9, CommitKeeps
<1> QED
  BY <1>10

-----------------------------------------------------------------------------
(* Deletes.                                                                *)

LEMMA DeleteStartsKeeps ==
  ASSUME NEW top \in Nat, BookInv(top), NEW c \in Caller, Store!DeleteStarts(c)
  PROVE  BookInv(top)'
<1> DEFINE r == caller[c]
           q == [r EXCEPT !.pc = "delete.rows", !.read = rows]
<1>1. r \in Request /\ r.at \in Instance /\ r.op = "delete" /\ r.code = "none"
  BY DEF Store!DeleteStarts, BookInv, RequestAt
<1>2. rows \in SUBSET Nat /\ Unbroken(rows, top)
  BY StandingFacts DEF BookInv
<1>3. rows = {} \/ \E a, b \in 1 .. top : a <= b /\ rows = a .. b /\ rows = a .. top
  BY DEF BookInv, Standing
<1>4. RequestAt(q, rows, top) /\ q.op = r.op
  BY <1>1, <1>2, <1>3 DEF RequestAt, Request
<1>5. caller' = [caller EXCEPT ![c] = q]
  BY DEF Store!DeleteStarts, BookInv
<1> QED
  BY <1>4, <1>5, RequestMoves, CachesStay DEF Store!DeleteStarts

\* What is left is what was committed since the delete began, and nobody is
\* about to insert.
LEMMA DeleteCommitsKeeps ==
  ASSUME NEW top \in Nat, BookInv(top), NEW c \in Caller, Store!DeleteCommits(c)
  PROVE  BookInv(top)'
<1> DEFINE r == caller[c]
           q == Store!Done(r, "200")
<1>1. /\ r \in Request /\ r.at \in Instance /\ Unbroken(r.read, top) /\ r.op = "delete"
      /\ r.pc = "delete.rows"
      /\ \/ r.read = {} \/ rows = {}
         \/ \E a, b \in 1 .. top : a <= b /\ r.read = a .. b /\ rows = a .. top
  BY DEF Store!DeleteCommits, BookInv, RequestAt
<1>2. Standing(rows', top)
  <2>1. CASE rows' = {}
    BY <2>1 DEF Standing
  <2>2. CASE r.read = {} \/ rows = {}
    BY <2>2, <2>1 DEF Store!DeleteCommits, BookInv, Standing
  <2>3. ASSUME NEW a \in 1 .. top, NEW b \in 1 .. top, a <= b, r.read = a .. b, rows = a .. top,
               rows' # {}
        PROVE  Standing(rows', top)
    <3>1. rows' = (b + 1) .. top
      BY <2>3 DEF Store!DeleteCommits
    <3>2. b + 1 \in 1 .. top
      BY <2>3, <3>1
    <3> QED
      BY <3>1, <3>2 DEF Standing
  <2> QED
    BY <1>1, <2>1, <2>2, <2>3
<1>3. RequestAt(q, rows', top) /\ q \in Request /\ q.op = r.op
  <2>1. \A table : RequestAt(q, table, top) /\ q.op = r.op
    BY <1>1, DoneStands
  <2>2. RequestAt(q, rows', top)
    BY <2>1
  <2> QED
    BY <2>1, <2>2 DEF RequestAt
<1>4. /\ caller' \in [Caller -> Request] /\ caller'[c] = q
      /\ \A d \in Caller : d # c => Marked(caller[d], caller'[d])
  <2>1. caller' = Store!RivalsOf(c, [caller EXCEPT ![c] = q])
    BY DEF Store!DeleteCommits
  <2> HIDE DEF q, r
  <2> QED
    BY <1>3, <2>1, RivalsStand
<1>5. \A d \in Caller : caller'[d].op = caller[d].op
  BY <1>1, <1>3, <1>4, MarkedFacts DEF BookInv
<1>6. \A d \in Caller : RequestAt(caller'[d], rows', top)
  <2> SUFFICES ASSUME NEW d \in Caller, d # c PROVE RequestAt(caller'[d], rows', top)
    BY <1>3, <1>4
  <2>1. caller[d] \in Request /\ RequestAt(caller[d], rows, top) /\ ~Store!InTransaction(d)
    BY DEF BookInv, Store!DeleteCommits
  <2>2. caller[d].pc # "delete.rows"
    BY <1>1, <2>1 DEF BookInv, OneOf, RequestAt
  <2>3. RequestAt(caller[d], rows', top)
    BY <2>1, <2>2 DEF RequestAt, Store!InTransaction
  <2>4. Marked(caller[d], caller'[d])
    BY <1>4
  <2> QED
    BY <2>1, <2>3, <2>4, MarkedStands
<1>7. OneOf("create")' /\ OneOf("delete")'
  <2>1. OneOf("create") /\ OneOf("delete")
    BY DEF BookInv
  <2> QED
    BY <1>5, <2>1 DEF OneOf
<1>8. top # 0 => \E d \in Caller : caller'[d].op = "create"
  BY <1>5 DEF BookInv
<1> QED
  BY <1>2, <1>4, <1>6, <1>7, <1>8 DEF BookInv, Store!DeleteCommits

-----------------------------------------------------------------------------
(* SQLite: one process, whose queries answer at once.                      *)

OneProcess ==
  \A c, d \in Caller : caller[c].at # "none" /\ caller[d].at # "none" => caller[c].at = caller[d].at

\* Who has a snapshot has been asked for it.
Owned == \A i \in Instance : snapshots[i] # {} => \E c \in Caller : caller[c].at = i

\* Somebody is about to drop the snapshot.
Stale(i) == \E c \in Caller : caller[c].pc = "invalidate" /\ caller[c].at = i

\* No commit has crossed a request without a rival: what it holds is the table's.
Undisturbed(c, top) ==
  ~caller[c].rival /\ caller[c].pc \in {"get", "select", "insert"} =>
    /\ ~Store!Unsettled
    /\ caller[c].pc = "select" => caller[c].read = rows
    /\ caller[c].pc = "insert" => caller[c].seen = top

Refused(c) == caller[c].code \in {"409", "dropped"}

SqliteInv(top) ==
  /\ \A c \in Caller : caller[c].pc # "install"
  /\ OneProcess /\ Owned
  /\ ~Store!Deleted =>
       /\ rows = 1 .. top
       /\ \A i \in Instance : snapshots[i] = {} \/ snapshots[i] = rows \/ Stale(i)
       /\ \A c \in Caller : Undisturbed(c, top) /\ (Refused(c) => caller[c].rival)

\* An answer is given before the commit in durability async only.
EarlyInv ==
  \A c \in Caller :
    /\ caller[c].pc = "count" => caller[c].code = "none"
    /\ caller[c].pc = "append.insert" /\ caller[c].code # "none" => durability = "async"

LEMMA SqliteInvInit == Store!Init => SqliteInv(0) /\ EarlyInv
<1> SUFFICES ASSUME Store!Init PROVE SqliteInv(0) /\ EarlyInv
  OBVIOUS
<1>1. \A c \in Caller : caller[c].pc = "idle" /\ caller[c].at = "none" /\ caller[c].code = "none"
  BY DEF Store!Init, Store!NoRequest
<1>2. rows = 1 .. 0 /\ \A i \in Instance : snapshots[i] = {}
  BY DEF Store!Init
<1> QED
  BY <1>1, <1>2 DEF SqliteInv, EarlyInv, OneProcess, Owned, Undisturbed, Refused

\* A request moves on, and neither commits nor drops a snapshot.
LEMMA SqliteMoves ==
  ASSUME Store!RequestsKnown, NEW top \in Nat, BookInv(top), SqliteInv(top),
         NEW c \in Caller, NEW q \in Request,
         caller' = [caller EXCEPT ![c] = q], UNCHANGED rows,
         caller[c].pc \notin {"done", "invalidate", "count"},
         q.pc \notin {"install", "invalidate", "count"},
         \A d \in Caller : caller[d].at \in {"none", q.at},
         caller[c].at \in {"none", q.at},
         \A i \in Instance : snapshots'[i] # {} => snapshots[i] # {} \/ i = q.at,
         ~Store!Deleted => /\ \A i \in Instance : snapshots'[i] \in {{}, rows, snapshots[i]}
                           /\ q.code \in {"409", "dropped"} => q.rival
                           /\ ~q.rival /\ q.pc \in {"get", "select", "insert"} =>
                                /\ ~Store!Unsettled
                                /\ q.pc = "select" => q.read = rows
                                /\ q.pc = "insert" => q.seen = top
  PROVE  SqliteInv(top)'
<1>1. caller'[c] = q /\ \A d \in Caller : d # c => caller'[d] = caller[d]
  BY DEF BookInv
<1>2. (\A d \in Caller : caller'[d].pc # "install") /\ OneProcess'
  BY <1>1 DEF SqliteInv, OneProcess
<1>3. Owned'
  <2> SUFFICES ASSUME NEW i \in Instance, snapshots'[i] # {} PROVE \E d \in Caller : caller'[d].at = i
    BY DEF Owned
  <2>1. CASE i = q.at
    BY <1>1, <2>1
  <2>2. CASE i # q.at
    <3>1. PICK d \in Caller : caller[d].at = i
      BY <2>2 DEF SqliteInv, Owned
    <3>2. d # c
      BY <2>2, <3>1 DEF Store!RequestsKnown
    <3> QED
      BY <1>1, <3>1, <3>2
  <2> QED
    BY <2>1, <2>2
<1>4. SUFFICES ASSUME ~Store!Deleted'
               PROVE  /\ rows' = 1 .. top
                      /\ \A i \in Instance : snapshots'[i] = {} \/ snapshots'[i] = rows' \/ Stale(i)'
                      /\ \A d \in Caller : Undisturbed(d, top)' /\ (Refused(d)' => caller'[d].rival)
  BY <1>2, <1>3 DEF SqliteInv
<1>5. ~Store!Deleted
  BY <1>1, <1>4 DEF Store!Deleted
<1>6. \A i \in Instance : Stale(i) => Stale(i)'
  BY <1>1 DEF Stale
<1>7. ~Store!Unsettled => ~Store!Unsettled'
  BY <1>1 DEF Store!Unsettled
<1>8. rows' = 1 .. top
  BY <1>5 DEF SqliteInv
<1>9. \A i \in Instance : snapshots'[i] = {} \/ snapshots'[i] = rows' \/ Stale(i)'
  BY <1>5, <1>6 DEF SqliteInv
<1>10. ASSUME NEW d \in Caller, d # c
       PROVE  Undisturbed(d, top)' /\ (Refused(d)' => caller'[d].rival)
  BY <1>1, <1>5, <1>7, <1>10 DEF SqliteInv, Undisturbed, Refused
<1>11. Undisturbed(c, top)' /\ (Refused(c)' => caller'[c].rival)
  BY <1>1, <1>5, <1>7 DEF Undisturbed, Refused
<1> QED
  BY <1>8, <1>9, <1>10, <1>11

\* A snapshot is dropped: there is no other.
LEMMA SqliteDrops ==
  ASSUME Store!RequestsKnown, NEW top \in Nat, BookInv(top), SqliteInv(top), NEW c \in Caller,
         caller[c].pc \in {"invalidate", "count"},
         caller' = [caller EXCEPT ![c] = Store!Done(@, "201")],
         snapshots' = [snapshots EXCEPT ![caller[c].at] = {}], UNCHANGED rows
  PROVE  SqliteInv(top)'
<1> DEFINE q == Store!Done(caller[c], "201")
<1>1. /\ caller'[c] = q /\ \A d \in Caller : d # c => caller'[d] = caller[d]
      /\ q.at = caller[c].at /\ q.op = caller[c].op /\ q.pc = "done" /\ q.code = "201"
      /\ caller[c].at \in Instance
  BY DEF BookInv, RequestAt, Store!Done, Request
<1> HIDE DEF q
<1>2. \A i \in Instance : snapshots'[i] = {}
  <2>1. "none" \notin Instance
    BY DEF Store!RequestsKnown
  <2>2. \A i \in Instance : snapshots[i] # {} => i = caller[c].at
    <3> SUFFICES ASSUME NEW i \in Instance, snapshots[i] # {} PROVE i = caller[c].at
      OBVIOUS
    <3>1. PICK d \in Caller : caller[d].at = i
      BY DEF SqliteInv, Owned
    <3>2. OneProcess
      BY DEF SqliteInv
    <3> QED
      BY <1>1, <2>1, <3>1, <3>2 DEF OneProcess
  <2> QED
    BY <1>1, <2>2 DEF BookInv
<1>3. (\A d \in Caller : caller'[d].pc # "install") /\ OneProcess' /\ Owned'
  BY <1>1, <1>2 DEF SqliteInv, OneProcess, Owned
<1>4. Store!Deleted => Store!Deleted'
  BY <1>1 DEF Store!Deleted
<1>5. ~Store!Deleted => \A d \in Caller : Undisturbed(d, top)' /\ (Refused(d)' => caller'[d].rival)
  <2> SUFFICES ASSUME ~Store!Deleted, NEW d \in Caller PROVE Undisturbed(d, top)' /\ (Refused(d)' => caller'[d].rival)
    OBVIOUS
  <2>1. Store!Unsettled
    BY DEF Store!Unsettled
  <2> QED
    BY <1>1, <2>1 DEF SqliteInv, Undisturbed, Refused
<1> QED
  BY <1>2, <1>3, <1>4, <1>5 DEF SqliteInv

\* A version is committed: everybody in flight has a rival, and the snapshot is
\* about to be dropped.
LEMMA SqliteCommits ==
  ASSUME Store!RequestsKnown, NEW top \in Nat, NEW new \in Nat, new = top + 1,
         BookInv(top), SqliteInv(top), NEW c \in Caller, NEW q \in Request,
         caller' = Store!RivalsOf(c, [caller EXCEPT ![c] = q]),
         ~Store!Deleted' => rows' = rows \cup {new},
         snapshots' = snapshots, caller[c].pc \notin {"idle", "done"}, q.at = caller[c].at,
         q.pc \in {"invalidate", "count", "done"}, q.code \in {"none", "200", "201"},
         \/ q.pc = "invalidate"
         \/ /\ q.op = "delete"
            /\ q.pc = "done"
         \/ \A i \in Instance : snapshots[i] = {}
  PROVE  SqliteInv(new)'
<1>1. /\ caller'[c] = q
      /\ \A d \in Caller : d # c => Marked(caller[d], caller'[d])
  BY RivalsStand
<1>2. \A d \in Caller : d # c /\ caller[d].pc \notin {"idle", "done"} => caller'[d].rival
  <2> SUFFICES ASSUME NEW d \in Caller, d # c, caller[d].pc \notin {"idle", "done"}
               PROVE  caller'[d].rival
    OBVIOUS
  <2>1. caller'[d] = [caller[d] EXCEPT !.rival = TRUE]
    BY DEF Store!RivalsOf, BookInv
  <2>2. caller[d] \in Request
    BY DEF BookInv
  <2> QED
    BY <2>1, <2>2 DEF Request
<1>3. \A d \in Caller : d # c => /\ caller'[d].pc = caller[d].pc /\ caller'[d].at = caller[d].at
                                 /\ caller'[d].op = caller[d].op /\ caller'[d].code = caller[d].code
                                 /\ caller[d].rival => caller'[d].rival
  <2> SUFFICES ASSUME NEW d \in Caller, d # c
               PROVE  /\ caller'[d].pc = caller[d].pc /\ caller'[d].at = caller[d].at
                      /\ caller'[d].op = caller[d].op /\ caller'[d].code = caller[d].code
                      /\ caller[d].rival => caller'[d].rival
    OBVIOUS
  <2>1. caller[d] \in Request /\ Marked(caller[d], caller'[d])
    BY <1>1 DEF BookInv
  <2> QED
    BY <2>1, MarkedFacts
<1>4. \A d \in Caller : caller'[d].at = caller[d].at
  BY <1>1, <1>3
<1>5. (\A d \in Caller : caller'[d].pc # "install") /\ OneProcess' /\ Owned'
  <2>1. \A d \in Caller : caller'[d].pc # "install"
    BY <1>1, <1>3 DEF SqliteInv
  <2>2. OneProcess'
    <3> SUFFICES ASSUME NEW a \in Caller, NEW b \in Caller,
                        caller'[a].at # "none", caller'[b].at # "none"
                 PROVE  caller'[a].at = caller'[b].at
      BY DEF OneProcess
    <3>1. caller'[a].at = caller[a].at /\ caller'[b].at = caller[b].at
      BY <1>4
    <3>2. OneProcess
      BY DEF SqliteInv
    <3> QED
      BY <3>1, <3>2 DEF OneProcess
  <2>3. Owned'
    <3> SUFFICES ASSUME NEW i \in Instance, snapshots[i] # {} PROVE \E d \in Caller : caller'[d].at = i
      BY DEF Owned
    <3>1. PICK d \in Caller : caller[d].at = i
      BY DEF SqliteInv, Owned
    <3> QED
      BY <1>4, <3>1
  <2> QED
    BY <2>1, <2>2, <2>3
<1> SUFFICES ASSUME ~Store!Deleted'
             PROVE  /\ rows' = 1 .. new
                    /\ \A i \in Instance : snapshots'[i] = {} \/ snapshots'[i] = rows' \/ Stale(i)'
                    /\ \A d \in Caller : Undisturbed(d, new)' /\ (Refused(d)' => caller'[d].rival)
  BY <1>5 DEF SqliteInv
<1>6. ~Store!Deleted
  BY <1>1, <1>3 DEF Store!Deleted
<1>7. rows' = 1 .. new
  <2>1. rows' = (1 .. top) \cup {new}
    BY <1>6 DEF SqliteInv
  <2> QED
    BY <2>1
<1>8. ASSUME NEW i \in Instance, snapshots[i] # {} PROVE Stale(i)'
  <2>1. q.pc = "invalidate"
    BY <1>1, <1>8 DEF Store!Deleted
  <2>2. PICK d \in Caller : caller[d].at = i
    BY <1>8 DEF SqliteInv, Owned
  <2>3. caller[c].at \in Instance /\ "none" \notin Instance
    BY DEF Store!RequestsKnown, BookInv, RequestAt
  <2>4. caller[c].at = i
    BY <2>2, <2>3 DEF SqliteInv, OneProcess
  <2> QED
    BY <1>1, <2>1, <2>4 DEF Stale
<1>9. \A d \in Caller : Undisturbed(d, new)' /\ (Refused(d)' => caller'[d].rival)
  BY <1>1, <1>2, <1>3, <1>6 DEF SqliteInv, Undisturbed, Refused
<1> QED
  BY <1>7, <1>8, <1>9

\* On SQLite a request that no commit crossed decides from the table.
LEMMA SqliteReads ==
  ASSUME Store!RequestsKnown, NEW top \in Nat, BookInv(top), SqliteInv(top), Store!Serialized,
         NEW c \in Caller, Store!GetHit(c) \/ Store!GetSync(c) \/ Store!GetQuery(c) \/ Store!GetInstall(c)
  PROVE  SqliteInv(top)'
<1> DEFINE r == caller[c]
           i == r.at
<1>1. r \in Request /\ i \in Instance /\ r.code = "none" /\ r.pc = "get"
  BY DEF Store!GetHit, Store!GetSync, Store!GetQuery, Store!GetInstall, BookInv, RequestAt,
     SqliteInv
<1>2. PICK set : /\ caller' = [caller EXCEPT ![c] = Store!Got(r, set)]
                 /\ \A j \in Instance : snapshots'[j] = snapshots[j] \/ j = i
                 /\ snapshots'[i] \in {{}, rows, snapshots[i]} /\ rows' = rows
                 /\ Unbroken(set, top)
                 /\ ~Store!Deleted => set = {} \/ set = rows \/ Stale(i)
  <2>1. CASE Store!GetHit(c)
    <3>1. caller' = [caller EXCEPT ![c] = Store!Got(r, snapshots[i])] /\ UNCHANGED <<rows, snapshots>>
      BY <2>1 DEF Store!GetHit
    <3>2. Unbroken(snapshots[i], top)
      BY <1>1 DEF BookInv
    <3>3. ~Store!Deleted => snapshots[i] = {} \/ snapshots[i] = rows \/ Stale(i)
      BY <1>1 DEF SqliteInv
    <3> QED
      BY <3>1, <3>2, <3>3
  <2>2. CASE Store!GetSync(c)
    <3> DEFINE got == IF rows = {} THEN {} ELSE snapshots'[i]
    <3>1. caller' = [caller EXCEPT ![c] = Store!Got(r, got)] /\ rows' = rows
          /\ snapshots' = IF rows = {} \/ Store!Cardinality(snapshots[i]) = Store!Cardinality(rows)
                          THEN snapshots ELSE [snapshots EXCEPT ![i] = rows]
      BY <2>2 DEF Store!GetSync, Store!Install
    <3>2. \A j \in Instance : snapshots'[j] = snapshots[j] \/ j = i
      BY <1>1, <3>1 DEF BookInv
    <3>3. snapshots'[i] \in {rows, snapshots[i]}
      BY <1>1, <3>1 DEF BookInv
    <3>4. Unbroken(got, top)
      <4>1. Unbroken({}, top)
        BY DEF Unbroken
      <4>2. Unbroken(rows, top)
        BY StandingFacts DEF BookInv
      <4>3. Unbroken(snapshots[i], top)
        BY <1>1 DEF BookInv
      <4> QED
        BY <3>3, <4>1, <4>2, <4>3
    <3>5. ~Store!Deleted => got = {} \/ got = rows \/ Stale(i)
      BY <1>1, <3>3 DEF SqliteInv
    <3> HIDE DEF got
    <3> QED
      BY <3>1, <3>2, <3>3, <3>4, <3>5
  <2>3. ~Store!GetQuery(c) /\ ~Store!GetInstall(c)
    BY <1>1 DEF Store!GetQuery, Store!GetInstall
  <2> QED
    BY <2>1, <2>2, <2>3
<1> DEFINE q == Store!Got(r, set)
<1>3. /\ q \in Request /\ q.at = i /\ q.rival = r.rival /\ q.pc \in {"done", "select"}
      /\ q.code \in {"none", "200", "404", "skipped"}
      /\ q.pc = "select" => set # {} /\ q.read = set
  <2> DEFINE got == [r EXCEPT !.read = set, !.expected = Store!Cardinality(set)]
  <2>1. set \in SUBSET Nat /\ Store!Cardinality(set) \in Nat
    BY <1>2, UnbrokenFacts
  <2>2. got \in Request /\ got.at = i /\ got.rival = r.rival /\ got.code = "none" /\ got.read = set
    BY <1>1, <2>1 DEF Request
  <2>3. q = IF set = {} THEN Store!Done(got, IF r.op = "mirror" THEN "skipped" ELSE "404")
            ELSE IF r.op = "read" THEN Store!Done(got, "200")
            ELSE [got EXCEPT !.pc = "select"]
    BY DEF Store!Got
  <2> HIDE DEF got, q
  <2>4. \A code \in {"200", "404", "skipped"} :
          /\ Store!Done(got, code) \in Request /\ Store!Done(got, code).at = i /\ Store!Done(got, code).rival = r.rival
          /\ Store!Done(got, code).pc = "done" /\ Store!Done(got, code).code = code
    BY <2>2 DEF Store!Done, Request
  <2>5. /\ [got EXCEPT !.pc = "select"] \in Request /\ [got EXCEPT !.pc = "select"].at = i
        /\ [got EXCEPT !.pc = "select"].rival = r.rival /\ [got EXCEPT !.pc = "select"].pc = "select"
        /\ [got EXCEPT !.pc = "select"].code = "none" /\ [got EXCEPT !.pc = "select"].read = set
    BY <2>2 DEF Request
  <2> QED
    BY <2>3, <2>4, <2>5
<1>4. ~Store!Deleted /\ ~r.rival => ~Store!Unsettled
  BY <1>1 DEF SqliteInv, Undisturbed
<1>5. Stale(i) => Store!Unsettled
  BY DEF Stale, Store!Unsettled
<1>6. \A d \in Caller : caller[d].at \in {"none", i}
  BY <1>1 DEF SqliteInv, OneProcess, Store!RequestsKnown
<1> HIDE DEF q
<1>7. ~Store!Deleted => /\ \A j \in Instance : snapshots'[j] \in {{}, rows, snapshots[j]}
                        /\ q.code \in {"409", "dropped"} => q.rival
                        /\ ~q.rival /\ q.pc \in {"get", "select", "insert"} =>
                             /\ ~Store!Unsettled
                             /\ q.pc = "select" => q.read = rows
                             /\ q.pc = "insert" => q.seen = top
  BY <1>2, <1>3, <1>4, <1>5
<1>8. \A j \in Instance : snapshots'[j] # {} => snapshots[j] # {} \/ j = q.at
  BY <1>2, <1>3
<1>9. caller' = [caller EXCEPT ![c] = q] /\ UNCHANGED rows
  BY <1>2 DEF q
<1>10. /\ caller[c].pc \notin {"done", "invalidate", "count"}
       /\ q.pc \notin {"install", "invalidate", "count"}
       /\ \A d \in Caller : caller[d].at \in {"none", q.at}
       /\ caller[c].at \in {"none", q.at}
  BY <1>1, <1>3, <1>6
<1> HIDE DEF r
<1> QED
  BY <1>3, <1>7, <1>8, <1>9, <1>10, SqliteMoves

\* A conflict had a rival: without one, what was read is the table's length.
LEMMA SqliteRejects ==
  ASSUME Store!RequestsKnown, NEW top \in Nat, BookInv(top), SqliteInv(top),
         NEW c \in Caller, caller[c].pc \in {"select", "insert"},
         caller' = [caller EXCEPT ![c] = Store!Rejected(@)], UNCHANGED <<rows, snapshots>>,
         ~Store!Deleted => caller[c].rival
  PROVE  SqliteInv(top)'
<1> DEFINE r == caller[c]
           q == Store!Rejected(r)
<1>1. r \in Request /\ r.at \in Instance /\ r.code = "none"
  BY DEF BookInv, RequestAt
<1>2. q \in Request /\ q.at = r.at /\ q.rival = r.rival /\ q.pc \in {"done", "get"}
  BY <1>1 DEF Store!Rejected, Store!Done, Request
<1>3. \A d \in Caller : caller[d].at \in {"none", r.at}
  BY <1>1 DEF SqliteInv, OneProcess, Store!RequestsKnown
<1>4. caller' = [caller EXCEPT ![c] = q]
  OBVIOUS
<1> HIDE DEF q
<1>5. ~Store!Deleted => /\ \A i \in Instance : snapshots'[i] \in {{}, rows, snapshots[i]}
                        /\ q.code \in {"409", "dropped"} => q.rival
                        /\ ~q.rival /\ q.pc \in {"get", "select", "insert"} =>
                             /\ ~Store!Unsettled
                             /\ q.pc = "select" => q.read = rows
                             /\ q.pc = "insert" => q.seen = top
  BY <1>2
<1>6. \A j \in Instance : snapshots'[j] # {} => snapshots[j] # {} \/ j = q.at
  OBVIOUS
<1>7. /\ caller[c].pc \notin {"done", "invalidate", "count"}
      /\ q.pc \notin {"install", "invalidate", "count"}
      /\ \A d \in Caller : caller[d].at \in {"none", q.at}
      /\ caller[c].at \in {"none", q.at}
  BY <1>2, <1>3
<1> HIDE DEF r
<1> QED
  BY <1>2, <1>4, <1>5, <1>6, <1>7, SqliteMoves

LEMMA SqliteSelects ==
  ASSUME Store!RequestsKnown, NEW top \in Nat, BookInv(top), SqliteInv(top),
         NEW c \in Caller, Store!Select(c)
  PROVE  SqliteInv(top)'
<1> DEFINE r == caller[c]
           q == [r EXCEPT !.pc = "insert", !.seen = Store!LatestVersion(rows)]
<1>1. /\ r \in Request /\ r.at \in Instance /\ r.code = "none" /\ r.pc = "select" /\ r.read # {}
      /\ r.expected = Store!Cardinality(r.read) /\ Unbroken(r.read, top)
  BY DEF Store!Select, BookInv, RequestAt
<1>2. /\ Store!LatestVersion(rows) \in Nat
      /\ Store!LatestVersion(rows) = IF rows = {} THEN 0 ELSE top
  BY StandingFacts DEF BookInv
<1>3. UNCHANGED <<rows, snapshots>>
  BY DEF Store!Select
<1>4. CASE r.expected # Store!LatestVersion(rows)
  <2>1. ~Store!Deleted => r.rival
    <3> SUFFICES ASSUME ~Store!Deleted, ~r.rival PROVE FALSE
      BY <1>1 DEF Request
    <3>1. r.read = rows /\ rows = 1 .. top
      BY <1>1 DEF SqliteInv, Undisturbed
    <3>2. Store!Cardinality(1 .. top) = top
      BY FS_Interval, SameCardinality
    <3> QED
      BY <1>1, <1>2, <1>4, <3>1, <3>2
  <2>2. caller' = [caller EXCEPT ![c] = Store!Rejected(@)]
    BY <1>4 DEF Store!Select
  <2> QED
    BY <1>1, <1>3, <2>1, <2>2, SqliteRejects
<1>5. CASE r.expected = Store!LatestVersion(rows)
  <2>1. /\ q \in Request /\ q.at = r.at /\ q.rival = r.rival /\ q.pc = "insert"
        /\ q.code = "none" /\ q.seen = Store!LatestVersion(rows)
    BY <1>1, <1>2 DEF Request
  <2>2. Store!LatestVersion(rows) = top
    <3>1. Store!Cardinality(r.read) > 0
      BY <1>1, UnbrokenFacts
    <3> QED
      BY <1>1, <1>2, <1>5, <3>1
  <2>3. \A d \in Caller : caller[d].at \in {"none", r.at}
    BY <1>1 DEF SqliteInv, OneProcess, Store!RequestsKnown
  <2>4. caller' = [caller EXCEPT ![c] = q]
    BY <1>5 DEF Store!Select
  <2>5. ~Store!Deleted /\ ~r.rival => ~Store!Unsettled
    BY <1>1 DEF SqliteInv, Undisturbed
  <2> HIDE DEF q
  <2>6. ~Store!Deleted => /\ \A i \in Instance : snapshots'[i] \in {{}, rows, snapshots[i]}
                          /\ q.code \in {"409", "dropped"} => q.rival
                          /\ ~q.rival /\ q.pc \in {"get", "select", "insert"} =>
                               /\ ~Store!Unsettled
                               /\ q.pc = "select" => q.read = rows
                               /\ q.pc = "insert" => q.seen = top
    BY <1>3, <2>1, <2>2, <2>5
  <2>7. \A j \in Instance : snapshots'[j] # {} => snapshots[j] # {} \/ j = q.at
    BY <1>3
  <2>8. /\ caller[c].pc \notin {"done", "invalidate", "count"}
        /\ q.pc \notin {"install", "invalidate", "count"}
        /\ \A d \in Caller : caller[d].at \in {"none", q.at}
        /\ caller[c].at \in {"none", q.at}
    BY <1>1, <2>1, <2>3
  <2> HIDE DEF r
  <2> QED
    BY <1>3, <2>1, <2>4, <2>6, <2>7, <2>8, SqliteMoves
<1> QED
  BY <1>4, <1>5

LEMMA SqliteInserts ==
  ASSUME Store!RequestsKnown, NEW top \in Nat, BookInv(top), SqliteInv(top),
         NEW c \in Caller, Store!Insert(c)
  PROVE  IF rows' = rows THEN SqliteInv(top)' ELSE SqliteInv(top + 1)'
<1> DEFINE r == caller[c]
           q == [r EXCEPT !.pc = "invalidate"]
<1>1. /\ r \in Request /\ r.at \in Instance /\ r.code = "none" /\ r.pc = "insert"
      /\ r.seen \in rows
  BY DEF Store!Insert, BookInv, RequestAt
<1>2. PICK a \in 1 .. top : rows = a .. top
  BY <1>1 DEF BookInv, Standing
<1>3. CASE r.seen + 1 \in rows
  <2>1. caller' = [caller EXCEPT ![c] = Store!Rejected(@)] /\ UNCHANGED <<rows, snapshots>>
    BY <1>3 DEF Store!Insert
  <2>2. ~Store!Deleted => r.rival
    <3> SUFFICES ASSUME ~Store!Deleted, ~r.rival PROVE FALSE
      BY <1>1 DEF Request
    <3>1. r.seen = top
      BY <1>1 DEF SqliteInv, Undisturbed
    <3> QED
      BY <1>2, <1>3, <3>1
  <2> QED
    BY <1>1, <2>1, <2>2, SqliteRejects
<1>4. CASE r.seen + 1 \notin rows
  <2>1. r.seen = top
    BY <1>1, <1>2, <1>4
  <2>2. rows' = rows \cup {top + 1} /\ snapshots' = snapshots
        /\ caller' = Store!RivalsOf(c, [caller EXCEPT ![c].pc = "invalidate"])
    BY <1>4, <2>1 DEF Store!Insert
  <2>3. [caller EXCEPT ![c].pc = "invalidate"] = [caller EXCEPT ![c] = q]
    BY DEF BookInv
  <2>4. caller' = Store!RivalsOf(c, [caller EXCEPT ![c] = q])
    BY <2>2, <2>3
  <2>5. q \in Request /\ q.at = r.at /\ q.pc = "invalidate" /\ q.code = "none"
    BY <1>1 DEF Request
  <2>6. rows' # rows
    BY <1>2, <2>2
  <2> HIDE DEF q
  <2>7. \A new \in Nat : new = top + 1 => SqliteInv(new)'
    BY <1>1, <2>2, <2>4, <2>5, SqliteCommits
  <2> QED
    BY <2>6, <2>7
<1> QED
  BY <1>3, <1>4

\* The steps that change no aggregate.
LEMMA SqlitePlain ==
  ASSUME Store!RequestsKnown, NEW top \in Nat, BookInv(top), SqliteInv(top), NEW c \in Caller,
         \/ \E op \in Ops, i \in Instance : Store!Serialized /\ Store!Arrive(c, op, i)
         \/ Store!AppendBuffers(c)
         \/ Store!AppendSelect(c)
         \/ Store!DeleteStarts(c)
  PROVE  SqliteInv(top)'
<1>1. PICK q \in Request :
        /\ caller' = [caller EXCEPT ![c] = q]
        /\ q.pc \in {"get", "append", "append.insert", "delete", "delete.rows", "done"}
        /\ q.code \in {"none", "201"}
        /\ q.pc = "get" => q.rival = Store!Unsettled
        /\ caller[c].pc \in {"idle", "append", "delete"}
        /\ caller[c].at \in {"none", q.at}
        /\ \A d \in Caller : caller[d].at \in {"none", q.at}
  <2>1. ASSUME NEW op \in Ops, NEW i \in Instance, Store!Serialized, Store!Arrive(c, op, i)
        PROVE  \E q \in Request :
                 /\ caller' = [caller EXCEPT ![c] = q]
                 /\ q.pc \in {"get", "append", "delete"} /\ q.code = "none"
                 /\ q.rival = Store!Unsettled /\ caller[c].pc = "idle"
                 /\ \A d \in Caller : caller[d].at \in {"none", q.at}
    <3> DEFINE q == [Store!NoRequest EXCEPT !.op = op, !.at = i, !.rival = Store!Unsettled,
                         !.pc = CASE op = "create" -> "append"
                                  [] op = "delete" -> "delete"
                                  [] OTHER -> "get"]
    <3>1. op \in {"create", "read", "update", "mirror", "delete"}
      BY DEF Store!RequestsKnown
    <3>2. /\ q \in Request /\ q.at = i /\ q.code = "none" /\ q.rival = Store!Unsettled
          /\ q.pc \in {"append", "delete", "get"}
      BY <3>1 DEF Request, Store!NoRequest, Store!Unsettled
    <3>3. caller' = [caller EXCEPT ![c] = q] /\ caller[c].pc = "idle"
          /\ \A d \in Caller : caller[d].at \in {"none", i}
      BY <2>1 DEF Store!Arrive
    <3> HIDE DEF q
    <3> QED
      BY <3>2, <3>3
  <2>2. ASSUME Store!AppendBuffers(c) \/ Store!AppendSelect(c) \/ Store!DeleteStarts(c)
        PROVE  \E q \in Request :
                 /\ caller' = [caller EXCEPT ![c] = q] /\ q.at = caller[c].at
                 /\ q.pc \in {"append.insert", "delete.rows", "done"} /\ q.code \in {"none", "201"}
                 /\ caller[c].pc \in {"append", "delete"} /\ caller[c].at \in Instance
    <3>1. caller[c] \in Request /\ caller[c].code \in {"none", "201"} /\ caller[c].at \in Instance
          /\ Store!LatestVersion(rows) \in Nat /\ rows \in SUBSET Nat
      BY <2>2, StandingFacts DEF BookInv, RequestAt, Store!AppendBuffers, Store!AppendSelect,
         Store!DeleteStarts
    <3>2. CASE Store!AppendBuffers(c)
      <4> DEFINE q == Store!Done(caller[c], "201")
      <4>1. q \in Request /\ q.at = caller[c].at /\ q.pc = "done" /\ q.code = "201"
        BY <3>1 DEF Store!Done, Request
      <4>2. caller' = [caller EXCEPT ![c] = q] /\ caller[c].pc = "append"
        BY <3>2 DEF Store!AppendBuffers
      <4> HIDE DEF q
      <4> QED
        BY <3>1, <4>1, <4>2
    <3>3. CASE Store!AppendSelect(c)
      <4> DEFINE q == [caller[c] EXCEPT !.pc = "append.insert", !.seen = Store!LatestVersion(rows),
                          !.code = IF durability = "async" THEN "201" ELSE "none"]
      <4>1. q \in Request /\ q.at = caller[c].at /\ q.pc = "append.insert" /\ q.code \in {"none", "201"}
        BY <3>1 DEF Request
      <4>2. caller' = [caller EXCEPT ![c] = q] /\ caller[c].pc = "append"
        BY <3>3 DEF Store!AppendSelect, BookInv
      <4> HIDE DEF q
      <4> QED
        BY <3>1, <4>1, <4>2
    <3>4. CASE Store!DeleteStarts(c)
      <4> DEFINE q == [caller[c] EXCEPT !.pc = "delete.rows", !.read = rows]
      <4>1. q \in Request /\ q.at = caller[c].at /\ q.pc = "delete.rows" /\ q.code \in {"none", "201"}
        BY <3>1 DEF Request
      <4>2. caller' = [caller EXCEPT ![c] = q] /\ caller[c].pc = "delete"
        BY <3>4 DEF Store!DeleteStarts, BookInv
      <4> HIDE DEF q
      <4> QED
        BY <3>1, <4>1, <4>2
    <3> QED
      BY <2>2, <3>2, <3>3, <3>4
  <2>3. caller[c].at \in Instance => \A d \in Caller : caller[d].at \in {"none", caller[c].at}
    BY DEF SqliteInv, OneProcess, Store!RequestsKnown
  <2> QED
    BY <2>1, <2>2, <2>3
<1>2. rows' = rows
  BY DEF Store!Arrive, Store!AppendBuffers, Store!AppendSelect, Store!DeleteStarts
<1>3. \A j \in Instance : snapshots'[j] \in {{}, snapshots[j]}
  BY DEF Store!Arrive, Store!AppendBuffers, Store!AppendSelect, Store!DeleteStarts,
     Store!Counted, BookInv
<1>4. ~Store!Deleted => /\ \A j \in Instance : snapshots'[j] \in {{}, rows, snapshots[j]}
                        /\ q.code \in {"409", "dropped"} => q.rival
                        /\ ~q.rival /\ q.pc \in {"get", "select", "insert"} =>
                             /\ ~Store!Unsettled
                             /\ q.pc = "select" => q.read = rows
                             /\ q.pc = "insert" => q.seen = top
  BY <1>1, <1>3
<1>5. \A j \in Instance : snapshots'[j] # {} => snapshots[j] # {} \/ j = q.at
  BY <1>3
<1>6. /\ caller[c].pc \notin {"done", "invalidate", "count"}
      /\ q.pc \notin {"install", "invalidate", "count"}
  BY <1>1
<1> QED
  BY <1>1, <1>2, <1>4, <1>5, <1>6, SqliteMoves

LEMMA SqliteAppends ==
  ASSUME Store!RequestsKnown, NEW top \in Nat, BookInv(top), SqliteInv(top),
         NEW c \in Caller, Store!AppendInsert(c)
  PROVE  SqliteInv(top + 1)'
<1> DEFINE r == caller[c]
           q == IF durability = "async" THEN Store!Done(r, "201") ELSE [r EXCEPT !.pc = "count"]
<1>1. /\ r \in Request /\ r.at \in Instance /\ r.code \in {"none", "201"} /\ top = 0 /\ r.seen = 0
      /\ r.pc = "append.insert"
  BY DEF Store!AppendInsert, BookInv, RequestAt
<1>2. q \in Request /\ q.at = r.at /\ q.pc \in {"count", "done"} /\ q.code \in {"none", "200", "201"}
  BY <1>1 DEF Store!Done, Request
<1>3. \A i \in Instance : snapshots[i] = {}
  BY <1>1 DEF BookInv, Unbroken
<1>4. rows' = rows \cup {top + 1} /\ snapshots' = snapshots
      /\ caller' = Store!RivalsOf(c, [caller EXCEPT ![c] = q])
  BY <1>1 DEF Store!AppendInsert
<1>5. caller[c].pc \notin {"idle", "done"}
  BY <1>1
<1> HIDE DEF q, r
<1>6. \A new \in Nat : new = top + 1 => SqliteInv(new)'
  <2>1. r = caller[c]
    BY DEF r
  <2> QED
    BY <1>2, <1>3, <1>4, <1>5, <2>1, SqliteCommits
<1> QED
  BY <1>6

LEMMA SqliteDeletes ==
  ASSUME Store!RequestsKnown, NEW top \in Nat, BookInv(top), SqliteInv(top),
         NEW c \in Caller, Store!DeleteCommits(c)
  PROVE  SqliteInv(top)'
<1> DEFINE r == caller[c]
           q == Store!Done(r, "200")
<1>1. r \in Request /\ r.op = "delete" /\ r.pc = "delete.rows"
  BY DEF Store!DeleteCommits, BookInv, RequestAt
<1>2. q \in Request /\ q.at = r.at /\ q.pc = "done" /\ q.code = "200" /\ q.op = "delete"
  BY <1>1 DEF Store!Done, Request
<1>3. caller' = Store!RivalsOf(c, [caller EXCEPT ![c] = q]) /\ snapshots' = snapshots
  BY DEF Store!DeleteCommits
<1>4. caller[c].pc \notin {"idle", "done"}
  BY <1>1
<1> HIDE DEF q
<1>5. caller'[c] = q
  BY <1>2, <1>3, RivalsStand
<1>6. Store!Deleted'
  BY <1>2, <1>5 DEF Store!Deleted
<1>7. \A new \in Nat : new = top + 1 => SqliteInv(new)'
  BY <1>2, <1>3, <1>4, <1>6, SqliteCommits
<1>8. SqliteInv(top + 1)'
  BY <1>7
<1> QED
  BY <1>6, <1>8 DEF SqliteInv

-----------------------------------------------------------------------------
(* All of it, from step to step.                                           *)

StoreAt(top) == BookInv(top) /\ (Store!Serialized => SqliteInv(top))

LEMMA StoreAtStep ==
  ASSUME Store!RequestsKnown, NEW top \in Nat, StoreAt(top), [Store!Next]_(Store!vars)
  PROVE  StoreAt(top)' \/ StoreAt(top + 1)'
<1>0. BookInv(top) /\ (Store!Serialized' => Store!Serialized /\ SqliteInv(top))
  BY DEF StoreAt, Store!Serialized, Store!Next, Store!vars, Store!Arrive, Store!GetHit,
     Store!GetSync, Store!GetQuery, Store!GetInstall, Store!Select,
         Store!Insert, Store!Invalidate, Store!AppendBuffers, Store!AppendSelect, Store!AppendInsert, Store!AppendCounts,
         Store!DeleteStarts, Store!DeleteCommits
<1>1. CASE UNCHANGED Store!vars
  BY <1>0, <1>1 DEF Store!vars, StoreAt, BookInv, OneOf, SqliteInv, OneProcess, Owned, Stale,
     Undisturbed,
                    Refused, Store!Deleted, Store!Unsettled
<1>2. ASSUME NEW c \in Caller, NEW op \in Ops, NEW i \in Instance, Store!Arrive(c, op, i)
      PROVE  StoreAt(top)'
  BY <1>0, <1>2, ArriveKeeps, SqlitePlain DEF StoreAt
<1>3. ASSUME NEW c \in Caller, Store!GetHit(c) \/ Store!GetSync(c) \/ Store!GetQuery(c) \/ Store!GetInstall(c)
      PROVE  StoreAt(top)'
  BY <1>0, <1>3, ReadsKeep, SqliteReads DEF StoreAt
<1>4. ASSUME NEW c \in Caller, Store!Select(c) PROVE StoreAt(top)'
  BY <1>0, <1>4, SelectKeeps, SqliteSelects DEF StoreAt
<1>5. ASSUME NEW c \in Caller, Store!Insert(c) PROVE StoreAt(top)' \/ StoreAt(top + 1)'
  <2>1. IF rows' = rows THEN BookInv(top)' ELSE BookInv(top + 1)'
    BY <1>0, <1>5, InsertKeeps
  <2>2. Store!Serialized' => IF rows' = rows THEN SqliteInv(top)' ELSE SqliteInv(top + 1)'
    BY <1>0, <1>5, SqliteInserts
  <2> QED
    BY <2>1, <2>2 DEF StoreAt
<1>6. ASSUME NEW c \in Caller, Store!Invalidate(c) \/ Store!AppendCounts(c) PROVE StoreAt(top)'
  <2>1. BookInv(top)'
    BY <1>0, <1>6, InvalidateKeeps
  <2>2. /\ caller[c].pc \in {"invalidate", "count"} /\ UNCHANGED rows
        /\ caller' = [caller EXCEPT ![c] = Store!Done(@, "201")]
        /\ snapshots' = [snapshots EXCEPT ![caller[c].at] = {}]
    BY <1>6 DEF Store!Invalidate, Store!AppendCounts, Store!Counted
  <2>3. Store!Serialized' => SqliteInv(top)'
    BY <1>0, <2>2, SqliteDrops
  <2> QED
    BY <2>1, <2>3 DEF StoreAt
<1>7. ASSUME NEW c \in Caller, Store!AppendBuffers(c) PROVE StoreAt(top)'
  BY <1>0, <1>7, InvalidateKeeps, SqlitePlain DEF StoreAt
<1>8. ASSUME NEW c \in Caller, Store!AppendSelect(c) PROVE StoreAt(top)'
  BY <1>0, <1>8, AppendSelectKeeps, SqlitePlain DEF StoreAt
<1>9. ASSUME NEW c \in Caller, Store!AppendInsert(c) PROVE StoreAt(top + 1)'
  BY <1>0, <1>9, AppendInsertKeeps, SqliteAppends DEF StoreAt
<1>10. ASSUME NEW c \in Caller, Store!DeleteStarts(c) PROVE StoreAt(top)'
  BY <1>0, <1>10, DeleteStartsKeeps, SqlitePlain DEF StoreAt
<1>11. ASSUME NEW c \in Caller, Store!DeleteCommits(c) PROVE StoreAt(top)'
  BY <1>0, <1>11, DeleteCommitsKeeps, SqliteDeletes DEF StoreAt
<1> QED
  BY <1>1, <1>2, <1>3, <1>4, <1>5, <1>6, <1>7, <1>8, <1>9, <1>10, <1>11 DEF Store!Next


\* A step of one request that leaves it neither appending nor counting, and the
\* others where they are.
LEMMA EarlyMoves ==
  ASSUME NEW top \in Nat, BookInv(top), EarlyInv, NEW c \in Caller, UNCHANGED durability,
         \A d \in Caller : d # c => /\ caller'[d].pc = caller[d].pc
                                    /\ caller'[d].code = caller[d].code,
         caller'[c].pc \notin {"count", "append.insert"}
  PROVE  EarlyInv'
BY DEF EarlyInv

LEMMA EarlyInvStep ==
  ASSUME Store!RequestsKnown, NEW top \in Nat, BookInv(top), EarlyInv, [Store!Next]_(Store!vars)
  PROVE  EarlyInv'
<1>1. CASE UNCHANGED Store!vars
  BY <1>1 DEF Store!vars, EarlyInv
<1>2. ASSUME NEW c \in Caller, NEW q, q.pc \notin {"count", "append.insert"},
             caller' = [caller EXCEPT ![c] = q], UNCHANGED durability
      PROVE  EarlyInv'
  <2>1. caller'[c] = q /\ \A d \in Caller : d # c => caller'[d] = caller[d]
    BY <1>2 DEF BookInv
  <2> QED
    BY <1>2, <2>1, EarlyMoves
<1>3. ASSUME NEW c \in Caller, NEW q \in Request, q.pc \notin {"count", "append.insert"},
             caller' = Store!RivalsOf(c, [caller EXCEPT ![c] = q]), UNCHANGED durability
      PROVE  EarlyInv'
  <2>1. caller'[c] = q /\ \A d \in Caller : d # c => Marked(caller[d], caller'[d])
    BY <1>3, RivalsStand
  <2>2. \A d \in Caller : d # c => /\ caller'[d].pc = caller[d].pc
                                   /\ caller'[d].code = caller[d].code
    BY <2>1, MarkedFacts DEF BookInv
  <2> QED
    BY <1>3, <2>1, <2>2, EarlyMoves
<1>4. \A c \in Caller : caller[c] \in Request
  BY DEF BookInv
<1>5. \A r \in Request : \A code : Store!Done(r, code).pc = "done"
  BY DEF Store!Done, Request
<1>6. \A r \in Request : Store!Rejected(r).pc \in {"get", "done"}
  BY <1>5 DEF Store!Rejected, Request
<1>7. \A r \in Request : \A set : Store!Got(r, set).pc \in {"select", "done"}
  BY DEF Store!Got, Store!Done, Request
<1>8. ASSUME NEW c \in Caller, NEW op \in Ops, NEW i \in Instance, Store!Arrive(c, op, i)
      PROVE  EarlyInv'
  <2> DEFINE q == [Store!NoRequest EXCEPT !.op = op, !.at = i, !.rival = Store!Unsettled,
                         !.pc = CASE op = "create" -> "append"
                                  [] op = "delete" -> "delete"
                                  [] OTHER -> "get"]
  <2>1. q.pc \in {"append", "delete", "get"}
    BY DEF Store!NoRequest
  <2>2. caller' = [caller EXCEPT ![c] = q] /\ UNCHANGED durability
    BY <1>8 DEF Store!Arrive
  <2> HIDE DEF q
  <2> QED
    BY <1>2, <2>1, <2>2
<1>9. ASSUME NEW c \in Caller, Store!GetHit(c) \/ Store!GetSync(c) \/ Store!GetInstall(c)
      PROVE  EarlyInv'
  <2>1. \E set : caller' = [caller EXCEPT ![c] = Store!Got(caller[c], set)]
    BY <1>9 DEF Store!GetHit, Store!GetSync, Store!GetInstall, Store!Install
  <2>2. UNCHANGED durability
    BY <1>9 DEF Store!GetHit, Store!GetSync, Store!GetInstall
  <2> QED
    BY <1>2, <1>4, <1>7, <2>1, <2>2
<1>10. ASSUME NEW c \in Caller, Store!GetQuery(c) \/ Store!DeleteStarts(c)
       PROVE  EarlyInv'
  <2>1. PICK pc \in {"install", "delete.rows"} :
          caller' = [caller EXCEPT ![c] = [caller[c] EXCEPT !.pc = pc, !.read = rows]]
    BY <1>10 DEF Store!GetQuery, Store!DeleteStarts, BookInv
  <2>2. [caller[c] EXCEPT !.pc = pc, !.read = rows].pc \notin {"count", "append.insert"}
    BY <1>4, <2>1 DEF Request
  <2>3. UNCHANGED durability
    BY <1>10 DEF Store!GetQuery, Store!DeleteStarts
  <2> QED
    BY <1>2, <2>1, <2>2, <2>3
<1>11. ASSUME NEW c \in Caller, Store!Select(c)
       PROVE  EarlyInv'
  <2> DEFINE q == [caller[c] EXCEPT !.pc = "insert", !.seen = Store!LatestVersion(rows)]
  <2>1. q.pc = "insert"
    BY <1>4 DEF Request
  <2>2. caller' = [caller EXCEPT ![c] = q] \/ caller' = [caller EXCEPT ![c] = Store!Rejected(caller[c])]
    BY <1>11 DEF Store!Select
  <2>3. UNCHANGED durability
    BY <1>11 DEF Store!Select
  <2> HIDE DEF q
  <2> QED
    BY <1>2, <1>4, <1>6, <2>1, <2>2, <2>3
<1>12. ASSUME NEW c \in Caller, Store!Insert(c)
       PROVE  EarlyInv'
  <2> DEFINE q == [caller[c] EXCEPT !.pc = "invalidate"]
  <2>1. q \in Request /\ q.pc = "invalidate"
    BY <1>4 DEF Request
  <2>2. [caller EXCEPT ![c].pc = "invalidate"] = [caller EXCEPT ![c] = q]
    BY DEF BookInv
  <2>3. \/ caller' = Store!RivalsOf(c, [caller EXCEPT ![c] = q])
        \/ caller' = [caller EXCEPT ![c] = Store!Rejected(caller[c])]
    BY <1>12, <2>2 DEF Store!Insert
  <2>4. UNCHANGED durability
    BY <1>12 DEF Store!Insert
  <2> HIDE DEF q
  <2>5. CASE caller' = Store!RivalsOf(c, [caller EXCEPT ![c] = q])
    BY <1>3, <2>1, <2>4, <2>5
  <2> QED
    BY <1>2, <1>4, <1>6, <2>3, <2>4, <2>5
<1>13. ASSUME NEW c \in Caller, Store!Invalidate(c) \/ Store!AppendBuffers(c) \/ Store!AppendCounts(c)
       PROVE  EarlyInv'
  <2>1. caller' = [caller EXCEPT ![c] = Store!Done(caller[c], "201")] /\ UNCHANGED durability
    BY <1>13 DEF Store!Invalidate, Store!AppendBuffers, Store!AppendCounts
  <2> QED
    BY <1>2, <1>4, <1>5, <2>1
<1>14. ASSUME NEW c \in Caller, Store!AppendSelect(c)
       PROVE  EarlyInv'
  <2> DEFINE q == [caller[c] EXCEPT !.pc = "append.insert", !.seen = Store!LatestVersion(rows),
                          !.code = IF durability = "async" THEN "201" ELSE "none"]
  <2>1. q.pc = "append.insert" /\ (q.code # "none" => durability = "async")
    BY <1>4 DEF Request
  <2>2. caller' = [caller EXCEPT ![c] = q] /\ UNCHANGED durability
    BY <1>14 DEF Store!AppendSelect, BookInv
  <2> HIDE DEF q
  <2>3. caller'[c] = q /\ \A d \in Caller : d # c => caller'[d] = caller[d]
    BY <2>2 DEF BookInv
  <2> QED
    BY <2>1, <2>2, <2>3 DEF EarlyInv
<1>15. ASSUME NEW c \in Caller, Store!AppendInsert(c)
       PROVE  EarlyInv'
  <2> DEFINE q == IF durability = "async" THEN Store!Done(caller[c], "201")
                  ELSE [caller[c] EXCEPT !.pc = "count"]
  <2>1. q \in Request /\ (q.pc = "count" => q.code = "none") /\ q.pc # "append.insert"
    BY <1>4, <1>15 DEF Store!AppendInsert, EarlyInv, Store!Done, Request
  <2>2. caller' = Store!RivalsOf(c, [caller EXCEPT ![c] = q]) /\ UNCHANGED durability
    BY <1>15 DEF Store!AppendInsert
  <2> HIDE DEF q
  <2>3. caller'[c] = q /\ \A d \in Caller : d # c => Marked(caller[d], caller'[d])
    BY <2>1, <2>2, RivalsStand
  <2>4. \A d \in Caller : d # c => /\ caller'[d].pc = caller[d].pc
                                   /\ caller'[d].code = caller[d].code
    BY <2>3, MarkedFacts DEF BookInv
  <2> QED
    BY <2>1, <2>2, <2>3, <2>4 DEF EarlyInv
<1>16. ASSUME NEW c \in Caller, Store!DeleteCommits(c)
       PROVE  EarlyInv'
  <2>1. Store!Done(caller[c], "200") \in Request /\ Store!Done(caller[c], "200").pc = "done"
    BY <1>4 DEF Store!Done, Request
  <2>2. caller' = Store!RivalsOf(c, [caller EXCEPT ![c] = Store!Done(caller[c], "200")]) /\ UNCHANGED durability
    BY <1>16 DEF Store!DeleteCommits
  <2> QED
    BY <1>3, <2>1, <2>2
<1> QED
  BY <1>1, <1>8, <1>9, <1>10, <1>11, <1>12, <1>13, <1>14, <1>15, <1>16 DEF Store!Next

\* There is a highest version ever, known to nobody.
Booked == EarlyInv /\ \E top \in Nat : StoreAt(top)

LEMMA BookedHolds == Store!RequestsKnown /\ Store!Spec => []Booked
<1> SUFFICES ASSUME Store!RequestsKnown PROVE Store!Spec => []Booked
  OBVIOUS
<1>1. Store!Init => Booked
  BY BookInvInit, SqliteInvInit DEF Booked, StoreAt
<1>2. Booked /\ [Store!Next]_(Store!vars) => Booked'
  <2> SUFFICES ASSUME Booked, [Store!Next]_(Store!vars) PROVE Booked'
    OBVIOUS
  <2>1. PICK top \in Nat : StoreAt(top)
    BY DEF Booked
  <2>2. StoreAt(top)' \/ StoreAt(top + 1)'
    BY <2>1, StoreAtStep
  <2>3. EarlyInv'
    BY <2>1, EarlyInvStep DEF StoreAt, Booked
  <2> QED
    BY <2>2, <2>3 DEF Booked
<1> QED
  BY <1>1, <1>2, PTL DEF Store!Spec

\* A write commits version n only on a decision taken from exactly the events
\* 1 .. n-1: whatever cache served them, whoever deletes the project meanwhile,
\* and although the length is all that readModifyWrite compares.
THEOREM WritesOnWhatItSaw == Store!RequestsKnown /\ Store!Spec => []Store!CommitsOnWhatItSaw
<1>1. Booked => Store!CommitsOnWhatItSaw
  BY DEF Booked, StoreAt, BookInv, Store!CommitsOnWhatItSaw
<1> QED
  BY <1>1, BookedHolds, PTL

\* On SQLite, and short of its project's delete, the cache serves the rows except
\* while a writer is about to drop it, and a request that is refused had a rival:
\* no cache is left stale for good.
THEOREM CacheIsNoHazard == Store!RequestsKnown /\ Store!Spec => []Store!CacheKeepsUp
<1>1. ASSUME Booked PROVE Store!CacheKeepsUp
  <2>1. PICK top \in Nat : StoreAt(top)
    BY <1>1 DEF Booked
  <2>2. Store!TypeOK
    <3>1. rows \in SUBSET Nat
      BY <2>1, StandingFacts DEF StoreAt, BookInv
    <3>2. \A c \in Caller : caller[c] \in Request /\ RequestAt(caller[c], rows, top)
      BY <2>1 DEF StoreAt, BookInv
    <3>3. EarlyInv
      BY <1>1 DEF Booked
    <3>4. \A c \in Caller :
            /\ caller[c].pc \in {"idle", "get", "install", "select", "insert",
                 "invalidate", "append", "append.insert", "count", "delete",
                 "delete.rows", "done"}
            /\ caller[c].read \subseteq Nat /\ caller[c].try \in {1, 2}
            /\ caller[c].code # "none" => caller[c].pc \in {"append.insert", "done"}
      BY <3>2, <3>3 DEF EarlyInv, RequestAt, Request
    <3> QED
      BY <2>1, <3>1, <3>4 DEF StoreAt, BookInv, Store!TypeOK
  <2>3. Store!CacheServesTheRows
    BY <2>1 DEF StoreAt, SqliteInv, Store!CacheServesTheRows, Stale, Store!Hit
  <2>4. Store!SqliteConflictNeedsARival
    BY <2>1 DEF StoreAt, SqliteInv, Store!SqliteConflictNeedsARival, Store!ConflictNeedsARival,
       Refused
  <2> QED
    BY <2>2, <2>3, <2>4 DEF Store!CacheKeepsUp
<1> QED
  BY <1>1, BookedHolds, PTL

-----------------------------------------------------------------------------
(* The instance of MCBridge: its requests come in turn, beside parts that   *)
(* do not touch the store.                                                  *)

LEMMA StoreIsUndisturbed == MCSpec => Store!Spec
<1>1. MCInit => Store!Init
  BY DEF MCInit
<1>2. [MCNext]_<<part, vars, feeds, sql, traces>> => [Store!Next]_(Store!vars)
  BY DEF MCNext, sql, Store!vars
<1> QED
  BY <1>1, <1>2, PTL DEF MCSpec, Store!Spec

LEMMA RequestsAreKnown == Store!RequestsKnown
BY InputsKnown

\* A write to the SQL store commits version n only on a decision taken from exactly
\* the events before it, however stale the cache that served it.
THEOREM StoreCommitsOnWhatItSaw == MCSpec => []CommitsOnWhatItSaw
<1>1. Store!CommitsOnWhatItSaw => CommitsOnWhatItSaw
  BY DEF CommitsOnWhatItSaw
<1> QED
  BY <1>1, RequestsAreKnown, StoreIsUndisturbed, WritesOnWhatItSaw, PTL

\* On SQLite the cache serves the rows, and a request that is refused had a rival.
THEOREM StoreCacheKeepsUp == MCSpec => []CacheKeepsUp
<1>1. Store!CacheKeepsUp => CacheKeepsUp
  BY DEF CacheKeepsUp
<1> QED
  BY <1>1, RequestsAreKnown, StoreIsUndisturbed, CacheIsNoHazard, PTL
=============================================================================
