------------------------------- MODULE EventLog -------------------------------
(***************************************************************************)
(* The bridge's event log and the streams it feeds:                        *)
(*   src/bridge/EventLogStore.ts    NDJSON tail, two rotated files, cursor  *)
(*   src/bridge/EventBroadcaster.ts assigns ids, persists, fans out         *)
(*   src/bridge/sseEndpoint.ts      resume by Last-Event-ID, gap, live tail *)
(*                                                                         *)
(* emit is one synchronous call: it rotates, appends and delivers before   *)
(* anything else runs, so it is one action; a crash may fall between two   *)
(* of its system calls.  A file is the set of its readable events (their   *)
(* ids order them) and the number of its unreadable lines; bytes are       *)
(* counted in lines.                                                       *)
(*                                                                         *)
(* A frame reaches its client at once: losing the last frames with the     *)
(* connection is, for the client, having lost the connection before them.  *)
(***************************************************************************)
EXTENDS Integers, FiniteSets

CONSTANTS
  Client,     \* SSE clients of GET /events
  ByQuery,    \* those that resume with ?lastEventId=, as the dashboard does
  FileCap,    \* maxBytes, in lines
  MaxEvents,  \* bound: events emitted
  MaxIds,     \* bound: ids given out
  Faults      \* what may go wrong with the disk and the process

ASSUME ByQueryClients == ByQuery \subseteq Client
ASSUME CapPositive == FileCap \in Nat \ {0} /\ MaxEvents \in Nat /\ MaxIds \in Nat
ASSUME FaultsKnown == Faults \subseteq {"fail", "torn", "rename", "crash"}

VARIABLES
  files,     \* 0: events.ndjson, 1: events.ndjson.1, 2: events.ndjson.2
  torn,      \* the tail ends in a partial line, without its newline
  sidecar,   \* events.seq (0: absent)
  up,        \* the process runs
  cursor,    \* #nextEventId
  tailSize,  \* #tailBytes
  client,    \* each client's stream
  issued,    \* history: the events emitted, in the order of their `no'
  damaged    \* history: a line was lost or left partial

vars == <<files, torn, sidecar, up, cursor, tailSize, client, issued, damaged>>
disk == <<files, torn, sidecar>>
memory == <<up, cursor, tailSize>>

NoFile == [events |-> {}, junk |-> 0]
Size(file) == Cardinality(file.events) + file.junk
Retained == UNION {files[k].events : k \in 0..2}

Emissions == Cardinality(issued)
None == -1

-----------------------------------------------------------------------------
(* EventLogStore.                                                          *)

\* Mutant: an older file is never replaced.
MoveOlderOnce(f) ==
  IF f[1] = NoFile \/ f[2] # NoFile THEN f ELSE [f EXCEPT ![2] = f[1], ![1] = NoFile]

\* The cascade's two renames: `.1' over `.2', then the tail to `.1'.
MoveOlder(f) == IF f[1] = NoFile THEN f ELSE [f EXCEPT ![2] = f[1], ![1] = NoFile]
MoveTail(f) == IF f[0] = NoFile THEN f ELSE [f EXCEPT ![1] = f[0], ![0] = NoFile]

NeedsRotation == tailSize > 0 /\ tailSize + 1 > FileCap

\* #rotateIfNeeded, with what a failed rename leaves behind.
Rotate ==
  [files |-> MoveTail(MoveOlder(files)), torn |-> FALSE, sidecar |-> cursor + 1, size |-> 0]

RotationFails(f) ==
  [files |-> f, torn |-> torn, sidecar |-> sidecar, size |-> Size(files[0])]

Rotations ==
  IF ~NeedsRotation
  THEN {[files |-> files, torn |-> torn, sidecar |-> sidecar, size |-> tailSize]}
  ELSE {Rotate} \cup IF "rename" \in Faults
                     THEN {RotationFails(files), RotationFails(MoveOlder(files))} ELSE {}

\* A line appended after a partial one runs into it: neither can be read.
WithLine(log, e) ==
  IF log.torn THEN log.files
  ELSE [log.files EXCEPT ![0].events = @ \cup {e}]

WithPartialLine(log) ==
  IF log.torn THEN log.files ELSE [log.files EXCEPT ![0].junk = @ + 1]

MayEmit == up /\ Emissions < MaxEvents /\ cursor < MaxIds
NextEvent == [id |-> cursor, no |-> Emissions]

-----------------------------------------------------------------------------
(* EventBroadcaster and the open streams.                                  *)

Deliver(e) ==
  /\ issued' = issued \cup {e}
  /\ client' = [c \in Client |->
       IF client[c].on
       THEN [client[c] EXCEPT !.seen = @ \cup {e}, !.last = e.id] ELSE client[c]]

Emit ==
  /\ MayEmit
  /\ \E log \in Rotations :
       /\ files' = WithLine(log, NextEvent)
       /\ torn' = FALSE
       /\ sidecar' = log.sidecar
       /\ tailSize' = log.size + 1
       /\ damaged' = (damaged \/ log.torn)
  /\ cursor' = cursor + 1
  /\ Deliver(NextEvent)
  /\ UNCHANGED up

\* A failed append is swallowed: the id is spent, the stream goes on.
EmitUnwritten ==
  /\ MayEmit
  /\ "fail" \in Faults
  /\ \E log \in Rotations, partial \in BOOLEAN :
       /\ files' = IF partial THEN WithPartialLine(log) ELSE log.files
       /\ torn' = (log.torn \/ partial)
       /\ sidecar' = log.sidecar
       /\ tailSize' = log.size
  /\ damaged' = TRUE
  /\ cursor' = cursor + 1
  /\ Deliver(NextEvent)
  /\ UNCHANGED up

Disconnected == [c \in Client |-> [client[c] EXCEPT !.on = FALSE]]

Down ==
  /\ up' = FALSE /\ cursor' = 0 /\ tailSize' = 0
  /\ client' = Disconnected

Crash ==
  /\ up /\ "crash" \in Faults
  /\ Down
  /\ UNCHANGED <<disk, issued, damaged>>

\* The process dies in emit: between the renames, before the sidecar, in the
\* append, or before the delivery.
CrashInRotation ==
  /\ MayEmit /\ "crash" \in Faults
  /\ NeedsRotation
  /\ files' \in {MoveOlder(files), MoveTail(MoveOlder(files))}
  /\ torn' = (torn /\ files'[0] # NoFile)
  /\ Down
  /\ UNCHANGED <<sidecar, issued, damaged>>

CrashInAppend ==
  /\ MayEmit /\ {"crash", "torn"} \subseteq Faults
  /\ \E log \in Rotations :
       /\ files' = WithPartialLine(log)
       /\ sidecar' = log.sidecar
  /\ torn' = TRUE
  /\ damaged' = TRUE
  /\ Down
  /\ UNCHANGED issued

CrashBeforeDelivery ==
  /\ MayEmit /\ "crash" \in Faults
  /\ \E log \in Rotations :
       /\ files' = WithLine(log, NextEvent)
       /\ sidecar' = log.sidecar
       /\ damaged' = (damaged \/ log.torn)
  /\ torn' = FALSE
  /\ issued' = issued \cup {NextEvent}
  /\ Down

\* Mutant: the scan is skipped when there is a sidecar.
RestoresSidecar(n) ==
  IF sidecar # 0 THEN n = sidecar
  ELSE /\ \A e \in Retained : e.id < n
       /\ n = 0 \/ \E e \in Retained : n = e.id + 1

\* #restoreCursor: the sidecar or the id after the largest one on disk.
Restores(n) ==
  /\ n >= sidecar
  /\ \A e \in Retained : e.id < n
  /\ n = sidecar \/ \E e \in Retained : n = e.id + 1

Restart ==
  /\ ~up
  /\ up' = TRUE
  /\ \E n \in 0..MaxIds : Restores(n) /\ cursor' = n
  /\ tailSize' = Size(files[0])
  /\ UNCHANGED <<disk, client, issued, damaged>>

-----------------------------------------------------------------------------
(* SseHandler.                                                             *)

\* The id a client asks to resume after; the server reads it from the header.
Asks(c) == c \notin ByQuery /\ client[c].last # None
FellOff(last) == Retained # {} /\ \A e \in Retained : last < e.id

\* Served live from now on; a client that never had an event expects no other.
ConnectLive(c) ==
  /\ up /\ ~client[c].on
  /\ ~Asks(c)
  /\ client' = [client EXCEPT ![c].on = TRUE,
                              ![c].since = IF client[c].last = None THEN Emissions ELSE @]
  /\ UNCHANGED <<disk, memory, issued, damaged>>

\* bridge.gap: told that it missed something, then served live.
ConnectGap(c) ==
  /\ up /\ ~client[c].on
  /\ Asks(c) /\ FellOff(client[c].last)
  /\ client' = [client EXCEPT ![c].on = TRUE, ![c].since = Emissions]
  /\ UNCHANGED <<disk, memory, issued, damaged>>

\* Mutant: the replay starts one event too late.
MissedAfterNext(last) == {e \in Retained : e.id > last + 1}

Missed(last) == {e \in Retained : e.id > last}

ConnectReplay(c) ==
  LET r == client[c] IN
  /\ up /\ ~r.on
  /\ Asks(c) /\ ~FellOff(r.last)
  /\ \E last \in {r.last} \cup {e.id : e \in Missed(r.last)} :
       /\ \A e \in Missed(r.last) : e.id <= last
       /\ client' = [client EXCEPT ![c].on = TRUE, ![c].last = last,
                                   ![c].seen = @ \cup Missed(r.last)]
  /\ UNCHANGED <<disk, memory, issued, damaged>>

Disconnect(c) ==
  /\ client[c].on
  /\ client' = [client EXCEPT ![c].on = FALSE]
  /\ UNCHANGED <<disk, memory, issued, damaged>>

-----------------------------------------------------------------------------
Init ==
  /\ files = [k \in 0..2 |-> NoFile]
  /\ torn = FALSE /\ sidecar = 0
  /\ up = FALSE /\ cursor = 0 /\ tailSize = 0
  /\ client = [c \in Client |-> [on |-> FALSE, last |-> None, since |-> 0, seen |-> {}]]
  /\ issued = {} /\ damaged = FALSE

Next ==
  \/ Emit \/ EmitUnwritten
  \/ Crash \/ CrashInRotation \/ CrashInAppend \/ CrashBeforeDelivery
  \/ Restart
  \/ \E c \in Client : ConnectLive(c) \/ ConnectGap(c) \/ ConnectReplay(c) \/ Disconnect(c)

Spec == Init /\ [][Next]_vars

-----------------------------------------------------------------------------
(* Properties.                                                             *)

Event == [id : Nat, no : Nat]

TypeOK ==
  /\ files \in [0..2 -> [events : SUBSET Event, junk : Nat]]
  /\ torn \in BOOLEAN /\ sidecar \in Nat
  /\ up \in BOOLEAN /\ cursor \in Nat /\ tailSize \in Nat
  /\ client \in [Client -> [on : BOOLEAN, last : Nat \cup {None}, since : Nat,
                            seen : SUBSET Event]]
  /\ issued \subseteq Event /\ damaged \in BOOLEAN

\* The cursor never dips below, or collides with, an id that is on disk:
\* whatever failed, no two lines of the log carry one id.
LogIdsAreUnique ==
  \A e, f \in Retained : e.id = f.id => e = f

\* The cursor never resets, neither on restart nor on rotation: as long as no
\* line was lost, no two events were ever given one id.
IdsAreUnique ==
  ~damaged => \A e, f \in issued : e.id = f.id => e = f

\* Rotation and restarts drop the oldest events and never one in between.
RetainsASuffix ==
  ~damaged => \A e \in issued, f \in Retained : e.no > f.no => e \in Retained

\* A resumed stream is complete or says that it is not: a connected client has
\* every event since it first connected, or since it was last told of a gap.
NoSilentLoss ==
  \A c \in Client : client[c].on =>
    \A e \in issued : e.no >= client[c].since => e \in client[c].seen

\* The same where no line was lost and the client sends Last-Event-ID.
HonestResume ==
  ~damaged => \A c \in Client \ ByQuery : client[c].on =>
    \A e \in issued : e.no >= client[c].since => e \in client[c].seen
=============================================================================
