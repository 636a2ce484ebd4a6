-------------------------------- MODULE Feeds --------------------------------
(***************************************************************************)
(* The filtered streams of the daemon (src/bridge/sseEndpoint.ts):          *)
(*   GET /events/:sessionId           frames of one session                *)
(*   GET /projects/:projectId/events  frames of a project's sessions       *)
(* by the routes of src/api/tasks.ts, which read the store before they      *)
(* hand the socket over, and the stop of the process (src/server.ts).       *)
(*                                                                         *)
(* A session has a correlation of its own, so it stands for it.  What      *)
(* rotation does to a resume is EventLog's; here the log keeps everything. *)
(***************************************************************************)
EXTENDS Naturals, Sequences, FiniteSets, Functions

CONSTANTS
  Session, Project,
  ProjectOf,   \* the project of each session
  Reader,      \* clients of the two routes
  WantOf,      \* the session or the project each of them follows
  ListLimit,   \* the sessions a project's route lists
  MaxFrames,   \* bound: frames logged
  MaxAsked     \* bound: connections asked for

InputsKnown ==
  /\ ProjectOf \in [Session -> Project] /\ WantOf \in [Reader -> Session \cup Project]
  /\ Session \cap Project = {} /\ ListLimit \in Nat

VARIABLES
  stored,     \* the sessions in the store, in the order of their creation
  log,        \* the events, each by its session; an id is a position
  stream,     \* each reader's connection
  lastId,     \* the Last-Event-ID each reader would send
  asked,      \* bound: connections so far
  stopping    \* SIGTERM was received

vars == <<stored, log, stream, lastId, asked, stopping>>

None == 0
Closed == [phase |-> "closed"]

\* Ids are logged in order, and read back so.
Rises(q) == \A j, k \in DOMAIN q : j < k => q[j] < q[k]
InOrder(ids) ==
  CHOOSE q \in [1..Cardinality(ids) -> ids] : Range(q) = ids /\ Rises(q)

Init ==
  /\ stored = <<>> /\ log = <<>>
  /\ stream = [r \in Reader |-> Closed]
  /\ lastId = [r \in Reader |-> None] /\ asked = 0
  /\ stopping = FALSE

-----------------------------------------------------------------------------
(* The daemon.                                                             *)

\* A session is stored before anything is emitted of it, its creation never is.
Create(s) ==
  /\ s \notin Range(stored)
  /\ stored' = Append(stored, s)
  /\ UNCHANGED <<log, stream, lastId, asked, stopping>>

\* What a stream passes on.
Hears(r, s) == stream[r].phase = "open" /\ s \in stream[r].ids

\* An event is logged and delivered in one call.
Emit(s) ==
  /\ s \in Range(stored) /\ Len(log) < MaxFrames
  /\ log' = Append(log, s)
  /\ stream' = [r \in Reader |->
       IF Hears(r, s) THEN [stream[r] EXCEPT !.got = Append(@, Len(log) + 1)] ELSE stream[r]]
  /\ lastId' = [r \in Reader |-> IF Hears(r, s) THEN Len(log) + 1 ELSE lastId[r]]
  /\ UNCHANGED <<stored, asked, stopping>>

-----------------------------------------------------------------------------
(* A connection: the route reads the store, the handler opens the stream.  *)

Ask(r) ==
  /\ stream[r] = Closed /\ ~stopping /\ asked < MaxAsked
  /\ asked' = asked + 1
  /\ stream' = [stream EXCEPT ![r] =
       [phase |-> "asked", of |-> WantOf[r], resume |-> lastId[r], there |-> Range(stored)]]
  /\ UNCHANGED <<stored, log, lastId, stopping>>

Of(p) == {s \in Range(stored) : ProjectOf[s] = p}
Later(s, t) == \E j, k \in DOMAIN stored : j < k /\ stored[j] = s /\ stored[k] = t

\* The sessions a project's route lists: the newest.
Newest(p) == {s \in Of(p) : Cardinality({t \in Of(p) : Later(s, t)}) < ListLimit}

\* An unknown session is answered with 404.
Read(r) ==
  LET c == stream[r] IN
  /\ c.phase = "asked"
  /\ stream' = [stream EXCEPT ![r] =
       IF c.of \in Session \ Range(stored) THEN Closed
       ELSE [phase |-> "read", of |-> c.of, resume |-> c.resume, there |-> c.there,
             ids |-> IF c.of \in Project THEN Newest(c.of) ELSE {c.of}]]
  /\ UNCHANGED <<stored, log, lastId, asked, stopping>>

\* Mutant: the event the client has is sent again.
ReplayFrom(ids, resume) ==
  IF resume = None THEN <<>>
  ELSE InOrder({i \in DOMAIN log : i >= resume /\ log[i] \in ids})

\* log.replay(since), filtered.
Replay(ids, resume) ==
  IF resume = None THEN <<>>
  ELSE InOrder({i \in DOMAIN log : i > resume /\ log[i] \in ids})

\* #handle: what was missed, then everything from now on, in one call.
Open(r) ==
  LET c == stream[r]
      missed == Replay(c.ids, c.resume)
  IN /\ c.phase = "read"
     /\ stream' = [stream EXCEPT ![r] =
          [phase |-> "open", of |-> c.of, resume |-> c.resume, there |-> c.there, ids |-> c.ids,
           from |-> IF c.resume = None THEN Len(log) ELSE c.resume, got |-> missed]]
     /\ lastId' = [lastId EXCEPT ![r] = IF missed = <<>> THEN @ ELSE missed[Len(missed)]]
     /\ UNCHANGED <<stored, log, asked, stopping>>

Close(r) ==
  /\ stream[r].phase \in {"open", "ended"}
  /\ stream' = [stream EXCEPT ![r] = Closed]
  /\ UNCHANGED <<stored, log, lastId, asked, stopping>>

\* bridge.shutdown to the streams there are, which end; a request whose read is
\* still out opens its stream afterwards.
Shutdown ==
  /\ ~stopping /\ stopping' = TRUE
  /\ stream' = [r \in Reader |->
       IF stream[r].phase = "open" THEN [phase |-> "ended"] ELSE stream[r]]
  /\ UNCHANGED <<stored, log, lastId, asked>>

Next ==
  \/ \E s \in Session : Create(s) \/ Emit(s)
  \/ \E r \in Reader : Ask(r) \/ Read(r) \/ Open(r) \/ Close(r)
  \/ Shutdown

Spec == Init /\ [][Next]_vars

-----------------------------------------------------------------------------
(* Properties.                                                             *)

\* Whether a stream carries a session: its own, or one of its project that was
\* there when the client asked and that the list had room for.
Promised(r, s) ==
  \/ stream[r].of = s
  \/ /\ stream[r].of = ProjectOf[s] /\ s \in stream[r].there
     /\ Cardinality(Of(ProjectOf[s])) <= ListLimit

Belongs(r, s) == stream[r].of \in {s, ProjectOf[s]}

\* An open stream has every event of the sessions promised since it was opened,
\* or since the client's Last-Event-ID, once and in order, and none of another
\* project's - whatever was emitted while its route read the store.
StreamsCarryTheirSessions ==
  \A r \in Reader : stream[r].phase = "open" =>
    LET got == stream[r].got IN
    /\ \A i \in DOMAIN got : got[i] > stream[r].from /\ Belongs(r, log[got[i]])
    /\ Rises(got)
    /\ \A i \in DOMAIN log :
         i > stream[r].from /\ Promised(r, log[i]) => i \in Range(got)

\* "The live stream grows the set when a session.created for this project
\* arrives": violated, nothing emits one.
ProjectStreamsGrow ==
  \A r \in Reader : stream[r].phase = "open" =>
    \A i \in DOMAIN log :
      i > stream[r].from /\ ProjectOf[log[i]] = stream[r].of => i \in Range(stream[r].got)
=============================================================================
