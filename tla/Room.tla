--------------------------------- MODULE Room ---------------------------------
(***************************************************************************)
(* The WebSocket room of one session (src/api/room.ts): presence, a        *)
(* snapshot and a stream for whoever joins, and frames that change the     *)
(* session.                                                                *)
(*                                                                         *)
(* The join handler awaits one read of the aggregate; all it does after    *)
(* that is synchronous.  Its close and message handlers do not exist       *)
(* before.  A frame is committed to the store by the session actions (see  *)
(* SessionLifecycle) and emitted on the log in a later step.  The log      *)
(* retains a suffix of what was emitted (EventLog); event i is log[i + 1]. *)
(* A frame sent to an open socket reaches its client.                      *)
(***************************************************************************)
EXTENDS Integers, Sequences, FiniteSets

CONSTANTS
  Socket,     \* connections, each used once
  Stranger,   \* those without a bearer, or of another tenant
  Speaker,    \* those whose client sends frames and typing heartbeats
  Returning,  \* those that come back with a cursor
  Backlog,    \* MAX_ROOM_BACKLOG_EVENTS
  PerMinute,  \* MAX_ROOM_INGRESS_PER_MINUTE
  Minute,     \* the window, in ticks
  MaxEvents,  \* bound: events on the log
  MaxFrames,  \* bound: frames admitted per socket
  MaxTime     \* bound: ticks

ASSUME RoomAssumption ==
  /\ Stranger \subseteq Socket /\ Speaker \subseteq Socket /\ Returning \subseteq Socket
  /\ Backlog \in Nat \ {0} /\ PerMinute \in Nat \ {0} /\ Minute \in Nat
  /\ MaxEvents \in Nat /\ MaxFrames \in Nat /\ MaxTime \in Nat

VARIABLES
  turns,      \* messages committed to the aggregate
  log,        \* envelopes emitted, oldest first
  oldest,     \* id of the oldest one retained
  members,    \* rooms.get(sessionId)
  sock,       \* what each connection's handler keeps; once it has joined, `since'
              \* is the cursor it was resumed from, None if it was told of a gap
  got,        \* event ids sent on each connection, in order
  roster,     \* the members in the last joined or presence frame sent on it
  typists,    \* who is typing, as shown by its client
  frame,      \* the frame each connection has in flight
  now,        \* Date.now()
  ingressAt,  \* the sliding window of each connection
  admitted    \* history: when its frames were let in

vars == <<turns, log, oldest, members, sock, got, roster, typists, frame, now,
          ingressAt, admitted>>
views == <<got, roster, typists>>
ingress == <<frame, now, ingressAt, admitted>>

None == -3        \* no `since' in the query
Invalid == -2     \* a `since' that is not a number
HasCursor(since) == since >= -1

\* The envelope names this session, none (run events), or the follow-up's.
Envelope == [session : {"this", "none", "sibling"}]
Cursor == Len(log)

Fresh == [phase |-> "new", open |-> TRUE, since |-> None, read |-> 0,
          joined |-> 0, typing |-> "unknown"]

Init ==
  /\ turns = 0 /\ log = <<>> /\ oldest = 0
  /\ members = {}
  /\ sock = [s \in Socket |-> Fresh]
  /\ got = [s \in Socket |-> <<>>]
  /\ roster = [s \in Socket |-> {}]
  /\ typists = [s \in Socket |-> {}]
  /\ frame = [s \in Socket |-> "none"]
  /\ now = 0
  /\ ingressAt = [s \in Socket |-> <<>>]
  /\ admitted = [s \in Socket |-> <<>>]

-----------------------------------------------------------------------------
(* The log and the broadcaster.                                            *)

\* An envelope that names a session is for that room; the others go by
\* correlation, and only the session's own run carries its correlation.
roomFilter(e) == e.session \in {"this", "none"}

Retained(i) == oldest <= i /\ i < Cursor
Subscribed(s) == sock[s].phase = "joined" /\ sock[s].open

Emit(e) ==
  /\ log' = Append(log, e)
  /\ got' = [s \in Socket |->
       IF s \in members /\ Subscribed(s) /\ roomFilter(e)
       THEN Append(got[s], Cursor) ELSE got[s]]

\* What the run of this session, and other sessions, emit meanwhile.
EmitElsewhere ==
  /\ Cursor < MaxEvents
  /\ \E e \in {x \in Envelope : x.session # "this"} : Emit(e)
  /\ UNCHANGED <<turns, oldest, members, sock, roster, typists, ingress>>

\* Rotation drops the oldest file; the newest event is never in it.
Rotate ==
  /\ oldest < Cursor - 1
  /\ oldest' = oldest + 1
  /\ UNCHANGED <<turns, log, members, sock, views, ingress>>

-----------------------------------------------------------------------------
(* Joining and leaving.                                                    *)

broadcastPresence(room) ==
  roster' = [s \in Socket |-> IF s \in room /\ sock'[s].open THEN room ELSE roster[s]]

\* The upgrade: bearer and tenant are checked before the aggregate is read.
Upgrade(s, since) ==
  /\ sock[s].phase = "new"
  /\ since # None => s \in Returning
  /\ sock' = [sock EXCEPT ![s] =
       [@ EXCEPT !.phase = IF s \in Stranger THEN "refused" ELSE "reading", !.since = since]]
  /\ UNCHANGED <<turns, log, oldest, members, views, ingress>>

\* backend.get answers.
Read(s) ==
  /\ sock[s].phase = "reading"
  /\ sock' = [sock EXCEPT ![s] = [@ EXCEPT !.phase = "read", !.read = turns]]
  /\ UNCHANGED <<turns, log, oldest, members, views, ingress>>

\* Ids in order, oldest first: the k-th has k - 1 of them before it.
Ranked(ids, k) == {i \in ids : Cardinality({j \in ids : j < i}) = k - 1}
InOrder(ids) == [k \in 1..Cardinality(ids) |-> CHOOSE i \in Ranked(ids, k) : TRUE]

\* log.replay(since), filtered.
Replayed(since) == {i \in 0..Cursor - 1 : Retained(i) /\ i > since /\ roomFilter(log[i + 1])}

\* Mutant: the oldest end of a long backlog is kept instead of the newest.
CutAtTheNewEnd(since) ==
  LET all == InOrder(Replayed(since))
  IN SubSeq(all, 1, IF Len(all) > Backlog THEN Backlog ELSE Len(all))

\* ... its newest Backlog.
MissedSince(since) ==
  LET all == InOrder(Replayed(since))
  IN SubSeq(all, IF Len(all) > Backlog THEN Len(all) - Backlog + 1 ELSE 1, Len(all))

OffRetention(since) == log # <<>> /\ since < oldest

\* From the answer to the end of the handler: roster, snapshot, backlog or gap,
\* presence, subscription.  A socket that closed meanwhile is entered as well:
\* only the frames to it are dropped.
Join(s) ==
  /\ sock[s].phase = "read"
  /\ LET since == sock[s].since
         resumes == HasCursor(since) /\ ~OffRetention(since)
     IN /\ sock' = [sock EXCEPT ![s] =
             [@ EXCEPT !.phase = "joined", !.joined = Cursor,
                       !.since = IF resumes THEN since ELSE None]]
        /\ got' = [got EXCEPT ![s] = IF sock[s].open /\ resumes THEN MissedSince(since) ELSE @]
  /\ members' = members \cup {s}
  /\ broadcastPresence(members')
  /\ UNCHANGED <<turns, log, oldest, typists, ingress>>

\* Mutant: the others are not told.
LeaveUnannounced(s) ==
  /\ Subscribed(s)
  /\ sock' = [sock EXCEPT ![s] = [Fresh EXCEPT !.phase = "gone", !.open = FALSE]]
  /\ members' = members \ {s}
  /\ got' = [got EXCEPT ![s] = <<>>]
  /\ typists' = [typists EXCEPT ![s] = {}]
  /\ UNCHANGED <<turns, log, oldest, roster, ingress>>

\* The close handler.  (What the client had is forgotten with it.)
Leave(s) ==
  /\ Subscribed(s)
  /\ sock' = [sock EXCEPT ![s] = [Fresh EXCEPT !.phase = "gone", !.open = FALSE]]
  /\ members' = members \ {s}
  /\ broadcastPresence(members')
  /\ got' = [got EXCEPT ![s] = <<>>]
  /\ typists' = [typists EXCEPT ![s] = {}]
  /\ UNCHANGED <<turns, log, oldest, ingress>>

\* A connection that closes while its aggregate is being read: the close handler
\* does not exist yet, and nothing looks at the socket again.
CloseEarly(s) ==
  /\ sock[s].open /\ sock[s].phase \in {"reading", "read"}
  /\ sock' = [sock EXCEPT ![s].open = FALSE]
  /\ UNCHANGED <<turns, log, oldest, members, views, ingress>>

-----------------------------------------------------------------------------
(* Frames.                                                                 *)

\* A heartbeat: repeats are dropped, changes fan out and are not stored.
Typing(s, on) ==
  /\ Subscribed(s) /\ s \in Speaker
  /\ sock[s].typing # on
  /\ sock' = [sock EXCEPT ![s].typing = on]
  /\ typists' = [m \in Socket |->
       IF m \in members /\ Subscribed(m)
       THEN IF on = "yes" THEN typists[m] \cup {s} ELSE typists[m] \ {s}
       ELSE typists[m]]
  /\ UNCHANGED <<turns, log, oldest, members, got, roster, ingress>>

\* The window after throttled() has shifted out what is too old.
Window(s) ==
  LET at == ingressAt[s]
      old == {i \in 1..Len(at) : \A j \in 1..i : at[j] < now - Minute}
  IN SubSeq(at, Cardinality(old) + 1, Len(at))

\* A chat, reply or steer frame is let in.
Admit(s) ==
  /\ Subscribed(s) /\ s \in Speaker /\ frame[s] = "none"
  /\ Len(admitted[s]) < MaxFrames
  /\ Len(Window(s)) < PerMinute
  /\ ingressAt' = [ingressAt EXCEPT ![s] = Append(Window(s), now)]
  /\ admitted' = [admitted EXCEPT ![s] = Append(@, now)]
  /\ frame' = [frame EXCEPT ![s] = "sent"]
  /\ UNCHANGED <<turns, log, oldest, members, sock, views, now>>

\* A frame over the rate is acknowledged with 429.
Throttle(s) ==
  /\ Subscribed(s) /\ s \in Speaker /\ frame[s] = "none"
  /\ Len(Window(s)) >= PerMinute
  /\ ingressAt' = [ingressAt EXCEPT ![s] = Window(s)]
  /\ UNCHANGED <<turns, log, oldest, members, sock, views, frame, now, admitted>>

\* The session action commits the frame, or refuses it.
Commit(s) ==
  /\ frame[s] = "sent" /\ Cursor + Cardinality({x \in Socket : frame[x] = "stored"}) < MaxEvents
  /\ turns' = turns + 1
  /\ frame' = [frame EXCEPT ![s] = "stored"]
  /\ UNCHANGED <<log, oldest, members, sock, views, now, ingressAt, admitted>>

RefuseFrame(s) ==
  /\ frame[s] = "sent"
  /\ frame' = [frame EXCEPT ![s] = "none"]
  /\ UNCHANGED <<turns, log, oldest, members, sock, views, now, ingressAt, admitted>>

\* ... and goes on to emit it, and to acknowledge it.
EmitFrame(s) ==
  /\ frame[s] = "stored"
  /\ Emit([session |-> "this"])
  /\ frame' = [frame EXCEPT ![s] = "none"]
  /\ UNCHANGED <<turns, oldest, members, sock, roster, typists, now, ingressAt, admitted>>

Tick ==
  /\ now < MaxTime
  /\ now' = now + 1
  /\ UNCHANGED <<turns, log, oldest, members, sock, views, frame, ingressAt, admitted>>

Next ==
  \/ EmitElsewhere
  \/ Rotate
  \/ Tick
  \/ \E s \in Socket :
       \/ \E since \in {None, Invalid} \cup -1..Cursor : Upgrade(s, since)
       \/ Read(s) \/ Join(s) \/ Leave(s) \/ CloseEarly(s)
       \/ \E on \in {"yes", "no"} : Typing(s, on)
       \/ Admit(s) \/ Throttle(s)
       \/ Commit(s) \/ RefuseFrame(s) \/ EmitFrame(s)

Spec == Init /\ [][Next]_vars

-----------------------------------------------------------------------------
(* What is checked.                                                        *)

RoomTypeOK ==
  /\ turns \in Nat /\ log \in Seq(Envelope) /\ oldest \in Nat
  /\ members \subseteq Socket
  /\ \A s \in Socket :
       /\ sock[s].phase \in {"new", "refused", "reading", "read", "joined", "gone"}
       /\ sock[s].typing \in {"unknown", "yes", "no"}
       /\ sock[s].read \in 0..turns
       /\ got[s] \in Seq(Nat)
       /\ roster[s] \subseteq Socket /\ typists[s] \subseteq Speaker
       /\ ingressAt[s] \in Seq(0..MaxTime) /\ admitted[s] \in Seq(0..MaxTime)

\* What a member that joined at log position `joined' must have been sent: all
\* that came after, and before that the newest Backlog of what it asked for.
IsDue(s, i) ==
  /\ roomFilter(log[i + 1])
  /\ \/ i >= sock[s].joined
     \/ /\ HasCursor(sock[s].since) /\ i > sock[s].since
        /\ Cardinality({j \in i + 1..sock[s].joined - 1 : roomFilter(log[j + 1])}) < Backlog

\* Backlog and live stream meet without a hole and without a repeat, whatever is
\* emitted, retained or dropped while the joiner's aggregate is being read: a
\* member's stream is, in order, exactly the events it is due.
StreamIsWhole ==
  \A s \in members : sock[s].open =>
    got[s] = InOrder({i \in 0..Cursor - 1 : IsDue(s, i)})

\* All members agree on who is here, whatever the order of joins, leaves and closes,
\* and no member is shown typing who has stopped.
ViewsAgree ==
  \A s \in members :
    /\ sock[s].open => roster[s] = members
    /\ sock[s].open => \A t \in typists[s] : t \in members => sock[t].typing = "yes"

\* No more than PerMinute frames of a connection get in within a minute, wherever
\* the minute begins.
IngressIsBounded ==
  \A s \in Socket : \A k \in 1..Len(admitted[s]) - PerMinute :
    admitted[s][k + PerMinute] - admitted[s][k] > Minute

\* The members see one another as they are, and none of them floods the room.
RoomIsOrderly == RoomTypeOK /\ ViewsAgree /\ IngressIsBounded

Sent(s) == {got[s][k] : k \in DOMAIN got[s]}

\* The comment of the resume ("replay what the client missed, or say it fell off
\* retention"): violated by a backlog longer than its cap.
ResumeIsWhole ==
  \A s \in members : sock[s].open /\ HasCursor(sock[s].since) =>
    \A i \in 0..Cursor - 1 :
      i > sock[s].since /\ roomFilter(log[i + 1]) => i \in Sent(s)

\* Snapshot and stream together show every message: violated by a message that
\* is committed after the snapshot is read and emitted before the subscription.
SnapshotThenStream ==
  \A s \in members : sock[s].open =>
    sock[s].read + Cardinality({i \in 0..Cursor - 1 :
      log[i + 1].session = "this" /\ i \in Sent(s)}) >= 
    Cardinality({i \in 0..Cursor - 1 : log[i + 1].session = "this"})

\* Whoever is on the roster is connected: violated by a connection that closes
\* while its aggregate is being read.
NoGhosts == \A s \in members : sock[s].open
=============================================================================
