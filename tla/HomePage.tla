------------------------------- MODULE HomePage -------------------------------
(***************************************************************************)
(* The home page of the dashboard and the daemon behind it:                *)
(*   dashboard/src/app/HomeClient.tsx            selection, sends, patches  *)
(*   dashboard/src/hooks/useSessions.ts          the list and its patches   *)
(*   dashboard/src/hooks/useEvents.ts            the stream it hears        *)
(*   dashboard/src/hooks/useDeliveryReceipts.ts  ticks on the user's turns  *)
(*                                                                         *)
(* Everything the user types is the same text: receipts are matched by     *)
(* text, so this is the hard case.  Reads are answered with what the       *)
(* daemon held when it read, and answers land in any order.  The browser   *)
(* and the daemon read one clock.                                          *)
(***************************************************************************)
EXTENDS Integers, Sequences, FiniteSets, SequencesExt, FiniteSetsExt

CONSTANTS
  Session,
  MaxBuffered,  \* MAX_BUFFERED_EVENTS
  MaxReceipts,  \* MAX_RECEIPTS
  Faults,       \* "lost": an answer that never arrives though its work was done
  MaxNow,       \* bound: frames emitted and messages sent
  MaxReads,     \* bound: lists asked for and not landed
  MaxDrops      \* bound: connections lost

BoundsArePositive == {MaxBuffered, MaxReceipts} \subseteq Nat \ {0}

VARIABLES
  now,        \* the clock
  status, turns, answered,  \* the daemon's: status, times of the user's turns, replies taken
  wire,       \* frames on their way to the page
  connected, drops,
  buffer,     \* the frames the page keeps
  processed,  \* processedEventRef
  rows,       \* the list shown
  loading,
  answers,    \* reads the daemon has answered, not landed
  selected, saved,  \* ?session=, and the session stored for the next visit
  gone,       \* sharedSessionGoneId
  receipts,
  posts       \* sends in flight, by the button that is busy

daemon == <<status, turns, answered>>
stream == <<connected, drops>>
list == <<rows, loading>>
place == <<selected, saved, gone>>
vars == <<now, daemon, wire, stream, buffer, processed, list, answers, place, receipts, posts>>

None == "none"
Terminal == {"succeeded", "failed", "cancelled"}
Tick == now < MaxNow /\ now' = now + 1

-----------------------------------------------------------------------------
(* The daemon.                                                             *)

\* Mutant: the page listens for a started run as well.
ListensToStarted(f) == TRUE

\* The frames the page has a listener for: not those of a run that starts.
Listened(f) == f.type # "running"

\* What a frame says; the page hears it unless its connection is down.
Emits(frame) == wire' = IF connected /\ Listened(frame) THEN Append(wire, frame) ELSE wire
Frame(s, type) == [eventId |-> now, sessionId |-> s, type |-> type]

Follows(from, to) ==
  \/ from = "queued" /\ to \in {"running", "cancelled"}
  \/ from = "running" /\ to \in Terminal \cup {"awaiting_input"}
  \/ from = "awaiting_input" /\ to = "cancelled"

Move(s, to) ==
  /\ Follows(status[s], to) /\ Tick
  /\ status' = [status EXCEPT ![s] = to]
  /\ Emits(Frame(s, to))
  /\ UNCHANGED <<turns, answered, stream, buffer, processed, list, answers, place, receipts,
                 posts>>

-----------------------------------------------------------------------------
(* useSessions.                                                            *)

Row(s) == [status |-> status[s], turns |-> turns[s]]
Listed == [s \in {x \in Session : status[x] # None} |-> Row(s)]

Ask(kind, content) ==
  /\ Cardinality(answers) < MaxReads
  /\ answers' = answers \cup {[kind |-> kind, of |-> selected, rows |-> content, at |-> now]}

\* The first load; while the daemon wakes it is asked for again.
Load ==
  /\ loading /\ \A a \in answers : a.kind # "load"
  /\ Ask("load", Listed)
  /\ UNCHANGED <<now, daemon, wire, stream, buffer, processed, list, place, receipts, posts>>

\* A shared session beyond the list is read by itself.
Hydrate ==
  /\ selected # None /\ selected \notin DOMAIN rows /\ ~loading /\ gone # selected
  /\ \A a \in answers : a.kind # "one" \/ a.of # selected
  /\ Ask("one", [s \in {selected} \cap DOMAIN Listed |-> Row(s)])
  /\ UNCHANGED <<now, daemon, wire, stream, buffer, processed, list, place, receipts, posts>>

\* The first load lands or gives up.
LandLoad(a) ==
  /\ a.kind = "load"
  /\ rows' \in {a.rows, rows} /\ loading' = FALSE
  /\ UNCHANGED <<gone, selected, saved, posts>>

LandOne(a) ==
  /\ a.kind = "one"
  /\ rows' = [s \in DOMAIN a.rows \cup DOMAIN rows |->
                IF s \in DOMAIN a.rows THEN a.rows[s] ELSE rows[s]]
  /\ gone' = IF DOMAIN a.rows = {} THEN a.of ELSE gone
  /\ UNCHANGED <<loading, selected, saved, posts>>

\* handleSelectSession.
Selects(s) == selected' = s /\ saved' = s

\* A refresh after a send: the list is replaced, or kept if the read failed;
\* then a reply is followed to the session that continues it.
LandRefresh(a) ==
  /\ a.kind \in DOMAIN posts
  /\ rows' \in {a.rows, rows}
  /\ posts' = [posts EXCEPT ![a.kind] = [op |-> None]]
  /\ IF posts[a.kind].next # None THEN Selects(posts[a.kind].next)
     ELSE UNCHANGED <<selected, saved>>
  /\ UNCHANGED <<loading, gone>>

Land(a) ==
  /\ a \in answers /\ answers' = answers \ {a}
  /\ LandLoad(a) \/ LandOne(a) \/ LandRefresh(a)
  /\ UNCHANGED <<now, daemon, wire, stream, buffer, processed, receipts>>

-----------------------------------------------------------------------------
(* useEvents, and the patches HomeClient makes of what it hears.           *)

Keep(seq, max) == SubSeq(seq, Max({1, Len(seq) - max + 1}), Len(seq))

\* The status a frame gives a row.
StatusOf(e) == IF e.type \in Terminal \cup {"running", "awaiting_input"} THEN e.type ELSE None

Rank(s) == IF s = "queued" THEN 0 ELSE IF s \in Terminal THEN 2 ELSE 1

Patched(e) ==
  LET s == e.sessionId
      to == StatusOf(e) IN
  IF \/ e.eventId <= processed \/ to = None \/ s \notin DOMAIN rows
     \/ s \in DOMAIN rows /\ Rank(rows[s].status) > Rank(to)
  THEN rows ELSE [rows EXCEPT ![s].status = to]

Hear ==
  /\ connected /\ wire # <<>>
  /\ wire' = Tail(wire)
  /\ buffer' = Keep(Append(buffer, Head(wire)), MaxBuffered)
  /\ processed' = Max({processed, Head(wire).eventId})
  /\ rows' = Patched(Head(wire))
  /\ UNCHANGED <<now, daemon, stream, loading, answers, place, receipts, posts>>

\* The stream breaks: what was on its way is lost, for good (the server does
\* not read the page's ?lastEventId=).
Drop ==
  /\ connected /\ drops < MaxDrops
  /\ connected' = FALSE /\ drops' = drops + 1 /\ wire' = <<>>
  /\ UNCHANGED <<now, daemon, buffer, processed, list, answers, place, receipts, posts>>

Reconnect ==
  /\ ~connected /\ connected' = TRUE
  /\ UNCHANGED <<now, daemon, wire, drops, buffer, processed, list, answers, place, receipts,
                 posts>>

-----------------------------------------------------------------------------
(* Selecting.                                                              *)

Select(s) ==
  /\ s \in DOMAIN rows /\ s # selected
  /\ Selects(s)
  /\ UNCHANGED <<now, daemon, wire, stream, buffer, processed, list, answers, gone, receipts,
                 posts>>

Close ==
  /\ selected # None
  /\ selected' = None /\ saved' = None
  /\ UNCHANGED <<now, daemon, wire, stream, buffer, processed, list, answers, gone, receipts,
                 posts>>

\* A fresh visit reopens the last session.
Restore ==
  /\ selected = None /\ saved # None
  /\ selected' = saved
  /\ UNCHANGED <<now, daemon, wire, stream, buffer, processed, list, answers, saved, gone,
                 receipts, posts>>

-----------------------------------------------------------------------------
(* Sending.                                                                *)

Shown == IF selected \in DOMAIN rows THEN rows[selected].status ELSE None
Buttons == {"reply", "steer", "ask"}
Free(button) == posts[button].op = None

\* What the page lets the user do with the session it shows.
Offers(op) ==
  CASE op = "reply" -> Shown = "awaiting_input"
    [] op \in {"steer", "cancel"} -> Shown \in {"queued", "running"}
    [] OTHER -> Shown \in Terminal
ButtonOf(op) ==
  CASE op = "cancel" -> "steer" [] op \in {"followup", "resume"} -> "ask" [] OTHER -> op

Post(op) ==
  [op |-> op, session |-> selected, sentAt |-> now, next |-> None, result |-> None]

trackSend(op) ==
  IF op \in {"reply", "steer"}
  THEN Keep(Append(receipts, [session |-> selected, sentAt |-> now, state |-> "sending"]),
            MaxReceipts)
  ELSE receipts

Send(op) ==
  /\ Offers(op) /\ Free(ButtonOf(op)) /\ Tick
  /\ receipts' = trackSend(op)
  /\ posts' = [posts EXCEPT ![ButtonOf(op)] = Post(op)]
  /\ UNCHANGED <<daemon, wire, stream, buffer, processed, list, answers, place>>

\* The daemon takes what was sent: its turn and its echo carry the time.
Result(b, result, next) ==
  posts' = [posts EXCEPT ![b].result = result, ![b].next = next]

TakeTurn(b) ==
  LET p == posts[b] IN
  /\ p.op = "steer" /\ status[p.session] \in {"queued", "running"} /\ Tick
  /\ turns' = [turns EXCEPT ![p.session] = Append(@, now)]
  /\ Emits(Frame(p.session, "echo"))
  /\ Result(b, "ok", None)
  /\ UNCHANGED <<status, answered>>

TakeReply(b) ==
  LET p == posts[b] IN
  /\ p.op = "reply" /\ status[p.session] = "awaiting_input" /\ p.session \notin answered /\ Tick
  /\ turns' = [turns EXCEPT ![p.session] = Append(@, now)]
  /\ answered' = answered \cup {p.session}
  /\ \E f \in Session :
       /\ status[f] = None
       /\ status' = [status EXCEPT ![f] = "queued"]
       /\ Result(b, "ok", f)
  /\ Emits(Frame(p.session, "echo"))

TakeCancel(b) ==
  LET p == posts[b] IN
  /\ p.op = "cancel" /\ Follows(status[p.session], "cancelled") /\ Tick
  /\ status' = [status EXCEPT ![p.session] = "cancelled"]
  /\ Emits(Frame(p.session, "cancelled"))
  /\ Result(b, "ok", None)
  /\ UNCHANGED <<turns, answered>>

TakeAsk(b) ==
  LET p == posts[b] IN
  /\ p.op \in {"followup", "resume"} /\ Tick
  /\ \E f \in Session :
       /\ status[f] = None
       /\ status' = [status EXCEPT ![f] = "queued"]
       /\ Result(b, "ok", f)
  /\ UNCHANGED <<wire, turns, answered>>

Refuse(b) ==
  /\ Result(b, "refused", None)
  /\ UNCHANGED <<now, wire, daemon>>

Take(b) ==
  /\ posts[b].op # None /\ posts[b].result = None
  /\ TakeTurn(b) \/ TakeReply(b) \/ TakeCancel(b) \/ TakeAsk(b) \/ Refuse(b)
  /\ UNCHANGED <<stream, buffer, processed, list, answers, place, receipts>>

settleSend(p, ok) ==
  [i \in DOMAIN receipts |->
    IF p.op \in {"reply", "steer"} /\ receipts[i].session = p.session
         /\ receipts[i].sentAt = p.sentAt
    THEN [receipts[i] EXCEPT !.state = IF ok THEN "sent" ELSE "failed"] ELSE receipts[i]]

\* The answer arrives and the list is read again; a resumed session is shown
\* before that.
Accepted(b) ==
  LET p == posts[b] IN
  /\ p.op # None /\ p.result = "ok"
  /\ \A a \in answers : a.kind # b
  /\ receipts' = settleSend(p, TRUE)
  /\ Ask(b, Listed)
  /\ IF p.op = "resume" THEN selected' = p.next ELSE UNCHANGED selected
  /\ posts' = IF p.op = "resume" THEN [posts EXCEPT ![b].next = None] ELSE posts
  /\ UNCHANGED <<now, daemon, wire, stream, buffer, processed, list, saved, gone>>

\* It is refused, or its answer is lost on the way.
Failed(b) ==
  LET p == posts[b] IN
  /\ p.op # None /\ (p.result = "refused" \/ "lost" \in Faults)
  /\ \A a \in answers : a.kind # b
  /\ receipts' = settleSend(p, FALSE)
  /\ posts' = [posts EXCEPT ![b] = [op |-> None]]
  /\ UNCHANGED <<now, daemon, wire, stream, buffer, processed, list, answers, place>>

-----------------------------------------------------------------------------
(* The ticks SessionThread shows on the turns of the selected session.     *)

\* A session that ended shows its stored narration, in which nothing is echoed.
Echoes ==
  IF Shown \in Terminal THEN {}
  ELSE {e.eventId : e \in {f \in Range(buffer) : f.type = "echo" /\ f.sessionId = selected}}

\* Mutant: any echo of the text counts.
AnyEcho(r) == Echoes # {}

EchoedSince(r) == \E t \in Echoes : t >= r.sentAt

\* Each turn, in order, takes the oldest receipt that may be its own.
Matches(used, at) ==
  {i \in DOMAIN receipts : receipts[i].session = selected /\ i \notin used
                             /\ receipts[i].sentAt <= at}

Taken(shown) ==
  LET taken[k \in DOMAIN shown] ==
        LET own == Matches({taken[j] : j \in 1..(k - 1)}, shown[k])
        IN IF own = {} THEN 0 ELSE Min(own)
  IN taken

TickOf(r) == IF r.state # "failed" /\ EchoedSince(r) THEN "delivered" ELSE r.state

Assigned ==
  LET shown == rows[selected].turns
      taken == Taken(shown)
  IN [k \in DOMAIN shown |-> IF taken[k] = 0 THEN None ELSE TickOf(receipts[taken[k]])]

-----------------------------------------------------------------------------
Init ==
  /\ now = 1
  /\ status \in [Session -> {None, "queued", "awaiting_input"}]
  /\ turns = [s \in Session |-> <<>>] /\ answered = {}
  /\ wire = <<>> /\ connected = TRUE /\ drops = 0
  /\ buffer = <<>> /\ processed = -1
  /\ rows = <<>> /\ loading = TRUE /\ answers = {}
  /\ selected \in Session \cup {None} /\ saved \in Session \cup {None} /\ gone = None
  /\ receipts = <<>>
  /\ posts = [b \in Buttons |-> [op |-> None]]

Next ==
  \/ \E s \in Session : \E to \in Terminal \cup {"running", "awaiting_input"} : Move(s, to)
  \/ Load \/ Hydrate \/ \E a \in answers : Land(a)
  \/ Hear \/ Drop \/ Reconnect
  \/ \E s \in Session : Select(s)
  \/ Close \/ Restore
  \/ \E op \in {"reply", "steer", "cancel", "followup", "resume"} : Send(op)
  \/ \E b \in Buttons : Take(b) \/ Accepted(b) \/ Failed(b)

Spec == Init /\ [][Next]_vars

-----------------------------------------------------------------------------
(* Properties.                                                             *)

Progress(s) ==
  CASE s = "queued" -> 0 [] s = "running" -> 1 [] s = "awaiting_input" -> 2 [] OTHER -> 3

\* "Never regresses a row on a stale or replayed frame": only a list that
\* lands takes a row back to an earlier moment of its session, whatever
\* frames arrive after it.
RowsMoveForward ==
  [][Cardinality(answers') >= Cardinality(answers) =>
       \A s \in DOMAIN rows \cap DOMAIN rows' :
         Progress(rows'[s].status) >= Progress(rows[s].status)]_vars

\* "A resend of identical content must wait for its own echo, not inherit the
\* previous send's delivery": a turn ticked as delivered has its own echo on
\* the page, or that of a turn taken after it.
NoInheritedDelivery ==
  selected \in DOMAIN rows =>
    \A k \in DOMAIN Assigned :
      Assigned[k] = "delivered" => \E t \in Echoes : t >= rows[selected].turns[k]

\* It does while no send of that session, of those the page keeps, has failed.
DeliveryIsItsOwn ==
  (\A i \in DOMAIN receipts : receipts[i].session = selected => receipts[i].state # "failed")
    => NoInheritedDelivery
=============================================================================
