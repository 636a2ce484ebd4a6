-------------------------- MODULE SessionLifecycle --------------------------
(***************************************************************************)
(* A session from ingress to its terminal aggregate: the queue of          *)
(* SessionQueue composed with                                              *)
(*   - the session store behind SessionBackend (an event-sourced aggregate *)
(*     with a compare-and-set on its version);                             *)
(*   - the runner src/server.ts gives the queue, with runSession of        *)
(*     src/daemon/runTask.ts and its checkpoint store;                     *)
(*   - the request handlers of src/api/sessionLifecycle.ts and             *)
(*     src/api/sessionActions.ts: create, cancel, message, reply, steer    *)
(*     and ask, and POST /runs, any number of them in flight.              *)
(*                                                                         *)
(* Granularity: one action per stretch of code between two awaits, plus    *)
(* one per effect the store takes on its own time.  A read of the store is *)
(* an action that keeps what it saw; the code after the await works from   *)
(* what was kept, in a later action.                                       *)
(***************************************************************************)
EXTENDS SessionQueue, FiniteSets

CONSTANTS
  Client,     \* requests: each client makes one
  Ops,        \* the kinds of request the clients make
  Foreign,    \* sessions of a tenant other than the default one
  MaxMember   \* bound: member events mirrored per run

ASSUME OpsKnown ==
  Ops \subseteq {"run", "create", "cancel", "message", "reply", "steer", "ask"}
ASSUME ForeignSessions == Foreign \subseteq Session
ASSUME MemberBound == MaxMember \in Nat

VARIABLES
  store,       \* SessionBackend: the aggregate of each session
  prompt,      \* registry: the mission the run will be given
  link,        \* registry: the session whose checkpoint the run resumes
  controller,  \* registry: the AbortController of each live run
  rows,        \* sessions whose checkpoint has rows in the backend
  kept,        \* history: sessions whose checkpoint outlived a drop under
               \* which the store failed
  live,        \* sessions whose checkpoint is in the in-memory mirror
  run,         \* the runner of the active session
  client       \* the request each client makes

extra == <<store, prompt, link, controller, rows, kept, live, run, client>>
allVars == <<vars, extra>>

-----------------------------------------------------------------------------
(* The aggregate.                                                          *)

Terminal == {"succeeded", "failed", "cancelled"}
StoreStatus == {"absent", "queued", "running", "awaiting_input"} \cup Terminal

\* What a run is told to do: the user's prompt, that prompt with a reply or a
\* question folded in, or the words of the client that steered it.
Mission == {"none", "asked", "asked+reply", "asked+question"} \cup Client

NoAggregate == [status |-> "absent", version |-> 0, replies |-> 0,
                prompt |-> "none", resumeOf |-> NoSession]

\* rehydrate, one event at a time: every event moves the version, lifecycle
\* events move the status, a reply is only counted, a steer rewrites the
\* mission; chat and member events change nothing this model looks at.
Apply(agg, e) ==
  LET next == [agg EXCEPT !.version = @ + 1]
  IN CASE e.type = "created" ->
            [next EXCEPT !.status = "queued", !.prompt = e.prompt,
                         !.resumeOf = e.resumeOf]
       [] e.type \in StoreStatus -> [next EXCEPT !.status = e.type]
       [] e.type = "user_reply" -> [next EXCEPT !.replies = @ + 1]
       [] e.type = "steer" -> [next EXCEPT !.prompt = e.prompt]
       [] OTHER -> next

Lifecycle(type) == [type |-> type]

\* Mutant: append where the code compares and sets.
BlindWrite(s, seen, e) == store' = [store EXCEPT ![s] = Apply(@, e)]

\* readModifyWrite that finds the version it expects, and one that does not.
Write(s, seen, e) ==
  /\ store[s].version = seen
  /\ store' = [store EXCEPT ![s] = Apply(@, e)]
Conflict(s, seen) == store[s].version # seen

-----------------------------------------------------------------------------
(* Initial state.                                                          *)

NoRun == [pc |-> "idle", seen |-> 0, outcome |-> "none", resume |-> NoSession,
          member |-> 0]
NewRun == [NoRun EXCEPT !.pc = "mirror"]

NoRequest == [op |-> "none", pc |-> "idle", s |-> NoSession, saw |-> "absent",
              seen |-> 0, try |-> 0, prev |-> "none", child |-> NoSession,
              resume |-> FALSE, code |-> "none"]

LifecycleInit ==
  /\ Init
  /\ store = [s \in Session |-> NoAggregate]
  /\ prompt = [s \in Session |-> "none"]
  /\ link = [s \in Session |-> NoSession]
  /\ controller = [s \in Session |-> "none"]
  /\ rows = {}
  /\ kept = {}
  /\ live = {}
  /\ run = NoRun
  /\ client = [c \in Client |-> NoRequest]

-----------------------------------------------------------------------------
(* The runner.                                                             *)

\* A step of the runner that leaves the queue, or all of the registry, alone.
QueueAlone == UNCHANGED vars
RegistryAlone == UNCHANGED <<prompt, link, controller>>

\* The runner holds one backend, the default tenant's.  The mirror helper reads
\* the aggregate; nothing is written on one it does not find, or on a cancelled
\* one (0: no version to expect).
MirrorSees(s) ==
  IF s \in Foreign \/ store[s].status \in {"absent", "cancelled"}
  THEN 0 ELSE store[s].version

\* ... and writes its event if nothing was appended since; a conflict drops
\* the event.
MirrorWrites(s, e) ==
  \/ run.seen # 0 /\ Write(s, run.seen, e)
  \/ (run.seen = 0 \/ Conflict(s, run.seen)) /\ UNCHANGED store

RunMirror ==
  /\ run.pc = "mirror"
  /\ run' = [run EXCEPT !.pc = "mirror.write", !.seen = MirrorSees(active)]
  /\ QueueAlone /\ RegistryAlone
  /\ UNCHANGED <<store, rows, kept, live, client>>

RunMirrorWrite ==
  /\ run.pc = "mirror.write"
  /\ MirrorWrites(active, Lifecycle("running"))
  /\ run' = [run EXCEPT !.pc = IF link[active] = NoSession THEN "start" ELSE "hydrate",
                        !.seen = 0, !.resume = link[active]]
  /\ QueueAlone /\ RegistryAlone
  /\ UNCHANGED <<rows, kept, live, client>>

\* The store fails under the first mirror: the throw is caught and logged, and
\* the session is finalized without having been run.
RunMirrorThrows ==
  /\ StoreMayFail
  /\ run.pc \in {"mirror", "mirror.write"}
  /\ run' = [run EXCEPT !.pc = "final", !.seen = 0]
  /\ QueueAlone /\ RegistryAlone
  /\ UNCHANGED <<store, rows, kept, live, client>>

\* hydrate finds nothing, or the store fails under it and the throw is swallowed.
HydratesNot(s) == s \notin live /\ (s \in rows => StoreMayFail)

\* checkpoints.hydrate: from the mirror, else from the rows, else the run is
\* a fresh one.
RunHydrate ==
  /\ run.pc = "hydrate"
  /\ \/ /\ run.resume \in live \cup rows
        /\ live' = live \cup {run.resume}
        /\ run' = [run EXCEPT !.pc = "drop"]
     \/ /\ HydratesNot(run.resume)
        /\ run' = [run EXCEPT !.pc = "start", !.resume = NoSession]
        /\ UNCHANGED live
  /\ QueueAlone /\ RegistryAlone
  /\ UNCHANGED <<store, rows, kept, client>>

\* deleteCheckpoint.  Every caller swallows a failure, and then the rows stay.
DeleteRows(S) ==
  \/ rows' = rows \ S /\ UNCHANGED kept
  \/ StoreMayFail /\ rows' = rows /\ kept' = kept \cup (S \cap rows)

\* The row is consumed: the original's checkpoint leaves the mirror and the
\* backend, if the follow-up's aggregate is found to name it.  A store that fails
\* under one of the two reads before leaves both as they are.
RunDrop ==
  /\ run.pc = "drop"
  /\ LET original == IF active \in Foreign THEN {} ELSE {store[active].resumeOf} \ {NoSession}
     IN \/ live' = live \ original /\ DeleteRows(original)
        \/ /\ StoreMayFail
           /\ kept' = kept \cup original
           /\ UNCHANGED <<live, rows>>
  /\ run' = [run EXCEPT !.pc = "start"]
  /\ QueueAlone /\ RegistryAlone
  /\ UNCHANGED <<store, client>>

\* runSession: registry.start and attachAbort in one tick.  start throws on a
\* session cancelled meanwhile, and the runner goes on to its finalization.
RunStart ==
  /\ run.pc = "start"
  /\ \/ /\ Start
        /\ controller' = [controller EXCEPT ![active] = "attached"]
        /\ run' = [run EXCEPT !.pc = IF run.resume = NoSession THEN "setup" ELSE "rehydrate"]
     \/ /\ registry[active] # "queued"
        /\ run' = [run EXCEPT !.pc = "final", !.resume = NoSession]
        /\ QueueAlone
        /\ UNCHANGED controller
  /\ UNCHANGED <<store, prompt, link, rows, kept, live, client>>

\* runSession hydrates the same checkpoint again.
RunRehydrate ==
  /\ run.pc = "rehydrate"
  /\ \/ /\ run.resume \in live \cup rows
        /\ live' = live \cup {run.resume}
        /\ run' = [run EXCEPT !.pc = "setup"]
     \/ /\ HydratesNot(run.resume)
        /\ run' = [run EXCEPT !.pc = "setup", !.resume = NoSession]
        /\ UNCHANGED live
  /\ QueueAlone /\ RegistryAlone
  /\ UNCHANGED <<store, rows, kept, client>>

\* A member event of the run is mirrored; the mirrors of a run form one chain,
\* and a conflict drops the event as if it had not been.
RunMember ==
  /\ run.pc \in {"flight", "persist", "final"}
  /\ run.member < MaxMember
  /\ MirrorSees(active) # 0
  /\ Write(active, MirrorSees(active), [type |-> "member"])
  /\ run' = [run EXCEPT !.member = @ + 1]
  /\ QueueAlone /\ RegistryAlone
  /\ UNCHANGED <<rows, kept, live, client>>

\* Where the run keeps its checkpoint: a resumed run keeps the original's.
Lineage == IF run.resume = NoSession THEN active ELSE run.resume

\* Mutant: the controller outlives its run.
SettleKeepsController(outcome) ==
  /\ \/ Finish(outcome)
     \/ registry[active] # "running" /\ QueueAlone
  /\ UNCHANGED controller
  /\ run' = [run EXCEPT !.pc = "final", !.resume = NoSession]

\* finish the registry entry if it is still running (a throw of
\* succeed, fail or park is swallowed) and release the controller.
Settle(outcome) ==
  /\ \/ Finish(outcome)
     \/ registry[active] # "running" /\ QueueAlone
  /\ controller' = [controller EXCEPT ![active] = "none"]
  /\ run' = [run EXCEPT !.pc = "final", !.resume = NoSession]

\* createApp builds the run's context, or throws.
RunSetup ==
  /\ run.pc = "setup"
  /\ \/ /\ run' = [run EXCEPT !.pc = "flight"]
        /\ QueueAlone
        /\ UNCHANGED controller
     \/ Settle("failed")
  /\ UNCHANGED <<store, prompt, link, rows, kept, live, client>>

\* The provider call settles first.
RunSettles ==
  /\ run.pc = "flight"
  /\ controller[active] = "attached"
  /\ \E outcome \in {"succeeded", "failed"} : Settle(outcome)
  /\ UNCHANGED <<store, prompt, link, rows, kept, live, client>>

\* The run asks its human: its checkpoint is in the mirror, and is persisted
\* before the registry parks.
RunAsks ==
  /\ run.pc = "flight"
  /\ controller[active] = "attached"
  /\ live' = live \cup {Lineage}
  /\ run' = [run EXCEPT !.pc = "persist"]
  /\ QueueAlone /\ RegistryAlone
  /\ UNCHANGED <<store, rows, kept, client>>

\* persist may fail; the park must not be lost.
RunParks ==
  /\ run.pc = "persist"
  /\ rows' \in {rows, rows \cup {Lineage}}
  /\ UNCHANGED kept
  /\ Settle("parked")
  /\ UNCHANGED <<store, prompt, link, live, client>>

\* The abort wins the race: the registry entry is cancelled, the provider call
\* runs on with its output discarded.
RunAborts ==
  /\ run.pc = "flight"
  /\ controller[active] = "fired"
  /\ \/ Cancel(active)
     \/ registry[active] # "running" /\ QueueAlone
  /\ controller' = [controller EXCEPT ![active] = "none"]
  /\ run' = [run EXCEPT !.pc = "final", !.resume = NoSession]
  /\ UNCHANGED <<store, prompt, link, rows, kept, live, client>>

\* Mutant: a parked run is not mirrored.
RunFinalForgetsPark ==
  /\ run.pc = "final"
  /\ run' = IF registry[active] \in Closing \ {"parked"}
            THEN [run EXCEPT !.pc = "final.write", !.outcome = registry[active],
                             !.seen = MirrorSees(active)]
            ELSE [run EXCEPT !.pc = "return"]
  /\ QueueAlone /\ RegistryAlone
  /\ UNCHANGED <<store, rows, kept, live, client>>

\* Member mirrors are drained and the workspace is committed; then the outcome
\* is read from the registry and the aggregate is read for its mirror.
RunFinal ==
  /\ run.pc = "final"
  /\ run' = IF registry[active] \in Closing
            THEN [run EXCEPT !.pc = "final.write", !.outcome = registry[active],
                             !.seen = MirrorSees(active)]
            ELSE [run EXCEPT !.pc = "return"]
  /\ QueueAlone /\ RegistryAlone
  /\ UNCHANGED <<store, rows, kept, live, client>>

\* Mutant: an interrupted run is mirrored as a failed one.
MirrorTypeAbortFails(outcome) ==
  CASE outcome = "parked" -> "awaiting_input"
    [] outcome = "cancelled" -> "failed"
    [] OTHER -> outcome

MirrorType(outcome) == IF outcome = "parked" THEN "awaiting_input" ELSE outcome

RunFinalWrite ==
  /\ run.pc = "final.write"
  /\ MirrorWrites(active, Lifecycle(MirrorType(run.outcome)))
  /\ run' = [run EXCEPT !.pc = IF run.outcome = "parked" THEN "return" ELSE "prune",
                        !.seen = 0]
  /\ QueueAlone /\ RegistryAlone
  /\ UNCHANGED <<rows, kept, live, client>>

\* The store fails under the terminal mirror, outside of any catch: the runner
\* rejects, and neither mirrors the outcome nor drops the checkpoint.
RunFinalThrows ==
  /\ \/ run.pc = "final"
     \/ run.pc = "final.write" /\ run.seen # 0
  /\ Reject
  /\ run' = NoRun
  /\ RegistryAlone
  /\ UNCHANGED <<store, rows, kept, live, client>>

\* A finished session keeps no checkpoint, but for a failing drop.
RunPrune ==
  /\ run.pc = "prune"
  /\ live' = live \ {active}
  /\ DeleteRows({active})
  /\ run' = [run EXCEPT !.pc = "return"]
  /\ QueueAlone /\ RegistryAlone
  /\ UNCHANGED <<store, client>>

\* Mutant: the pump takes the next session and never launches its runner.
RunReturnsIdle ==
  /\ run.pc = "return"
  /\ Return
  /\ run' = NoRun
  /\ RegistryAlone
  /\ UNCHANGED <<store, rows, kept, live, client>>

\* The runner resolves: the pump closes the session and takes the next.
RunReturns ==
  /\ run.pc = "return"
  /\ Return
  /\ run' = IF running' THEN NewRun ELSE NoRun
  /\ RegistryAlone
  /\ UNCHANGED <<store, rows, kept, live, client>>

RunnerStep ==
  \/ RunMirror \/ RunMirrorWrite \/ RunMirrorThrows \/ RunHydrate \/ RunDrop
  \/ RunStart \/ RunRehydrate \/ RunSetup \/ RunMember \/ RunSettles \/ RunAsks
  \/ RunParks \/ RunAborts \/ RunFinal \/ RunFinalWrite
  \/ RunFinalThrows \/ RunPrune \/ RunReturns

-----------------------------------------------------------------------------
(* The request handlers.                                                   *)

\* Every step of a handler but the declare leaves the runner alone.
RunnerAlone == UNCHANGED run

Answered(r, code) ==
  [NoRequest EXCEPT !.op = r.op, !.s = r.s, !.saw = r.saw, !.pc = "done",
                    !.child = r.child, !.code = code]

\* A refused request answers 409; a steer that rewrote the registry's prompt
\* rolls it back first.
Refused(r) ==
  IF r.prev # "none" THEN [r EXCEPT !.pc = "rollback"] ELSE Answered(r, "409")

\* Mutant: a reply is admitted without looking at the replies already recorded.
AdmitsEveryReply(r, agg) ==
  CASE r.op \in {"cancel", "message"} -> agg.status \notin Terminal
    [] r.op = "reply" -> agg.status = "awaiting_input"
    [] r.op = "steer" -> IF r.saw = "absent" THEN agg.status \in {"queued", "running"}
                                             ELSE agg.status = r.saw
    [] r.op = "ask" -> agg.status \in Terminal

\* The guard each handler applies to the aggregate it read.
Admits(r, agg) ==
  CASE r.op \in {"cancel", "message"} -> agg.status \notin Terminal
    [] r.op = "reply" -> agg.status = "awaiting_input" /\ agg.replies = 0
    [] r.op = "steer" -> IF r.saw = "absent" THEN agg.status \in {"queued", "running"}
                                             ELSE agg.status = r.saw
    [] r.op = "ask" -> agg.status \in Terminal

\* backend.get and the guard on what it returned; r is the request so far.
Reads(c, r, pc) ==
  LET agg == store[r.s]
  IN client' = [client EXCEPT ![c] =
       IF Admits(r, agg)
       THEN [r EXCEPT !.pc = pc, !.saw = agg.status, !.seen = agg.version]
       ELSE Refused(r)]

\* What a handler does once its read is back.
FirstPc(op) ==
  CASE op = "cancel" -> "cancel"
    [] op \in {"message", "reply"} -> "write"
    [] op = "steer" -> "steer"
    [] op = "ask" -> "append"

Arrive(c, op, s) ==
  /\ client[c].pc = "idle"
  /\ op \in Ops \ {"run", "create"}
  /\ store[s].status # "absent"
  /\ Reads(c, [NoRequest EXCEPT !.op = op, !.s = s, !.try = 1], FirstPc(op))
  /\ QueueAlone /\ RegistryAlone /\ RunnerAlone
  /\ UNCHANGED <<store, rows, kept, live>>

\* POST /runs: registered and queued in one tick, with no aggregate.
RunDirectly(c, s) ==
  /\ client[c].pc = "idle"
  /\ "run" \in Ops
  /\ store[s].status = "absent"
  /\ Declare(s)
  /\ prompt' = [prompt EXCEPT ![s] = "asked"]
  /\ run' = IF running THEN run ELSE NewRun
  /\ client' = [client EXCEPT ![c] = Answered([NoRequest EXCEPT !.op = "run", !.s = s], "201")]
  /\ UNCHANGED <<store, link, controller, rows, kept, live>>

\* createSessionAction: the aggregate is committed first ...
Create(c, s) ==
  /\ client[c].pc = "idle"
  /\ "create" \in Ops
  /\ store[s].status = "absent" /\ registry[s] = "absent"
  /\ store' = [store EXCEPT ![s] =
       Apply(@, [type |-> "created", prompt |-> "asked", resumeOf |-> NoSession])]
  /\ client' = [client EXCEPT ![c] =
       [NoRequest EXCEPT !.op = "create", !.s = s, !.child = s, !.pc = "declare"]]
  /\ QueueAlone /\ RegistryAlone /\ RunnerAlone
  /\ UNCHANGED <<rows, kept, live>>

\* ... then registered and queued under the same id (also the last step of
\* the follow-up a reply or a question spawns).
DeclareStep(c) ==
  LET r == client[c] IN
  /\ r.pc = "declare"
  /\ Declare(r.child)
  /\ prompt' = [prompt EXCEPT ![r.child] = store[r.child].prompt]
  /\ link' = [link EXCEPT ![r.child] = IF r.resume THEN r.s ELSE NoSession]
  /\ run' = IF running THEN run ELSE NewRun
  /\ client' = [client EXCEPT ![c] = Answered(r, "201")]
  /\ UNCHANGED <<store, controller, rows, kept, live>>

\* registry.abort: fires the controller of a live run, or reports that there
\* is none.
Abortable(s) == registry[s] = "running" /\ controller[s] # "none"

\* cancelSessionAction on a running aggregate: abort what can be aborted and
\* acknowledge, best effort.
CancelRunning(c) ==
  LET r == client[c] IN
  /\ r.pc = "cancel" /\ r.saw = "running"
  /\ controller' = IF Abortable(r.s) THEN [controller EXCEPT ![r.s] = "fired"] ELSE controller
  /\ client' = [client EXCEPT ![c] = Answered(r, "202 best-effort")]
  /\ QueueAlone /\ RunnerAlone
  /\ UNCHANGED <<store, prompt, link, rows, kept, live>>

\* ... on any other one: commit session.cancelled, with one retry on conflict.
CancelCommit(c) ==
  LET r == client[c] IN
  /\ r.pc = "cancel" /\ r.saw # "running"
  /\ \/ /\ Write(r.s, r.seen, Lifecycle("cancelled"))
        /\ client' = [client EXCEPT ![c].pc = "withdraw"]
     \/ /\ Conflict(r.s, r.seen)
        /\ client' = [client EXCEPT ![c] =
             IF r.try = 1 THEN [r EXCEPT !.pc = "read", !.try = 2]
                          ELSE Answered(r, "409")]
        /\ UNCHANGED store
  /\ QueueAlone /\ RegistryAlone /\ RunnerAlone
  /\ UNCHANGED <<rows, kept, live>>

\* After the commit the registry entry is cancelled, if it still can be.
CancelWithdraw(c) ==
  LET r == client[c] IN
  /\ r.pc = "withdraw"
  /\ \/ Cancel(r.s)
     \/ registry[r.s] \notin {"queued", "parked", "running"} /\ QueueAlone
  /\ client' = [client EXCEPT ![c].pc = "prune"]
  /\ RunnerAlone /\ RegistryAlone
  /\ UNCHANGED <<store, rows, kept, live>>

\* The parked checkpoint's rows go, where the tenant's backend has them; the
\* mirror's copy stays.
CancelPrune(c) ==
  LET r == client[c] IN
  /\ r.pc = "prune"
  /\ DeleteRows({r.s} \ Foreign)
  /\ client' = [client EXCEPT ![c] = Answered(r, "202 cancelled")]
  /\ QueueAlone /\ RegistryAlone /\ RunnerAlone
  /\ UNCHANGED <<store, live>>

\* A retry reads afresh.
Reread(c) ==
  LET r == client[c] IN
  /\ r.pc = "read"
  /\ Reads(c, r, IF r.op = "cancel" THEN "cancel" ELSE "write")
  /\ QueueAlone /\ RegistryAlone /\ RunnerAlone
  /\ UNCHANGED <<store, rows, kept, live>>

\* The event a compare-and-set handler appends, and where it goes from there.
Delta(c) ==
  LET r == client[c]
  IN CASE r.op = "message" -> [type |-> "message"]
       [] r.op = "reply" -> [type |-> "user_reply"]
       [] r.op = "steer" /\ r.saw = "queued" -> [type |-> "steer", prompt |-> c]
       [] r.op = "steer" /\ r.saw = "running" -> [type |-> "user_reply"]

Committed(r) ==
  IF r.op = "reply" THEN [r EXCEPT !.pc = "lookup"]
  ELSE Answered(r, IF r.op = "steer" /\ r.saw = "running" THEN "201 interrupted" ELSE "201")

\* casAppendSessionEvents: two attempts.
CasWrite(c) ==
  LET r == client[c] IN
  /\ r.pc = "write"
  /\ \/ /\ Write(r.s, r.seen, Delta(c))
        /\ client' = [client EXCEPT ![c] = Committed(r)]
     \/ /\ Conflict(r.s, r.seen)
        /\ client' = [client EXCEPT ![c] =
             IF r.try = 1 THEN [r EXCEPT !.pc = "read", !.try = 2] ELSE Refused(r)]
        /\ UNCHANGED store
  /\ QueueAlone /\ RegistryAlone /\ RunnerAlone
  /\ UNCHANGED <<rows, kept, live>>

\* steerSession on a queued aggregate: the registry's prompt moves first, if
\* the run has not begun.
SteerQueued(c) ==
  LET r == client[c] IN
  /\ r.pc = "steer" /\ r.saw = "queued"
  /\ \/ /\ registry[r.s] = "queued"
        /\ prompt' = [prompt EXCEPT ![r.s] = c]
        /\ client' = [client EXCEPT ![c] = [r EXCEPT !.prev = prompt[r.s], !.pc = "read"]]
     \/ /\ registry[r.s] # "queued"
        /\ client' = [client EXCEPT ![c] = Answered(r, "409")]
        /\ UNCHANGED prompt
  /\ QueueAlone /\ RunnerAlone
  /\ UNCHANGED <<store, link, controller, rows, kept, live>>

\* ... and is put back when the aggregate could not be moved.
SteerRollback(c) ==
  LET r == client[c] IN
  /\ r.pc = "rollback"
  /\ prompt' = IF registry[r.s] = "queued" THEN [prompt EXCEPT ![r.s] = r.prev] ELSE prompt
  /\ client' = [client EXCEPT ![c] = Answered(r, "409")]
  /\ QueueAlone /\ RunnerAlone
  /\ UNCHANGED <<store, link, controller, rows, kept, live>>

\* steerSession on a running aggregate: abort first, record second.
SteerRunning(c) ==
  LET r == client[c] IN
  /\ r.pc = "steer" /\ r.saw = "running"
  /\ \/ /\ Abortable(r.s)
        /\ controller' = [controller EXCEPT ![r.s] = "fired"]
        /\ client' = [client EXCEPT ![c].pc = "read"]
     \/ /\ ~Abortable(r.s)
        /\ client' = [client EXCEPT ![c] = Answered(r, "409")]
        /\ UNCHANGED controller
  /\ QueueAlone /\ RunnerAlone
  /\ UNCHANGED <<store, prompt, link, rows, kept, live>>

\* spawnResumeFollowup: is there a checkpoint to resume from?
ReplyLookup(c) ==
  LET r == client[c] IN
  /\ r.pc = "lookup"
  /\ client' = [client EXCEPT ![c].pc = "append", ![c].resume = r.s \in rows \ Foreign]
  /\ QueueAlone /\ RegistryAlone /\ RunnerAlone
  /\ UNCHANGED <<store, rows, kept, live>>

\* The mission of a follow-up: the raw one for a resume, else folded.
FollowupMission(r) ==
  IF r.op = "ask" THEN "asked+question"
  ELSE IF r.resume THEN store[r.s].prompt ELSE "asked+reply"

\* The follow-up is a new session, committed before it is queued.
FollowupAppend(c, f) ==
  LET r == client[c] IN
  /\ r.pc = "append"
  /\ store[f].status = "absent"
  /\ f \in Foreign <=> r.s \in Foreign
  /\ store' = [store EXCEPT ![f] =
       Apply(@, [type |-> "created", prompt |-> FollowupMission(r), resumeOf |-> r.s])]
  /\ client' = [client EXCEPT ![c].pc = "declare", ![c].child = f]
  /\ QueueAlone /\ RegistryAlone /\ RunnerAlone
  /\ UNCHANGED <<rows, kept, live>>

\* A handler's own steps, once its request has arrived.
Handler(c) ==
  \/ DeclareStep(c) \/ CancelRunning(c) \/ CancelCommit(c) \/ CancelWithdraw(c)
  \/ CancelPrune(c) \/ Reread(c) \/ CasWrite(c) \/ SteerQueued(c)
  \/ SteerRollback(c) \/ SteerRunning(c) \/ ReplyLookup(c)
  \/ \E f \in Interactive : FollowupAppend(c, f)

LifecycleNext ==
  \/ \E c \in Client :
       \/ \E op \in Ops, s \in Session : Arrive(c, op, s)
       \/ \E s \in Standard : Create(c, s) \/ RunDirectly(c, s)
       \/ Handler(c)
  \/ RunnerStep

\* The event loop runs every ready continuation and the store answers; a
\* provider call ends.  Nobody has to make a request.
LifecycleFairness ==
  /\ WF_allVars(RunnerStep)
  /\ \A c \in Client : WF_allVars(Handler(c))

LifecycleSpec == LifecycleInit /\ [][LifecycleNext]_allVars /\ LifecycleFairness

-----------------------------------------------------------------------------
(* Properties.                                                             *)

\* The types of the state SessionQueue does not have.
LifecycleTypeOK ==
  /\ store \in [Session -> [status : StoreStatus, version : Nat, replies : Nat,
                            prompt : Mission, resumeOf : Session \cup {NoSession}]]
  /\ prompt \in [Session -> Mission]
  /\ link \in [Session -> Session \cup {NoSession}]
  /\ controller \in [Session -> {"none", "attached", "fired"}]
  /\ rows \subseteq Session /\ live \subseteq Session /\ kept \subseteq Session
  /\ run \in [pc : {"idle", "mirror", "mirror.write", "hydrate", "drop", "start",
                    "rehydrate", "setup", "flight", "persist", "final",
                    "final.write", "prune", "return"},
              seen : Nat, outcome : Closing \cup {"none"},
              resume : Session \cup {NoSession}, member : 0 .. MaxMember]
  /\ (run.pc = "idle") = ~running
  /\ \A c \in Client : client[c].pc \in
       {"idle", "read", "write", "cancel", "steer", "rollback", "append",
        "lookup", "declare", "withdraw", "prune", "done"}

\* A terminal aggregate is final: no mirror, cancel, reply, steer or message
\* in flight moves it again.
TerminalIsFinal ==
  [][\A s \in Session :
       store[s].status \in Terminal => store'[s].status = store[s].status]_allVars

\* Sessions of POST /runs live in the registry alone.
Direct(s) == \E c \in Client : client[c].op = "run" /\ client[c].s = s

\* The store never runs ahead of the execution: what it says of a run's end, the
\* registry says, or said before the park it shows was cancelled.
StoreFollowsRegistry ==
  \A s \in Session :
    /\ store[s].status \in {"succeeded", "failed"} => registry[s] = store[s].status
    /\ store[s].status = "awaiting_input" => registry[s] \in {"parked", "cancelled"}
    /\ registry[s] # "absent" => store[s].status # "absent" \/ Direct(s)

\* The replies to s that spawned a follow-up.
Forks(s) ==
  {c \in Client : client[c].op = "reply" /\ client[c].s = s
                  /\ client[c].child # NoSession}

\* One reply per park: however many clients answer at once, one follow-up is
\* spawned, and only once the reply is recorded on the parked original.
OneFollowupPerPark ==
  \A s \in Session :
    /\ Cardinality(Forks(s)) <= 1
    /\ Forks(s) # {} => store[s].replies = 1

\* A controller belongs to the run in flight, so that an abort that reports
\* success reached a run, and no later run inherits it.
AbortReachesTheRun ==
  \A s \in Session : controller[s] # "none" =>
    /\ s = active
    /\ run.pc \in {"rehydrate", "setup", "flight", "persist"}
    /\ registry[s] \in {"running", "cancelled"}

AtRest == active = NoSession /\ \A c \in Client : client[c].pc \in {"idle", "done"}

\* A park of another tenant's that was cancelled: the cancel prunes in that
\* tenant's backend, while the runner persisted in the default tenant's.
ForeignLeftover(s) == s \in Foreign /\ registry[s] = "cancelled"

\* Checkpoints are pruned on every way out of a run: with no request and no run
\* in flight, whoever has rows in the backend is parked, unless the store failed
\* under a drop of its checkpoint or under its own terminal mirror, or it is
\* another tenant's cancelled park.
OnlyParkedKeepRows ==
  AtRest => \A s \in rows :
    \/ registry[s] = "parked"
    \/ s \in kept \cup unclosed
    \/ ForeignLeftover(s)

\* The store and the registry are two records of one run, and agree: on how it
\* ended, and on who may still be resumed.
StoreAgrees == LifecycleTypeOK /\ StoreFollowsRegistry /\ OnlyParkedKeepRows

\* Lifecycle steps are steps of the queue: the daemon's runner, with its early
\* returns and swallowed errors, is a runner as SessionQueue assumes it, and
\* it always gives the pump back its turn.
QueueIsImplemented == Spec

Rests(s) == store[s].status \in Terminal \cup {"awaiting_input"}

\* Every session the store holds reaches an aggregate that rests: terminal, or
\* waiting for its human.  The store may fail under a mirror: it is the session of
\* that very runner that is left as it was, and the sessions in the lanes behind a
\* runner that rejected wait for the next declare, which takes them up again.
EventuallySettled ==
  \A s \in Session :
    store[s].status # "absent" ~> Rests(s) \/ s \in unclosed \/ (rejected /\ Waits(s))

\* An interrupt acknowledged as such (201, interrupted) leaves the run cancelled.
InterruptCancels ==
  \A c \in Client :
    client[c].code = "201 interrupted" /\ active # client[c].s
      => registry[client[c].s] = "cancelled"

\* While a run is in flight its aggregate has left the queue, for whichever
\* tenant it runs.
AggregateIsLive ==
  run.pc = "flight" /\ ~Direct(active) => store[active].status # "queued"

\* When the runner is done with a session, the aggregate has stopped reading
\* queued or running.
AggregateStopsRunning ==
  run.pc = "return" /\ registry[active] \in Closing
    => store[active].status \in Terminal \cup {"awaiting_input"}

\* A follow-up linked to a checkpoint runs from that checkpoint: its prompt is
\* the raw one, the reply is in the link alone.
ReplyReachesItsRun ==
  run.pc = "flight" /\ link[active] # NoSession => run.resume # NoSession

\* The run executes the mission the history shows, once every steer of the
\* session has been answered, and answered with success.
RunsTheStoredMission ==
  /\ run.pc = "flight"
  /\ \A c \in Client : client[c].op = "steer" /\ client[c].s = active
                         => client[c].code = "201"
  => prompt[active] = store[active].prompt

\* A session whose cancel was answered "cancelled" has no provider call in
\* flight: it was skipped, never run.
CancelledIsNotRun ==
  \A c \in Client :
    client[c].code = "202 cancelled"
      => ~(active = client[c].s /\ run.pc \in {"setup", "flight", "persist"})
=============================================================================
