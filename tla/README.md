# AtlasLink: specifications and proofs

AtlasLink's daemon takes missions from people, runs them one at a time through an
LLM provider, keeps an event-sourced aggregate of every session, streams what
happens to browsers, and commits what a run wrote to a git workspace. This
directory holds TLA+ models of that daemon, the TLC configurations that check
them on small instances, and TLAPS proofs of the properties that matter most.

`tlc -config X.cfg M` checks a configuration, `tlapm M.tla` checks a module's
proofs. `PROJECT.json` says which source lines every definition stands for, which
runs there are, which deliberate mistake ("mutant") breaks each property, and
which hazards of the code each property is aimed at.

## 1. The system

Paths are relative to the repository. The daemon is a single Node process: code
between two `await`s is atomic, and everything that crosses an `await` interleaves
with every other request in flight.

| Component | State it keeps | Operations | Correct when |
|---|---|---|---|
| **Session queue** `src/bridge/SessionQueue.ts` | two lanes (interactive, standard), the pump's `running` flag, a count of consecutive interactive turns | `declareSession`, the pump loop | no session is left in a lane with the pump asleep; one run at a time; FIFO per lane; neither lane starves |
| **Task registry** `src/tasks/taskRegistry.ts` | status, prompt, output and `AbortController` of each session of this process | create, start, park, succeed, fail, cancel, abort, reprompt | a terminal status is final; an abort reaches the run it was meant for |
| **Runner** `src/server.ts`, `src/daemon/runTask.ts` | one activation per run: the member-event mirror chain, the resume link | mirror lifecycle to the store, hydrate and drop checkpoints, run, finalize | the store never runs ahead of the registry; the runner always gives the pump back its turn |
| **Request handlers** `src/api/tasks.ts`, `sessionLifecycle.ts`, `sessionActions.ts` (and the task and session subgraphs, which call the same helpers) | what each request read before its last `await` | create, run, cancel, message, reply, steer, ask | one reply per park; decisions taken from stale reads are refused |
| **Session store** `src/session/postgresBackend.ts`, `sqliteDb.ts`, `db.ts`; `sessionStore.ts` in memory; `eventLogBackend.ts` over the bridge's log | event rows or maps, a directory projection, per-object snapshot and version caches, exit buffers, projects, cost buckets | append, get, readModifyWrite, list, flush, delete, projects | version n is written only on a decision taken from 1..n-1; caches serve the rows; the stores answer alike; no tenant sees another's |
| **Schema** `src/session/migrations.ts`, `sqliteMigrations.ts`, `backendFactory.ts` | the tables, the record of applied migrations | migrate up and perhaps down, at every boot | the record describes the tables; rows survive unless a rollback was asked for |
| **Checkpoints** `src/session/checkpointStore.ts`, `deltaChannel.ts` | live mirror, the channel's shadow of what is stored, rows | save, persist, hydrate, drop | a resume starts from one history, the last one if no save failed |
| **Event log and streams** `src/bridge/EventLogStore.ts`, `EventBroadcaster.ts`, `sseEndpoint.ts` | NDJSON tail, two rotated files, `events.seq`, the id cursor, subscribers | emit, rotate, restore, connect with `Last-Event-ID`, the streams of a session and of a project, shutdown | ids are never reused; a resumed stream is complete or says that it is not; a filtered one carries its sessions and no other |
| **Workspaces** `src/workspace/infrastructure/`, `src/daemon/sessionWrites.ts`, `src/subgraphs/files/` | `LOCKS` (a promise chain per workspace), the repositories on disk | ensureWorkspace, commitAll, applySessionWrite, finalizeWorkspace | one writer inside; one baseline; a batch is one commit of its session |
| **Room** `src/api/room.ts` | members per session, ingress window, typing state | join, frames, presence, leave | backlog and live stream meet; members agree on the roster; ingress is bounded |
| **Cost counter** `src/session/costUsage.ts`, `src/api/cost.ts`, the dashboard's cost page | rows per day, agent and model; a once-flag for the backfill; what the page shows | increment, one-shot backfill, history, poll, rollup | what is counted twice, and what an answer lacks, is only what the backfill's races and failures explain; the page catches up; rollups conserve spend |
| **Access** `src/api/auth.ts`, `authRoutes.ts`, `tenant.ts`, `src/session/authStore.ts`, `jwt.ts`; the browser's session in `dashboard/src/lib/` | users, keys, the signing secret, the stored token | register, login, refresh, keys, the gate | one account to an email; an identity acts in one tenant; revoked is final; a dead session is dropped |
| **Dashboard** `dashboard/src/app/HomeClient.tsx`, `components/SocietyDiagram.tsx`, `hooks/`, `lib/` | the list and its patches, receipts, drafts in shared storage, a roster, the canvas, a health timer | lists, frames, sends, selection, polls | rows move forward; a tick is of its own echo; what is shown belongs to the session selected; polls go on |
| **Insights** `src/bridge/insights.ts`, `src/subgraphs/insights/` | none: the trace file another program appends to | report | every readable run is in it once |
| Subgraph schemas, router, configuration, logging, other components | - | pure or delegated | - |

How they interact. A handler commits to the store, then creates the registry
entry, then declares the session to the queue, synchronously. The pump takes it,
emits `session.started` on the event log and awaits the runner. The runner mirrors
every transition to the store by compare-and-set, lets the member events of the
run trail on a promise chain of their own, drains it, finalizes the workspace, and
only then mirrors the end. The pump reads the end from the registry and emits it.
Handlers act on a session in flight through the registry (abort, reprompt) and the
store (compare-and-set), in one order or the other; nothing spans both.

What is hard here is therefore interleaving, stale reads and partial failure,
rather than parallelism: a value read before an `await` and used after it, two
stores of the same truth, best-effort calls whose failure is swallowed, and a disk
that may fail or a process that may die between two system calls. The list of
hazards, each at its line, is in `PROJECT.json`.

## 2. The modules

| Component | Modules | Checked by |
|---|---|---|
| queue and registry | `SessionQueue`, proofs in `SessionLifecycleProofs` | `MCSessionQueue` |
| runner, requests, mirrors | `SessionLifecycle` (EXTENDS `SessionQueue`, and INSTANCEs it as what it implements), proofs in `SessionLifecycleProofs` | `MCSessionLifecycle` |
| event log, SSE clients | `EventLog`, proofs in `BridgeProofs` | `MCBridge` |
| filtered streams | `Feeds`, proofs in `BridgeProofs` | `MCBridge` |
| compare-and-set over SQL | `PostgresBackend`, proofs in `BridgeProofs` | `MCBridge` |
| abstract store | `SessionContract`, what a log leaves of it in `LossyContract`, with `Aggregate` (rehydrate, filters) | `MCBackends` |
| the three stores | `SessionStore`, `EventLogBackend`, `SessionDirectory`, proofs of the first and the last in `BackendsProofs` | `MCBackends` |
| checkpoint rows and cost buckets of a store | `Ledger`, proofs in `BackendsProofs` | `MCBackends` |
| schema | `Migrations`, proofs in `BackendsProofs` | `MCBackends` |
| insights | `Insights` | `MCBridge` |
| checkpoint channel | `Checkpoints`, proofs in `ResumeProofs` | `MCResume` |
| room | `Room`, proofs in `ResumeProofs` | `MCResume` |
| cost | `Spend`, proofs in `SpendProofs` | `MCSpend` |
| workspaces | `Workspace`, proofs in `WorkspaceProofs` | `MCWorkspace` |
| access | `Access`, proofs in `AccessProofs` | `MCAccess` |
| dashboard | `HomePage`, `Overlays`, `Diagram`, `Wake`, proofs in `DashboardProofs` | `MCDashboard` |

An `MCx` module instantiates `x` for TLC, with a symmetry set where only safety is
checked. `MCBridge`, `MCBackends`, `MCResume` and `MCDashboard` put several parts into
one run: the parts share no state, a variable says which of them a behavior is of, and the
others stay where they began. That is a way to check them, not a claim about how
they interact; the composition that matters, queue with runner, registry, requests
and store, is `SessionLifecycle`.

**SessionQueue** - the two lanes (`standard`, `interactive`), `registry`,
`running`, `active`, `consecutive` and the wire (`events`). One action per entry
point: `Declare`, `Cancel`, and for the runner `Start`, `Finish`, `Return`. What the
pump does between two runs is synchronous, so `PumpLoop` is part of `Declare` and of
`Return`; it is written in closed form (which entry of which lane is the next live
one, what is left of the lanes) and not recursively, so that it can be reasoned
about. The runner is abstract: it may start, end with any outcome, and return; with a
store that may fail (`StoreMayFail`) it may also return without having started
(server.ts:388 is inside the runner's `try`) or reject (`Reject`: the terminal mirrors,
server.ts:454-477, are outside of it). A rejecting runner takes `#pump` out by its
`finally` (SessionQueue.ts:108-110): the flag comes down over whatever is in the lanes,
and the next declare takes it up. `void this.#pump()` has no `catch` and nothing in the
daemon handles `unhandledRejection`, so that a Node of the version the Dockerfile names
ends the process there unless it was started with `--unhandled-rejections=warn`; what
then is lost is the hazard of a restart (section 6), and what the model goes on to show
is what the class's own code does if the process lives.

**SessionLifecycle** - the queue composed with the store's aggregate, the runner
of `server.ts` and any number of requests. Each `await` splits a handler: a read
keeps what it saw in `client[c]` or `run`, and the code after it is a later action.
`store[s]` is the aggregate (status, version, prompt, replies), `rows` and `live`
are where a checkpoint is, `controller` the abort controllers. The store is atomic
here: a read, and a compare-and-set, are each one action; the caches are the
subject of the next module. It may fail under every mirror of the runner and under every
hydrate and drop of a checkpoint, whose failure the code swallows: `kept` has the
sessions whose rows such a drop left. `Foreign` are the sessions of other tenants. A
prompt is known by where it came from.

**PostgresBackend** - one session's rows with any number of backend objects over
them, each with its snapshot and version cache. An aggregate is the set of versions
it was rebuilt from. Requests are the callers of the store as the handlers are:
create, read, read-then-write with one retry, mirror, and the delete of the
project. `commits` records what each write's decision had seen.

**EventLog** - the three files, a possibly torn tail, the sidecar, the cursor and
the SSE streams. `emit` is one action (it is one synchronous call) except that a
crash may fall between any two of its system calls. A file is the set of its
readable events and a number of unreadable lines; bytes are counted in lines.

**Workspace** - the lock as it is written: `locks[r]` is the tail of the chain,
`task[t].prev` the promise a caller waits for, `Forget` the callback that deletes
the map entry. One action per git command. A repository is a tree, an index and a
log of commits; a file holds a text, which two writers may share, so that a batch may
find itself there already and be answered the HEAD there is (git.ts:165, :182). `Ignored`
are the paths that the seeded `.gitignore` matches: they are written and never staged.
`wrote` has what a run wrote last to each file, `since` how long the history was when
its batch was written. A member's tool puts any of `ToolText` where it likes; removing a
file is one more such text, which the proofs allow and the cfg leaves out. A run that
rewrites the `.gitignore` itself is not modelled.

**Feeds** - a reader's connection is `asked` (its route reads the store, at a time of
its own), then `open` with the ids the filter was given, then closed. `Emit` delivers
to whoever is open. `stopping` is the shutdown, which closes the open ones.

**SessionContract, LossyContract, Aggregate, SessionStore, EventLogBackend,
SessionDirectory** - the contract is a map from sessions to streams of events, each call
answering in one step in `reply`; `ranks` says whether lists across projects are
answered, which is the one thing the SQL backend does not do on PostgreSQL (`dialect`,
either one). `LossyContract` is the same interface over a log: a write that resolved is
stored or lost, `LoseOldest` takes any number of the oldest events of every session,
`StartOver` keeps nothing but the streams, a deleted project's sessions are `hidden` and
may still be written, and a read is rebuilt from the stream or is what the last read
answered (`last`), forgotten when something is written. Nothing of the log's is in it: no
tombstones, no counting, no pair of caches. Each store has the variables its class has: the memory store its maps
and snapshots, the log backend its two caches over a log that others write to, the
SQL backend rows and the directory patched with each commit. `Aggregate` is
`rehydrate` and `filterSessions`, which all of them use. `MCBackends` drives a store
as `backendContract.ts` does and keeps in `seen` what the log has of each session after
its creator's tombstone; rotation and restarts are `BehindTheLog`, of any lines and at any
time. It creates a session again only after its deletion is written: where a tombstone
was lost the old events would join the new ones, which no contract of streams allows.

**Ledger** - the same calls given to maps and tables: checkpoint rows by tenant, id
and step, cost buckets by key. Reference definitions (`SavedSince`, `Totals`) read
the list of calls: the rows saved since the last delete, and every token recorded, counted
one by one. `driver` is what the tables are read through; node-postgres answers a BIGINT
as a text, and the property has the tables' totals as that text of the same number.

**Migrations** - a database is its tables (columns that matter, and rows) and its
record; a daemon's boot works on a copy that commits as one transaction, or dies.
The environment a daemon boots with says whether it rolls back and to where.

**Insights** - the trace file is the only variable, a sequence of envelopes and torn
lines; the report is a function of it, built by the grouping, ranking and percentile
operators of the code, with ratios in hundredths. `ReportAddsUp` compares it with what
the envelopes say taken one by one.

**Checkpoints** - processes with a live value and a shadow each, one table of rows.
`planWrite`, `Overlay` and `reconstructRows` are functions. The shadow advances when a
save is planned, as in the code; its row is inserted later, at a step read before (with
retries on collision), or never.

**Room** - a socket is new, reading, read, joined or gone: the handler's one `await`
is between reading and joined, and nothing hears a close before. A committed message
is emitted in a later step, as the session actions do. `got`, `roster` and `typists`
are what a client has been sent.

**Spend** - a call is emitted, mirrored and counted in three steps, as the chain of
`server.ts` runs: a mirror that loses its compare-and-set is dropped and the call
counted all the same, one whose store fails rejects its link and the call is not
counted. The backfill checks, lists and writes, and may fail at each; a page's fetch is
sent, arrives, when its window of days is fixed, reads and lands. `counter` says how
often each call was counted; `raced` and `left` remember what the backfill's list met
in the chain or counted, and what of it was not written. Totals are numbers here, as
SQLite and PGlite answer them (`Ledger` has the third driver).

**Access** - a request takes a step per `await` (query, hash, key lookup). Tokens carry
the secret they were signed with, so a restart with another secret invalidates them.
The browser keeps one token; scripts keep keys.

**HomePage, Overlays, Diagram, Wake** - React state as variables, an effect folded
into the step that triggers it, an answer as a record in flight that lands when it
likes. The daemon behind them is a list of sessions whose statuses move on.

## 3. What the runs show

The bounds are the constants of each cfg. Two standard and two interactive sessions
are the fewest for which a lane has an order, a bypass can exceed its bound and a
cancelled entry sits between live ones. Three clients allow a decision, a rival and
a bystander; a conflict, a retry and its second conflict need no more. One standard
session and two follow-ups let a parked session be answered and its follow-up park.

Several properties are conjunctions of named parts, stated where they are defined:
`WireIsFaithful` is serial, FIFO and true to the registry; `StoreAgrees` has the
lifecycle's types, the store behind the registry, and rows for parked sessions only;
`HistoryIsClean` is one baseline and batches that are whole in one commit; and so on.

| Run | Properties | Shows |
|---|---|---|
| `queue_safety` | `NoLostWakeup`, `WireIsFaithful`, `BypassBound`, `PumpTakesItsTurns` | Two standard and two interactive sessions, every order of declare, cancel, run outcome and pump continuation: the queue loses no wakeup, runs one session at a time in lane order, closes it as the registry has it, keeps the fairness bound, whatever runner returns unstarted or rejects, and its closed-form pump loop does what the loop does turn by turn, skipping what was cancelled. |
| `lifecycle_safety` | `StoreAgrees`, `OneFollowupPerPark`, `AbortReachesTheRun`, `TerminalIsFinal` | One standard session, two possible follow-ups and three clients that create, run, cancel, message, answer, steer and ask in any interleaving with the runner, with a store that may fail under every mirror and every drop: terminal aggregates stay terminal, the store never runs ahead of the registry, one park takes one answer, an abort reaches the run it was meant for, and rows are left only by a park, a failed drop or mirror, or another tenant's cancelled park. |
| `lifecycle_settles` | `EventuallySettled`, `QueueIsImplemented` | With creates, cancels and replies in flight, and a store that may fail under the runner, every stored session comes to rest but the one whose runner met the failure, or waits for the next declare behind a runner that rejected; and every behaviour of the composed system is a behaviour of the queue specification, its fairness included. |
| `bridge` | `IdsAreUnique`, `RetainsASuffix`, `HonestResume`, `StreamsCarryTheirSessions`, `CommitsOnWhatItSaw`, `CacheKeepsUp`, `ReportAddsUp` | Four parts of the daemon's storage. The log under every fault of disk and process at once: no id is given twice, retention is a suffix, and a client that resumes is complete or told of a gap. The filtered streams, whose routes read the store while events are emitted: each has what it was promised. The compare-and-set of the SQL backend over two instances, every dialect and durability: a version is only written by someone who saw all the earlier ones, and on SQLite the cache serves the rows. The traces of finished runs, appended out of order and sometimes torn: every report accounts for each readable one once. |
| `workspace` | `MutualExclusion`, `HistoryIsClean`, `RunIsPinned`, `EveryTaskEnds` | A run, its finalization and two requests on one workspace, with refused batches, failing git commands and a crash anywhere: one task at a time is inside, the workspace gets one baseline, an acknowledged batch is whole in one commit, its own or the one that had all of it before, what a run wrote last to a file git looks at is in the commit it was answered, and every waiter ends. |
| `resume` | `StreamIsWhole`, `RoomIsOrderly`, `ChainIsWhole`, `ServesTheLastRow` | What is found on return. Three sockets, one of another tenant and one that returns with a cursor, join, speak, type and close while messages are committed and emitted: backlog and live stream meet without hole or repeat, members agree on the roster and on who types, and no connection exceeds its minute. Two processes save one channel over one table, with saves and drops that fail and crashes anywhere: a resume never starts from two histories spliced together, and when no save failed it starts from the last one. |
| `spend` | `HistoryIsTrue`, `SpendIsConserved`, `PageCatchesUp` | Two calls from before the counter, backfilled by the history route, and a live one that is mirrored and counted meanwhile, over a midnight, with a failing store call anywhere; a page polls, hides, shows and loses answers. A call is counted twice only if the written list met it in the chain or counted; an answer lacks of its window only what a failed backfill had not come to, or all if a live call was counted first; the rollups conserve the spend shown, and a page that stays visible catches up. |
| `store_contract` | `StoresKeepTheSameBooks`, `MigratesSafely`, `MemoryHonoursContract`, `LogHonoursContract`, `SqlHonoursContract` | The three stores driven as the contract's tests drive them: memory implements SessionContract, so does SQL on SQLite, and on PostgreSQL but for its empty lists across projects; the log implements what lost writes, rotation and restarts leave of it (LossyContract). The books of checkpoints and costs are the same in either store, a total a text through node-postgres; and the migrations under two daemons that boot, roll back and die keep sound schemas and surviving data. |
| `access` | `IdentityHolds`, `DeadSessionIsDropped` | Two requests at a time register, log in, refresh, make and revoke keys and are served across a restart with a new secret: one account to an email, one tenant to an account, no key after its revocation, and a session the daemon no longer takes does not stay in the browser. |
| `dashboard` | `DeliveryIsItsOwn`, `TreeOfOneSession`, `PollGoesOn`, `RowsMoveForward`, `TabsKeepTheirOwn` | The pages over two sessions: lists and frames that overtake one another, sends answered late or never, two tabs over one storage with quotas, rosters of rooms left meanwhile, projections of frames missed or repeated, and a health poll that is retried. Rows move forward, a tick belongs to its own echo unless a kept send failed, the canvas is one tree of one session with an id per node but for decisions of one name, drafts stay their session's, no slow read of a roster lands on another session's, and the poll goes on. |

The further bounds, and why they are enough:

* `bridge`: one line to a file and four events, so that the fourth drops the oldest;
  three sessions in two projects for two readers, a project's list cut at one, and
  one reconnection; four callers, which are a creation, a reader that fills the
  cache, a writer and a late decision, over two backend objects; three callers where
  writes answer before they commit; a report over four lines, two to a ranking.
* `workspace`: one session and its two requests are every pair of tasks that meet on one
  lock; three files of which the seeded .gitignore names one, and one text, so that a batch
  may find its files as it would write them and change nothing.
* `resume`: in the room, a speaker, a returning client and a stranger, who knocks first
  (its refusal changes nothing for the others); a backlog of one is exceeded by the second
  missed event; time runs to two minutes. Of the checkpoints, a full row, one delta and the re-anchoring full row after it
  (`SnapshotEvery = 2`), two messages, so that two histories differ.
* `spend`: two calls from before the counter, so that a backfill can stop between them,
  and a live one that pushes one of them out of a tail of two events; a Sunday and a
  Monday of one month, and one midnight, after which the Sunday has left a window of two
  days (HISTORY_WINDOW_DAYS is 30); one store call that fails.
* `store_contract`: four writes over two sessions and two tenants in one project are a
  creation, a park, an answer and a delete or re-creation, on either database; the log, of
  three writes, has one mishap (a lost write, a line of narration, a rotation of any length
  or a restart), which may fall between any read and the next; the schema
  three boots by two daemons under six environments; the books three calls of one token
  or two.
* `access`: two accounts need one email to collide on; a token's lifetime ends or the
  daemon restarts (`MaxTurns = 1`), so that every token dies once, either way.
* `dashboard`: two sessions and two tabs; buffers of two, so that one frame is evicted;
  a clock of five steps orders two identical sends and their echoes. A third send is
  what `dashboard_receipts` adds, with one session and room for three receipts; past
  these bounds there are the theorems.

Two runs record where the code and what is written about it disagree; they are expected
to be violated, and `PROJECT.json` quotes the lines.

* `lifecycle_resume` (`ReplyReachesItsRun`): the runner drops the checkpoint that
  `runSession` is about to look for, so a reply reaches no run.
* `dashboard_receipts` (`NoInheritedDelivery`): useDeliveryReceipts.ts:53-55 has a resend
  of identical content wait for its own echo. The receipt of a refused send stays in the
  list, and line 81 does not ask what became of it: the resend's turn takes it, reads
  failed, and leaves its own receipt to the next identical send, which reads delivered by
  the resend's echo. Where no kept send failed the comment holds (`DeliveryIsItsOwn`).

Further disagreements are kept as configurations that reproduce them, without
being recorded runs:

| Configuration | Property | What TLC finds |
|---|---|---|
| `LifecycleMirrorDrop.cfg` | `AggregateStopsRunning` | server.ts:366-367 takes a conflict for a cancel that landed in between; a chat message conflicts as well, drops the terminal mirror, and the aggregate reads running for good |
| `LifecycleTenant.cfg` | `AggregateIsLive` | server.ts:355 mirrors "so GET /tasks read the live aggregate", through the default tenant's backend: another tenant's session reads queued while it runs and after |
| `LifecycleSteer.cfg` | `RunsTheStoredMission` | two steers of a queued session, both accepted, reach the registry in one order and the store in the other |
| `LifecycleCancel.cfg` | `CancelledIsNotRun` | a cancel between the commit of `session.created` and the registry entry is answered, and the session is then declared and run |
| `WorkspaceAttribution.cfg` | `CommitsAreAttributed` | git.ts:147-150 attributes a change to its session; what a refused batch had written is committed under the next session's trailer |
| `AccessRefusal.cfg` | `RefusalEndsItsOwnSession` | a late 401 of an old session signs the new one out |

Others were met while modelling. Stated as properties of their modules, and violated
under the obvious instances: `ConflictNeedsARival`, `DeletedIsGone`,
`DeleteLeavesNoRows`, `ExitPersists` (`PostgresBackend`: a cache filled before another
process's commit refuses every later write, against postgresBackend.ts:58-60; a
deleted session is served from the cache; a write during the delete leaves its row; in
durability `exit` the mirrors find no aggregate), `NoSilentLoss` (`EventLog`: a
swallowed append is never reported, and the dashboard resumes with `?lastEventId=`,
useEvents.ts:104, which the server does not read, against useEvents.ts:50-52),
`ProjectStreamsGrow` (`Feeds`: sseEndpoint.ts:70-74 grows a project's stream with
`session.created`, which nothing broadcasts), `NeverCountedTwice` and `TableIsExact`
(`Spend`, under the constants of `MCSpend.cfg`: costUsage.ts:40-45, a call counted live
while the backfill has listed it; cost.ts:142-143 says "the table is exact", and a
backfill that failed half-way, or a live call counted before the first history, leaves
it without earlier calls for good), `NeverRunningForever` (`SessionQueue`, under the
constants of `MCSessionQueue.cfg`: SessionQueue.ts:99-100 says watchers never see a
session running forever, and a task whose first mirror throws is never closed),
`AcceptedIsCommitted` (`Workspace`, under the constants of `MCWorkspace.cfg`:
git.ts:58-62, a file the seeded .gitignore names is written and in no commit),
`SqlListsEverything`, `CachedVersionsHold` and `TotalsAreNumbers` (`MCBackends`,
`EventLogBackend` and `Ledger`, under the constants of `MCBackends.cfg`:
backendContract.ts:90-140 lists across projects, which the ranking on PostgreSQL,
postgresBackend.ts:554-579, leaves empty; eventLogBackend.ts:38-39 has the cache
"invalidated on each append", and rotation, which is none, leaves a cached version no
write can be made with; backendContract.ts:419 compares totals with numbers, which
node-postgres answers as texts, which `+=` then joins, cost.ts:68-77),
`NamesNothingTwice` (`Diagram`, under the constants of `MCDashboard.cfg`: graph.ts:162
says of tools "avoid collision via suffix", and two decision frames of one `decisionId`,
graph.ts:173, are drawn as two nodes of one id, laid out with an edge to itself),
`NeverSplicesAtAll` and `FullRowHeals` (`Checkpoints`, under the constants of
`MCResume.cfg`: after a failed save of a full row the next delta is chained, by
length, on an older history; deltaChannel.ts:84-85 says "from the last full snapshot
onward", and a broken delta ends the replay before a later full row is reached),
`ResumeIsWhole`, `SnapshotThenStream` and `NoGhosts` (`Room`, under the constants of
`MCResume.cfg`: room.ts:200 says "replay what the client missed, or say it fell off
retention", and a backlog longer than its cap does neither; a message committed after
the joiner's aggregate is read and emitted before it subscribes is in neither snapshot
nor stream; a socket that closes during that read stays a member), `InterruptCancels`
(`SessionLifecycle`, under the constants of `LifecycleSteer.cfg`: a steer acknowledged as
an interrupt aborts a run that is being set up and then fails, and reads failed).

Read in the code, and not stated as properties:

* *Streams.* A project's list is cut at 500, so an older session's events are in no
  stream of the project; a request whose read is out when the daemon stops opens a
  stream that is never told `bridge.shutdown`; `subscribe` with a replay redelivers to
  every listener (no caller asks for it); useEvents.ts:49 promises jitter and has none.
* *Stores.* The log backend forgets deleted projects, checkpoints and costs on restart,
  and a deleted project's session is shown again once its creation is rotated away;
  memory keeps a checkpoint's last session id, SQL the first row's.
* *Schema.* A blank `SESSION_MIGRATE_DOWN_TO` of spaces is the number 0 and rolls back
  everything; the target is read after migrating up, at every boot; the daemon then
  serves a schema without its tables; on SQLite the loser of two migrating boots fails
  with SQLITE_BUSY; docs/spec/m3-task-api.md:230 has one transaction per migration, the
  code one for all.
* *Access.* With only a legacy token configured, registration creates the account, then
  answers 500, and a retry 409; creating a key as `system` violates the foreign key.
* *Dashboard.* A refresh overwrites a newer row; the page does not subscribe to the
  queued and started frames it handles; a delivered tick vanishes when the session
  ends; two tabs overwrite each other's drafts; two first visits create two inboxes.
* *Doors.* GraphQL checks fewer limits than REST for the same actions; a reply or a
  follow-up may be answered 404 after it was committed (tasks.ts:194, :270).

`CHECK_DEADLOCK FALSE` is set where requests are finite in number and the daemon
then rests; `spend`, whose page polls for ever, checks for deadlock.

## 4. Fairness

* `WF(Runner)`, `WF(RunnerStep)`: the event loop runs every ready continuation, and
  a provider call ends. The queue depends on it: a call that never answers, and that
  nobody aborts, holds the only worker for good.
* `WF(Handler(c))`: a request that has arrived is carried on, and the store answers.
* `WF(Step(t))` per task of a workspace: a git command ends.
* `Spend`: weak fairness of the mirror chain, the count, the backfill once begun and
  each fetch once sent (continuations run, the store answers), and of the page's
  interval timer, which ticks while the page is visible.
* `Access`: weak fairness of each request once sent, and strong fairness of the page's
  poll and of its key lookup: the interval keeps coming back and the daemon comes back
  after a restart, whatever other requests hold the slots of the model meanwhile.

Nobody has to make a request, cancel, answer a park, connect, stay on a page, or write
a file, and no fault is fair.

## 5. What is proved

For every value of the constants, from the assumptions named beside them.

**SessionLifecycleProofs, the queue.** `TypeCorrect`, `NeverLosesAWakeup`, `StandardLaneIsNotStarved`,
`WireTellsTheTruth`, `LanesAreFIFO`, `WireEndsAsTheRegistry`, `CancelledNeverStarts`.
Each is proved of `Steps`, the queue without its fairness, so that the lifecycle can
use it. Types are inductive with the lanes' contents tied to the registry. The wakeup
theorem needs only that the pump loop either drains both lanes or begins a session.
The starvation bound is not inductive by itself: `BypassInv` relates, for each
waiting standard session, the sessions that passed it to `consecutive`, which the
code resets exactly when the standard lane gets a turn or both lanes drain
(`PumpLoopKeepsBound`). Endings on the wire are inductive by themselves (`EndsHold`:
the registry lets nothing out of a terminal status). Order in a lane follows from
`OrderInv`, which says of each lane that what waits in it was declared, in the lane's
order, and that what started left no elder behind. That sessions come one at a time is
`SerialInv`: every start on the wire but the active session's is closed.
What a failing store does to it is part of the statements. A runner that throws before
`registry.start` leaves its session queued and `finish` finds no outcome to emit; one
that rejects leaves the outcome in the registry and emits none: either way the start
stays open on the wire (`unclosed`), and `SerialOnWire` says that nothing else leaves one
open and that such a session has no runner any more. The pump then sleeps over lanes that
are not empty only since a runner rejected (`rejected`), and no session is lost from them.

**SessionLifecycleProofs, the lifecycle.** `LifecycleTypeCorrect`, `AbortsReachTheRun`,
`TerminalNeverMoves`, `StoreTellsTheRegistry`, `OneReplyPerPark`, `TheTwoBooksAgree`,
`LifecycleRefinesQueue`, `OnlyAFailedDropIsResumed`. The ground (`Grounds`) is the types, where
each kind of request may stand, and that there is a run exactly while a session is
active. Each step of the lifecycle is a step of the queue or leaves the queue alone,
so what is proved of `Steps` may be used: a session the pump picks was waiting, hence
never ran. `TerminalNeverMoves` rests on one observation: whoever writes an aggregate
writes on the version it read (`RunSnapshot`, `ClientSnapshot`), every write raises the
version (`AggregatesGrow`), and what was read then was not terminal, so a terminal
status is never the one overwritten. `MirroredLast` says which status of the store
goes with which place of the runner; with `RunAgrees` it gives that the store never
runs ahead of the registry. `OneReply` relates a park's recorded replies to the request
that won the compare-and-set and to the follow-up it made. `CheckpointInv` says whose
checkpoint each row is and that a run past its setup is linked to one only if a drop of
it failed, which is `OnlyAFailedDropIsResumed` and the reason for the recorded
disagreement. `TheTwoBooksAgree` says who has rows at rest: a parked session, one under
whose drop (`kept`) or terminal mirror (`unclosed`) the store failed, and a cancelled park
of another tenant, since the runner saves checkpoints in the default tenant's backend and
a cancel drops them in the session's own (`ForeignLeftover`).

**BridgeProofs, the log.** `LogTypeCorrect`, `LogNeverReusesAStoredId`, `CursorNeverResets`,
`RetentionDropsTheOldest`, `ResumeIsHonest`. `DiskInv` holds through every fault: ids
on disk are unique, and the cursor, or what a restart would restore (the larger of
the sidecar and the last readable line), is ahead of them. `Undamaged` is added as
long as no line was lost: files in order of age, latest event present, no hole, ids
and positions in the same order, and every client's position consistent with its
last id. Its lemmas say what each rename leaves behind.

**BridgeProofs, the streams.** `StreamsAreWhole`, of `MCSpec`, the composition the run
checks. `FeedInv` follows a connection through its phases: what its route lists is all
that the client could know of while the list has room (`Chosen`; sessions are only added,
so a choice stands), and what an open stream was sent is exactly what is due to that list
(`Sent`). That a replay exists in order is proved by counting (`IdsHaveAnOrder`).
It assumes that no id is both a session's and a project's (`InputsKnown`).

**BridgeProofs, the store.** `WritesOnWhatItSaw`, `CacheIsNoHazard`, of any process over the
database (`Store!Spec`), and `StoreCommitsOnWhatItSaw`, `StoreCacheKeepsUp` of the
composition the run checks. What a request or a cache holds of a session is always an
unbroken run of versions `a .. b` (`Unbroken`), and the rows are one up to the newest
version ever written (`Standing`), since only a delete removes any. That is why a length
is enough to compare: it equals the last version only for `1 .. n`, and a write at
`n + 1` gets past the unique key only if nobody else has been there. The newest version
is not a variable of the model, so the invariant says there EXISTS one (`Booked`). On
SQLite one process owns the rows between two awaits of its transaction: `SqliteInv` says
which requests may still hold an older snapshot, and that each has a writer to blame.

**WorkspaceProofs.** `WorkspaceTypeCorrect`, `OneWriterPerWorkspace`,
`OneBaselinePerWorkspace`, `HistoriesAreClean`, `RunsArePinned`. The chain of promises has no order of its own, only a
pointer from each caller to the one before. `LockInv` therefore says that there
EXISTS a ranking of the pending tasks such that each waits for the one just before
it, the free one comes first and the tail in `LOCKS` comes last. Three lemmas cover
all steps: one that leaves the chain alone (`QuietStep`), one that settles its head
(`SettlingStep`) and one that joins at its end (`ChainingStep`), which is where the
new rank is chosen. Mutual exclusion follows as two holders would both be first.
The baseline then follows from mutual exclusion: a task at the baseline commit saw
no HEAD and nobody else was inside since.
What a batch's answer says of the history needs to know how far its files have come at
each step of the task, in the tree, the index and the log: `BatchAt` says it, and
`BatchInv` asks it of every session. Two facts keep it. A task outside the lock changes
a repository only as a member's tool does, or not at all (`OthersKeepTheirBatch`); inside
it there is no one else, and a session has one task at a time (`OneSession`). What a
session wrote stands in the tree (`Stands`), its batch with it (`Included`), until the index and
then a commit have it; the commit answered (`Answers`) is the one made now, or the HEAD that
`git status` found no different. What was answered stays, since a history
only grows (`Grows`). A finalized run's files are pinned by the same invariant.

**AccessProofs.** `IdentitiesHold`. Each decision of a handler is taken from a query
that was answered some awaits ago, so the invariant is about what is in flight:
accounts only grow and are numbered from 1, what a request has looked up speaks of an
account that exists (`Vouched`), and so does every token, in the browser or on its way
(`Speaks`). Key ids are given out once (`KeysInv`), which is what keeps a late update
of `last_used_at` from bringing a deleted key back.

**ResumeProofs, the room.** `BacklogMeetsStream`, `RoomStaysOrderly`. A stream is a set of ids in
order (`InOrder`), so its lemmas come first: adding a newest id appends it
(`OrderGrows`), and the tail of the order is the order of the newest (`TailIsNewest`);
both are inductions over the naturals, which here follow from counting (a set of numbers
closed downwards is `1 .. n`). With them an emitted event keeps every open stream equal
to what is due (`EmitKeepsStreams`), and a join starts with it (`ResumeIsDue`), whatever
was emitted or dropped while the aggregate was being read. The rate holds because the
window is the end of what was let in, and what it has lost is over a minute old (`Rate`).

**ResumeProofs, the checkpoints.** `ResumesFromASave`, `LosesNothing`, both of `MCSpec`
of `MCResume`. The replay of the rows is a recursive function, and what is proved of it
is that a row above all others is replayed last (`ReplayGrows`), by the same induction from counting. The invariant (`Chain`) ties
the rows to what the process that stored the last of them believes is stored: they stand
for a beginning of its shadow (`Trusts`), all of it as long as no save failed, or a
delta that did not fit has ended the replay for good. A delta then either completes
that beginning (`Rejoined`) or, a lost one being in between, is recognised by its length
(`RowLands`). Both theorems speak of histories without a lost full row and without a
delta over somebody else's row (`tainted`); after those the code does splice.

**BackendsProofs.** `MigrationsAreSafe` and `BooksAgree`, of the composition the run checks. What is
committed is, at any time, the database of the first k versions (`Good`): each table is
there exactly from the version that creates it, with rows of the shape that version
gives them (`Shape`). The invariant (`SchemaInv`) adds, for every transaction in flight,
that it stands at some version j (`TxAt`): it has touched exactly the tables of the
versions between k and j, what would be committed now is a good database of j versions,
its plan goes on from j, and if both keep the checkpoint table every channel has the
data of its last full row. A migration takes j one further (`TxMigrates`, on `UpHolds`
and `DownHolds`: it meets what it needs, and the reshaping of the chains keeps the last
full rows, in either dialect's query). A write elsewhere keeps it because on Postgres a
row is only written to a table the transaction has not touched (`TxKept`), and on SQLite
not at all; a commit because on Postgres the advisory lock leaves one transaction at a
time (`OneAtATime`), and on SQLite the committer waits for every reader. That a chain has
a greatest step is counted, as above (`GreatestIs`).

The books' invariant (`BooksInv`) says what each store has, of the calls made. For
checkpoints (`RowsAre`, `LinesAre`): as many rows under an id as saves were retained since
its last delete, the nth with step n - 1 and the content of the nth of those calls
(`Place`: as many retained before it as its step says), and in the table the same rows,
whatever their order; a next step taken from the greatest is then the count (`StepsAre`),
and sorting by step gives the memory's list back (`LinesAgree`). For costs (`CostInv`): a
bucket for each joined key that was recorded under, with its call's tenant, day, agent and
model and as many tokens as there are pairs of a call under that key and one of its tokens;
the table's rows are the map's values. Joined keys tell buckets apart because neither
tenants, days nor agents have a colon (`KeysTell`, from `InputsKnown`). The tables' totals
are then the map's, column by column (`Columns`), whatever the driver makes of a BIGINT.

`MemoryIsTheContract` and `SqlIsTheContract` are refinements, of the composition as
well: each store starts where the contract starts, and a call is the contract's call
with the same answer. Its assumptions are of the calls the driver makes (`CallsKnown`).
In memory the invariant (`MemoryInv`) says that only a live session has events, that a
stream has one creation, at its head, and that a kept snapshot is the session rebuilt
from the events kept with it; a push drops it. For the tables (`SqlInv`), the rows of
a session are all its creator's, which is why a query by tenant and one without find
the same; a row of the directory is what one reads off the session's rows (`RecordOf`),
which each commit must restore from the one event it has (`DirectoryFollows`, by
`LastOfIs`: what the last event of some types is after one more); and no two sessions
were created at one time, which is what makes both orders one. A stream is the rows
sorted by version, one to each of `1 .. n` (`SortedIs`); a list is sorted by rank, the
number of sessions created later, and `RanksLast` and `ListIsSorted` say that the
ranks are `0 .. n - 1`, again by counting. The listing is then the same either way
round (`ListedIs`): the code pages the ids and rebuilds those, the contract rebuilds all
and pages the sessions. On PostgreSQL no event ranks (`NothingRanks`), and the contract's
`ranks` is false. Each store instantiates `Aggregate` for itself, and lemmas such
as `MemoryReads` and `SqlReads` say that the copies mean the same.

**SpendProofs.** `HistoriesAreTrue` and `NothingIsLost`. A call is mirrored and counted
once, in the order of the chain (`Passage`), so its counter exceeds one only if both the
backfill and the chain counted it. `Counts` says who may still count it: a call on the
list being written that is in the chain, or was counted when the list was made, is in
`raced`, and has been counted at most once. `Filled` follows the earlier calls the store
still holds (`Held`): the counter is empty, or has each of them that no failed backfill
had left, or has none of them because a live call was first (`Forestalled`); while a
list is being written each is counted or on the list; and once a request is past the
backfill there is none, or the counter has rows and no backfill will ever write again.
That is why an answer stays as complete as the counter it was read from (`Answers`).
The assumption is that the calls from before the counter are different calls.

`NothingIsLost` is about what is shown, which is always rows of the counter (`Shown`).
The provers cannot instantiate an induction over finite sets that takes a predicate, so
it is stated once for a set `P` of subsets (`ElementInduction`, from the well-foundedness
of the proper subsets), and gives what a sum over a finite set is: it takes its elements
in any order (`SumTakesAny`), joins (`SumJoins`), and may be taken key by key
(`SumByKey`). Taken by agent and then by day it is the buckets' sum (`SpendByAgent`),
taken by week or month an agent's total (`RollKeeps`); and a legend is a set of the
dearest agents, which exists whatever ties there are (`TopExists`), and the rest
(`LegendKeeps`). There are finitely many calls.

**DashboardProofs.** `OnlyListsGoBack`, `TicksAreTheirOwn`, `TabsStayApart`,
`NeverStopsAsking`, `CanvasIsATree`, all of the composition the run checks. A page only ever holds old
news, so the invariant (`HomeInv`) says what old news cannot be wrong about. What the
daemon does is monotone (`Grows`): turns are added, with later times, and a session that
asked goes on asking or is over. A frame or a list that says a session asks is therefore
true for good (`Told`, `TrueList`), and so is a row's list of turns, a beginning of the
daemon's; no frame of a run's start is heard, so none takes an asking row back
(`Forward`). The ticks need the messages in flight as well. One that the daemon has not
taken has no turn since it was sent, unless another one ended the session (`WaitOK`: a
reply and a steer are sent by different buttons), and of two sends to a session that were
settled and did not fail the first has a turn before the second was sent (`Apart`: the
button is busy in between). Every turn but the last thus finds a receipt of its own, by
induction along the turns shown (`OldAreTaken`; the induction is from counting, and the
recursive function is shown to exist in `TakenExists`), and an echo older than a turn
belongs to a receipt some earlier turn took. The hypothesis that no kept send failed is
needed: without it `dashboard_receipts` is the counterexample.
For `Overlays`, what a tab shows was loaded for the session it has selected (`OverInv`);
for `Wake`, an open page checks or has a timer (`PollInv`). For `Diagram`, the
frames drawn were heard (`CanvasInv`), and the rest is about the projection: numbers in
order are a list that repeats none (`InOrderIs`, a rank is an injection into as many
places), so members, steps and, by their suffixes (`SuffixesApart`), parallel calls have
names of their own (`Names`), and decisions have but where two frames share one
(`DecisionsNamed`), of kinds that keep the lists joined apart (`NamesJoin`); hung under the session's node they grow one
tree (`HungGrows`), and the isolated table has no session but the one selected.

Refinements: the lifecycle implements the queue (`QueueIsImplemented`), and the memory
store, the log backend and the SQL backend each implement `SessionContract`. TLC checks
all four; proved are the safety part of the first (`LifecycleRefinesQueue`: initial
states map to initial states, every step to a step or a stutter) and the memory and SQL
stores' (`MemoryIsTheContract`, `SqlIsTheContract`).

Left to TLC alone: liveness (fairness and ENABLED are out of the prover's reach); the
log backend's refinement (`LogHonoursContract`) and the insights report
(`ReportAddsUp`), whose folds over a log would take an induction over the data; and
`PumpTakesItsTurns`, whose turn-by-turn loop is recursive.

## 6. Not modelled, and why

* **Inside a run.** The provider and its tools are outside this repository: a run
  has an outcome, emits member events, may park, may write files.
* **Reads.** Diffs and pinned reads keep no state. Listings are modelled
  where their answer may differ from the aggregates.
* **Restart of the daemon with sessions in flight.** The queue and registry are in
  memory and nothing reads the store at boot, so there is no recovery to state
  anything about; the models of the log, workspaces, checkpoints, schema and access
  do restart.
* **Failing store calls in the request handlers.** The lifecycle lets the store fail
  under the runner's mirrors and under every hydrate and drop of a checkpoint; a failing
  read or append of a handler reaches the client as an error, and is not modelled.
* **Wording, validation, limits on text.** Requests are those that pass validation;
  the cap of 500 interactions is a plain guard.
* **GraphQL.** Resolvers call the helpers the REST handlers call.
* **The REST mirrors of the room, the shared-token gate without an auth store, the
  ?token= upgrade.** They keep no state.
* **Rendering.** Components without state that crosses an `await` or an effect.
* **Cryptography, SQL engines, git.** Taken to do what they promise, except that a git
  command or a query may fail where the code has a branch for it.

## 7. Plan

Written so far, in this order: `SessionQueue`, `SessionLifecycle`, `PostgresBackend`,
`EventLog`, `Workspace` and their proofs; then `Room` with its proofs,
`Checkpoints`, `Spend`, the stores with their contract, `Access`, the dashboard's
modules, `Migrations`, `Ledger`, `Feeds` and `Insights`; and the proofs of `Access`,
`Checkpoints`, `Spend`, `Feeds`, the dashboard and `Migrations`.

Next models: the steer of a queued session with a failing store; two daemons over one
log backend.
