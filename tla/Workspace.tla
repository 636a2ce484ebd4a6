------------------------------ MODULE Workspace ------------------------------
(***************************************************************************)
(* The git workspaces of the projects:                                     *)
(*   src/workspace/infrastructure/lock.ts  one promise chain per workspace *)
(*   src/workspace/infrastructure/git.ts   ensureWorkspace, commitAll,     *)
(*                                         applySessionWrite               *)
(*   src/daemon/sessionWrites.ts           finalizeWorkspace, once per run *)
(*   src/subgraphs/files/resolvers.ts      reads and commitFiles           *)
(*                                                                         *)
(* A task is one call that takes the lock.  Every awaited git command is   *)
(* one action together with the synchronous code that follows it.  git     *)
(* compares texts, whoever wrote them, and leaves alone what the           *)
(* .gitignore seeded in the workspace matches.  The lock is reentrant, so  *)
(* the helpers nested in a task take it for free: ensureWorkspace inside   *)
(* commitAll inside applySessionWrite finds its HEAD and changes nothing.  *)
(***************************************************************************)
EXTENDS Integers, Sequences

CONSTANTS
  Session,   \* runs of the queue, finalized when they end
  Request,   \* requests of the files subgraph
  Repo,      \* workspaces
  Path,      \* files
  Ignored,   \* those of Path the seeded .gitignore keeps out of `git add -A'
  Text,      \* what a file may hold
  Gone,      \* ... or that there is none
  ToolText,  \* what a member's tool may leave where a file was
  Untouched, \* a path that a batch, or a run, does not write
  Faults,    \* what may go wrong
  NoTask

Task == Session \cup Request

ASSUME NoTaskIsNone == NoTask \notin Task
ASSUME SessionsOrRequests == Session \cap Request = {}
ASSUME IgnoredArePaths == Ignored \subseteq Path
ASSUME TextsApart == Gone \notin Text /\ Untouched \notin Text \cup {Gone}
ASSUME ToolTextKnown == ToolText \subseteq Text \cup {Gone}
ASSUME FaultsKnown == Faults \subseteq {"refuse", "fail", "crash"}

VARIABLES
  locks,   \* LOCKS: the last task chained on each workspace
  task,    \* each task
  repos    \* the repositories on disk

vars == <<locks, task, repos>>

-----------------------------------------------------------------------------
(* Files and commits.                                                      *)

Tree == [Path -> Text \cup {Gone}]
Empty == [p \in Path |-> Gone]

\* What is written over a tree: a batch, or all that a run has written.
Writing == [Path -> Text \cup {Gone, Untouched}]
Nothing == [p \in Path |-> Untouched]
Over(tree, w) == [p \in Path |-> IF w[p] = Untouched THEN tree[p] ELSE w[p]]

\* What git looks at.
Tracked == Path \ Ignored
SameFiles(tree, other) == \A p \in Tracked : tree[p] = other[p]

Commit == [by : Session \cup {NoTask}, tree : Tree]
Baseline == [by |-> NoTask, tree |-> Empty]

HasHead(r) == repos[r].log # <<>>
HeadTree(r) == IF HasHead(r) THEN repos[r].log[Len(repos[r].log)].tree ELSE Empty

-----------------------------------------------------------------------------
(* withWorkspaceLock.                                                      *)

Idle == [pc |-> "idle", repo |-> NoTask, prev |-> NoTask, kind |-> "none",
         by |-> NoTask, batch |-> Nothing, since |-> 0, sha |-> 0, wrote |-> Nothing]

Holding == {"init", "head", "baseline", "add", "status", "commit", "sha"}
Settled == {"done", "failed"}
Pending(t) == task[t].pc \in Holding \cup {"waiting"}

\* Mutant: the chain goes on with a holder that succeeded only.
PrevSucceeded(t) == task[t].prev \in {NoTask} \cup {u \in Task : task[u].pc = "done"}

\* prev has settled, whichever way: a failed holder never poisons the chain.
PrevSettled(t) == task[t].prev \in {NoTask} \cup {u \in Task : task[u].pc \in Settled}

\* Mutant: the previous tail is not looked up.
ChainFromNothing(t, r, kind, by, batch) ==
  /\ task' = [task EXCEPT ![t] = [@ EXCEPT !.pc = "waiting", !.repo = r, !.prev = NoTask,
                                           !.kind = kind, !.by = by, !.batch = batch]]
  /\ locks' = [locks EXCEPT ![r] = t]

Chain(t, r, kind, by, batch) ==
  /\ task' = [task EXCEPT ![t] = [@ EXCEPT !.pc = "waiting", !.repo = r, !.prev = locks[r],
                                           !.kind = kind, !.by = by, !.batch = batch]]
  /\ locks' = [locks EXCEPT ![r] = t]

Goto(t, pc) == task' = [task EXCEPT ![t].pc = pc]

\* Mutant: whoever settles clears the chain.
ForgetAnyTail(t) ==
  /\ task[t].pc \in Settled /\ task[t].repo \in Repo
  /\ locks[task[t].repo] # NoTask
  /\ locks' = [locks EXCEPT ![task[t].repo] = NoTask]
  /\ UNCHANGED <<task, repos>>

\* The callback on the tail: it clears the chain if nobody came after.
Forget(t) ==
  /\ task[t].pc \in Settled /\ task[t].repo \in Repo
  /\ locks[task[t].repo] = t
  /\ locks' = [locks EXCEPT ![task[t].repo] = NoTask]
  /\ UNCHANGED <<task, repos>>

-----------------------------------------------------------------------------
(* The run, before its workspace is finalized.                             *)

\* The queue runs one session at a time, its finalization included.
QueueIsFree == \A s \in Session : task[s].pc # "running" /\ ~Pending(s)

Run(s) ==
  /\ task[s].pc = "idle" /\ QueueIsFree
  /\ \E r \in Repo : task' = [task EXCEPT ![s].pc = "running", ![s].repo = r]
  /\ UNCHANGED <<locks, repos>>

\* A member's tool writes or removes a file itself, without the lock.
ToolWrite(s, p) ==
  /\ task[s].pc = "running"
  /\ repos[task[s].repo].git
  /\ \E x \in ToolText :
       /\ repos' = [repos EXCEPT ![task[s].repo].tree[p] = x]
       /\ task' = [task EXCEPT ![s].wrote[p] = x]
  /\ UNCHANGED locks

\* finalizeWorkspace: the fenced writes of the output, or a checkpoint.
Finalize(s) ==
  /\ task[s].pc = "running"
  /\ \E batch \in [Path -> Text \cup {Untouched}] :
       Chain(s, task[s].repo, IF batch = Nothing THEN "commit" ELSE "apply", s, batch)
  /\ UNCHANGED repos

\* A credential-shaped path refuses the batch before the lock is asked for.
RefusedUpfront(s) ==
  /\ "refuse" \in Faults
  /\ task[s].pc = "running"
  /\ Goto(s, "failed")
  /\ UNCHANGED <<locks, repos>>

\* Query.files, file and fileDiff ensure the workspace; commitFiles commits
\* whatever it holds for a session the request names.
Ask(q, r) ==
  /\ task[q].pc = "idle"
  /\ \/ Chain(q, r, "read", NoTask, Nothing)
     \/ \E s \in Session : task[s].pc # "idle" /\ Chain(q, r, "commit", s, Nothing)
  /\ UNCHANGED repos

-----------------------------------------------------------------------------
(* ensureWorkspace.                                                        *)

Enter(t) ==
  /\ task[t].pc = "waiting" /\ PrevSettled(t)
  /\ Goto(t, IF repos[task[t].repo].git THEN "head" ELSE "init")
  /\ UNCHANGED <<locks, repos>>

GitInit(t) ==
  /\ task[t].pc = "init"
  /\ repos' = [repos EXCEPT ![task[t].repo].git = TRUE]
  /\ Goto(t, "head")
  /\ UNCHANGED locks

\* The batch, or what of it was written, is in the tree and the task goes on at pc.
Write(t, pc, w) ==
  /\ task' = [task EXCEPT ![t] = [@ EXCEPT !.pc = pc, !.wrote = Over(task[t].wrote, w),
                                           !.since = Len(repos[task[t].repo].log)]]
  /\ repos' = [repos EXCEPT ![task[t].repo].tree = Over(@, w)]

\* What a task does with its workspace ready: read on without the lock, go on
\* to `git add', or write its batch, every file of it, and then go on.
Proceed(t) == Write(t, IF task[t].kind = "read" THEN "done" ELSE "add", task[t].batch)

\* A path is refused, or a write fails, with part of the batch written.
Refuse(t) ==
  /\ "refuse" \in Faults /\ task[t].kind = "apply"
  /\ \E written \in SUBSET Path :
       LET part == [p \in Path |-> IF p \in written THEN task[t].batch[p] ELSE Untouched]
       IN part # task[t].batch /\ Write(t, "failed", part)

HeadFound(t) ==
  /\ task[t].pc = "head" /\ HasHead(task[t].repo)
  /\ Proceed(t) \/ Refuse(t)
  /\ UNCHANGED locks

HeadMissing(t) ==
  /\ task[t].pc = "head" /\ ~HasHead(task[t].repo)
  /\ Goto(t, "baseline")
  /\ UNCHANGED <<locks, repos>>

\* `git add .gitignore' and the empty baseline commit: dying between the two
\* leaves what dying before them leaves.
CommitBaseline(t) ==
  /\ task[t].pc = "baseline"
  /\ repos' = [repos EXCEPT ![task[t].repo].log = Append(@, Baseline)]
  /\ Goto(t, "head")
  /\ UNCHANGED locks

-----------------------------------------------------------------------------
(* commitAll.                                                              *)

\* What `git add -A' makes of the index.
Staged(index, tree) == [p \in Path |-> IF p \in Ignored THEN index[p] ELSE tree[p]]

\* Mutant: only the batch is staged.
GitAddBatch(t) ==
  /\ task[t].pc = "add"
  /\ repos' = [repos EXCEPT ![task[t].repo].index = Staged(@, Over(@, task[t].batch))]
  /\ Goto(t, "status")
  /\ UNCHANGED locks

GitAdd(t) ==
  /\ task[t].pc = "add"
  /\ repos' = [repos EXCEPT ![task[t].repo].index = Staged(@, repos[task[t].repo].tree)]
  /\ Goto(t, "status")
  /\ UNCHANGED locks

\* Nothing differs, staged or not: the answer is the commit there is.
GitStatus(t) ==
  LET r == task[t].repo
      clean == SameFiles(repos[r].index, HeadTree(r)) /\ SameFiles(repos[r].tree, HeadTree(r))
  IN /\ task[t].pc = "status"
     /\ Goto(t, IF clean THEN "sha" ELSE "commit")
     /\ UNCHANGED <<locks, repos>>

GitCommit(t) ==
  LET r == task[t].repo IN
  /\ task[t].pc = "commit" /\ ~SameFiles(repos[r].index, HeadTree(r))
  /\ repos' = [repos EXCEPT ![r].log =
                 Append(@, [by |-> task[t].by, tree |-> repos[r].index])]
  /\ Goto(t, "sha")
  /\ UNCHANGED locks

\* What `git status' saw was not staged: the commit is empty, and git refuses.
NothingStaged(t) ==
  /\ task[t].pc = "commit"
  /\ SameFiles(repos[task[t].repo].index, HeadTree(task[t].repo))
  /\ Goto(t, "failed")
  /\ UNCHANGED <<locks, repos>>

RevParse(t) ==
  /\ task[t].pc = "sha"
  /\ task' = [task EXCEPT ![t].pc = "done", ![t].sha = Len(repos[task[t].repo].log)]
  /\ UNCHANGED <<locks, repos>>

\* A git command exits non-zero and its helper throws.
GitFails(t) ==
  /\ "fail" \in Faults
  /\ task[t].pc \in Holding
  /\ Goto(t, "failed")
  /\ UNCHANGED <<locks, repos>>

-----------------------------------------------------------------------------
\* The process dies: its locks and tasks are gone, the repositories stay.
Crash ==
  /\ "crash" \in Faults
  /\ \E t \in Task : Pending(t)
  /\ task' = [t \in Task |-> IF Pending(t) \/ task[t].pc = "running"
                             THEN [task[t] EXCEPT !.pc = "dead"] ELSE task[t]]
  /\ locks' = [r \in Repo |-> NoTask]
  /\ UNCHANGED repos

Init ==
  /\ locks = [r \in Repo |-> NoTask]
  /\ task = [t \in Task |-> Idle]
  /\ repos = [r \in Repo |-> [git |-> FALSE, tree |-> Empty, index |-> Empty, log |-> <<>>]]

Step(t) ==
  \/ Enter(t) \/ GitInit(t) \/ HeadFound(t) \/ HeadMissing(t) \/ CommitBaseline(t)
  \/ GitAdd(t) \/ GitStatus(t) \/ GitCommit(t) \/ NothingStaged(t) \/ RevParse(t)

Next ==
  \/ \E s \in Session : \/ Run(s) \/ Finalize(s) \/ RefusedUpfront(s)
                        \/ \E p \in Path : ToolWrite(s, p)
  \/ \E q \in Request, r \in Repo : Ask(q, r)
  \/ \E t \in Task : Step(t) \/ Forget(t) \/ GitFails(t)
  \/ Crash

\* Every git command ends.
Spec == Init /\ [][Next]_vars /\ \A t \in Task : WF_vars(Step(t))

-----------------------------------------------------------------------------
(* Properties.                                                             *)

TypeOK ==
  /\ locks \in [Repo -> Task \cup {NoTask}]
  /\ task \in [Task -> [pc : {"idle", "running", "waiting", "dead"} \cup Holding \cup Settled,
                        repo : Repo \cup {NoTask},
                        prev : Task \cup {NoTask},
                        kind : {"none", "read", "commit", "apply"},
                        by : Session \cup {NoTask},
                        batch : Writing,
                        since : Nat,
                        sha : Nat,
                        wrote : Writing]]
  /\ repos \in [Repo -> [git : BOOLEAN, tree : Tree, index : Tree, log : Seq(Commit)]]

\* The single-writer lock: no two tasks are inside one workspace, whichever
\* tasks came, failed, were forgotten or died in between.
MutualExclusion ==
  \A t, u \in Task :
    /\ task[t].pc \in Holding
    /\ task[u].pc \in Holding
    /\ task[t].repo = task[u].repo
    => t = u

\* The workspace is initialized once: however many tasks find it missing, and
\* wherever one of them failed or died, its history starts with one baseline.
OneBaseline ==
  \A r \in Repo : \A i \in DOMAIN repos[r].log :
    repos[r].log[i].by = NoTask <=> i = 1

\* A commit has everything that w writes, of what git looks at.
Holds(commit, w) == \A p \in Tracked : w[p] # Untouched => commit.tree[p] = w[p]

\* A batch that was acknowledged is one commit that holds all of it: the first
\* one since its files were written, and the run's own, or the one that was there
\* before, when that had all of them already and git found nothing changed.
BatchIsOneCommit ==
  \A s \in Session :
    LET c == task[s] IN
    c.pc = "done" /\ c.kind = "apply" =>
      LET log == repos[c.repo].log IN
        /\ \/ c.sha = c.since
           \/ c.sha = c.since + 1 /\ log[c.sha].by = s
        /\ Holds(log[c.sha], c.batch)

\* A history is one baseline, then commits of which none tears an acknowledged
\* batch apart or mixes it with a later one.
HistoryIsClean == OneBaseline /\ BatchIsOneCommit

\* A finalized run is pinned: the commit it was answered has what the run wrote
\* last to every file git looks at, through its tools or in its batch, even if
\* the files were committed on the way by somebody else.
RunIsPinned ==
  \A s \in Session :
    task[s].pc = "done" => Holds(repos[task[s].repo].log[task[s].sha], task[s].wrote)

\* What the code says of its commits (git.ts:147-150): a commit carries the id of
\* the session whose change it is.  It does not hold: what a refused batch left
\* behind is committed for the next session.
CommitsAreAttributed ==
  \A r \in Repo : \A i \in 2 .. Len(repos[r].log), p \in Path :
    LET log == repos[r].log IN
    log[i].tree[p] # log[i-1].tree[p] => task[log[i].by].wrote[p] # Untouched

\* What the code says of the paths it refuses (git.ts:58-62): what is accepted is
\* not ignored, so an answered batch is in the history whole.  It does not hold: the
\* refusal looks at a file's own name, the .gitignore at its directories' as well.
AcceptedIsCommitted ==
  \A s \in Session :
    task[s].pc = "done" /\ task[s].kind = "apply" =>
      \A p \in Path : task[s].batch[p] # Untouched =>
        repos[task[s].repo].log[task[s].sha].tree[p] = task[s].batch[p]

\* No waiter is left behind: a task that asked for the lock ends, unless the
\* process does.
EveryTaskEnds ==
  \A t \in Task : task[t].pc = "waiting" ~> task[t].pc \in Settled \cup {"dead"}
=============================================================================
