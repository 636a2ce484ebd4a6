--------------------------- MODULE WorkspaceProofs ---------------------------
(***************************************************************************)
(* The single-writer lock and the one baseline, for any number of tasks    *)
(* and workspaces.  The promise chain has no order of its own, only a      *)
(* pointer from each task to the one before: the invariant says that there *)
(* is a ranking of the pending tasks that these pointers follow.           *)
(***************************************************************************)
EXTENDS Workspace, TLAPS

-----------------------------------------------------------------------------
(* Types.                                                                  *)

TaskType ==
  [pc : {"idle", "running", "waiting", "dead"} \cup Holding \cup Settled,
   repo : Repo \cup {NoTask}, prev : Task \cup {NoTask},
   kind : {"none", "read", "commit", "apply"}, by : Session \cup {NoTask},
   batch : Writing, since : Nat, sha : Nat, wrote : Writing]
RepoType == [git : BOOLEAN, tree : Tree, index : Tree, log : Seq(Commit)]

\* What the fields of a task follow from its progress.
Bound ==
  \A t \in Task :
    /\ task[t].pc \notin {"idle", "dead"} => task[t].repo \in Repo
    /\ Pending(t) => task[t].kind # "none"
    /\ Pending(t) /\ task[t].kind # "read" => task[t].by \in Session
    /\ task[t].kind = "apply" => t \in Session
    /\ task[t].batch # Nothing => task[t].kind = "apply"

TypeInv == TypeOK /\ Bound

LEMMA NothingWrites ==
  /\ Nothing \in Writing
  /\ \A tree \in Tree : Over(tree, Nothing) = tree
  /\ \A w \in Writing : Over(w, Nothing) = w
  BY DEF Nothing, Writing, Over, Tree

\* Written over a tree, or over what was written before.
LEMMA OverTypes ==
  ASSUME NEW w \in Writing
  PROVE  /\ \A tree \in Tree : Over(tree, w) \in Tree
         /\ \A v \in Writing : Over(v, w) \in Writing
  BY TextsApart DEF Writing, Over, Tree

LEMMA EmptyIsTree == Empty \in Tree
  BY DEF Empty, Tree

LEMMA TypeInvInit == Init => TypeInv
<1> SUFFICES ASSUME Init PROVE TypeInv
  OBVIOUS
<1>1. Idle \in TaskType
  BY NothingWrites DEF Idle, TaskType
<1>2. TypeOK
  BY <1>1, EmptyIsTree DEF Init, TypeOK, TaskType
<1>3. Bound
  BY DEF Init, Bound, Idle, Pending, Holding
<1> QED
  BY <1>2, <1>3 DEF TypeInv

LEMMA HeadTreeIsTree ==
  ASSUME TypeOK, NEW r \in Repo
  PROVE  HeadTree(r) \in Tree
<1>1. CASE HasHead(r)
  <2>1. repos[r].log \in Seq(Commit) /\ repos[r].log # <<>>
    BY <1>1 DEF TypeOK, HasHead
  <2>2. repos[r].log[Len(repos[r].log)] \in Commit
    BY <2>1
  <2> QED
    BY <1>1, <2>2 DEF HeadTree, Commit
<1>2. CASE ~HasHead(r)
  BY <1>2, EmptyIsTree DEF HeadTree
<1> QED
  BY <1>1, <1>2

LEMMA ChainTypes ==
  ASSUME TypeInv, NEW t \in Task, NEW r \in Repo, NEW by \in Session \cup {NoTask},
         NEW kind \in {"read", "commit", "apply"}, NEW batch \in Writing,
         kind # "read" => by \in Session,
         kind = "apply" => t \in Session, batch # Nothing => kind = "apply",
         Chain(t, r, kind, by, batch), UNCHANGED repos
  PROVE  TypeInv'
<1> DEFINE new == [task[t] EXCEPT !.pc = "waiting", !.repo = r, !.prev = locks[r],
                                  !.kind = kind, !.by = by, !.batch = batch]
<1>1. task' = [task EXCEPT ![t] = new] /\ locks' = [locks EXCEPT ![r] = t]
  BY DEF Chain
<1>2. /\ locks[r] \in Task \cup {NoTask} /\ task \in [Task -> TaskType]
      /\ locks \in [Repo -> Task \cup {NoTask}]
  BY DEF TypeInv, TypeOK, TaskType
<1>3. /\ new \in TaskType /\ new.pc = "waiting" /\ new.repo = r /\ new.kind = kind
      /\ new.by = by /\ new.batch = batch
  BY <1>2 DEF TaskType
<1> HIDE DEF new
<1>4. TypeOK'
  <2>1. task' \in [Task -> TaskType] /\ locks' \in [Repo -> Task \cup {NoTask}]
    BY <1>1, <1>2, <1>3
  <2> QED
    BY <2>1 DEF TypeInv, TypeOK, TaskType
<1>5. Bound'
  BY <1>1, <1>2, <1>3 DEF TypeInv, Bound, Pending, Holding
<1> QED
  BY <1>4, <1>5 DEF TypeInv

LEMMA GotoTypes ==
  ASSUME TypeInv, NEW t \in Task, task[t].pc \notin {"idle", "dead"},
         NEW pc \in Holding \cup Settled,
         pc \in Holding => Pending(t),
         Goto(t, pc)
  PROVE  /\ task' \in [Task -> TaskType]
         /\ Bound'
<1>1. task \in [Task -> TaskType] /\ Bound
  BY DEF TypeInv, TypeOK, TaskType
<1>2. task' = [task EXCEPT ![t] = [task[t] EXCEPT !.pc = pc]]
  BY DEF Goto
<1>3. pc \in {"idle", "running", "waiting", "dead"} \cup Holding \cup Settled
  OBVIOUS
<1>4. [task[t] EXCEPT !.pc = pc] \in TaskType
  BY <1>1, <1>3 DEF TaskType
<1>5. task' \in [Task -> TaskType]
  BY <1>1, <1>2, <1>4
<1>6. ASSUME NEW u \in Task
      PROVE  /\ task'[u].repo = task[u].repo /\ task'[u].kind = task[u].kind
             /\ task'[u].by = task[u].by /\ task'[u].batch = task[u].batch
             /\ task'[u].pc = (IF u = t THEN pc ELSE task[u].pc)
  BY <1>1, <1>2 DEF TaskType
<1>7. pc \in Holding => Pending(t)
  OBVIOUS
<1>8. "waiting" \notin Holding \cup Settled /\ Holding \cap Settled = {}
  BY DEF Holding, Settled
<1>9. Bound'
  BY <1>1, <1>6, <1>7, <1>8 DEF Bound, Pending
<1> QED
  BY <1>5, <1>9

LEMMA FinalizeChains ==
  ASSUME NEW s, Finalize(s)
  PROVE  \E batch \in Writing :
           Chain(s, task[s].repo, IF batch = Nothing THEN "commit" ELSE "apply", s, batch)
<1>1. [Path -> Text \cup {Untouched}] \subseteq Writing
  BY DEF Writing
<1> QED
  BY <1>1 DEF Finalize

\* A write puts the same over the tree and over what the task has written.
LEMMA WriteTypes ==
  ASSUME TypeInv, NEW t \in Task, task[t].pc \in Holding,
         NEW pc \in Holding \cup Settled, NEW w \in Writing, Write(t, pc, w)
  PROVE  /\ TypeOK' \/ locks' # locks
         /\ Bound'
         /\ \A u \in Task : u # t => task'[u] = task[u]
         /\ task'[t].pc = pc /\ task'[t].repo = task[t].repo /\ task'[t].kind = task[t].kind
         /\ task'[t].prev = task[t].prev
         /\ task'[t].by = task[t].by /\ task'[t].batch = task[t].batch
         /\ task'[t].wrote = Over(task[t].wrote, w)
         /\ task'[t].since = Len(repos[task[t].repo].log)
         /\ task[t].repo \in Repo
         /\ \A r \in Repo : r # task[t].repo => repos'[r] = repos[r]
         /\ \A r \in Repo : repos'[r].log = repos[r].log /\ repos'[r].index = repos[r].index
         /\ repos'[task[t].repo].tree = Over(repos[task[t].repo].tree, w)
<1>1. task \in [Task -> TaskType] /\ repos \in [Repo -> RepoType]
  BY DEF TypeInv, TypeOK, TaskType, RepoType
<1> DEFINE r == task[t].repo
           new == [task[t] EXCEPT !.pc = pc, !.wrote = Over(task[t].wrote, w),
                                 !.since = Len(repos[r].log)]
           over == [repos[r] EXCEPT !.tree = Over(@, w)]
<1>2. r \in Repo /\ Pending(t)
  BY DEF TypeInv, Bound, Pending, Holding
<1>3. task' = [task EXCEPT ![t] = new] /\ repos' = [repos EXCEPT ![r] = over]
  <2>1. task' = [task EXCEPT ![t] = new]
    BY DEF Write
  <2>2. repos' = [repos EXCEPT ![r] = over]
    BY DEF Write
  <2> QED
    BY <2>1, <2>2
<1>4. Len(repos[r].log) \in Nat /\ repos[r] \in RepoType /\ task[t] \in TaskType
  BY <1>1, <1>2 DEF RepoType
<1>5. /\ new \in TaskType /\ new.pc = pc /\ new.repo = r /\ new.kind = task[t].kind
      /\ new.prev = task[t].prev
      /\ new.by = task[t].by /\ new.batch = task[t].batch
      /\ new.wrote = Over(task[t].wrote, w) /\ new.since = Len(repos[r].log)
  <2>1. Over(task[t].wrote, w) \in Writing
    BY <1>4, OverTypes DEF TaskType
  <2>2. pc \in {"idle", "running", "waiting", "dead"} \cup Holding \cup Settled
    OBVIOUS
  <2> QED
    BY <1>4, <2>1, <2>2 DEF TaskType
<1>6. /\ over \in RepoType /\ over.log = repos[r].log /\ over.index = repos[r].index
      /\ over.tree = Over(repos[r].tree, w)
  <2>1. Over(repos[r].tree, w) \in Tree
    BY <1>4, OverTypes DEF RepoType
  <2> QED
    BY <1>4, <2>1 DEF RepoType
<1> HIDE DEF new, over
<1>7. task' \in [Task -> TaskType] /\ repos' \in [Repo -> RepoType]
  BY <1>1, <1>3, <1>5, <1>6
<1>8. Bound'
  BY <1>1, <1>2, <1>3, <1>5 DEF TypeInv, Bound, Pending, Holding
<1>9. locks' = locks => TypeOK'
  BY <1>7 DEF TypeInv, TypeOK, TaskType, RepoType
<1> QED
  BY <1>1, <1>2, <1>3, <1>5, <1>6, <1>8, <1>9

LEMMA PartWrites ==
  ASSUME TypeInv, NEW t \in Task, HeadFound(t)
  PROVE  \/ Proceed(t) /\ task[t].batch \in Writing
         \/ /\ task[t].kind = "apply"
            /\ \E part \in Writing : Write(t, "failed", part)
<1>1. task[t].batch \in Writing
  BY DEF TypeInv, TypeOK
<1>2. ASSUME Refuse(t)
      PROVE  task[t].kind = "apply" /\ \E part \in Writing : Write(t, "failed", part)
  <2>1. PICK written \in SUBSET Path :
          Write(t, "failed", [p \in Path |-> IF p \in written THEN task[t].batch[p] ELSE Untouched])
    BY <1>2 DEF Refuse
  <2>2. [p \in Path |-> IF p \in written THEN task[t].batch[p] ELSE Untouched] \in Writing
    BY <1>1 DEF Writing
  <2> QED
    BY <1>2, <2>1, <2>2 DEF Refuse
<1> QED
  BY <1>1, <1>2 DEF HeadFound

LEMMA ToolTypes ==
  ASSUME TypeInv, NEW s \in Session, NEW p \in Path, NEW x \in ToolText,
         task[s].pc = "running", task[s].repo \in Repo,
         repos' = [repos EXCEPT ![task[s].repo].tree[p] = x],
         task' = [task EXCEPT ![s].wrote[p] = x]
  PROVE  /\ task' \in [Task -> TaskType] /\ repos' \in [Repo -> RepoType]
         /\ \A u \in Task : u # s => task'[u] = task[u]
         /\ task'[s].pc = "running" /\ task'[s].repo = task[s].repo
         /\ task'[s].kind = task[s].kind /\ task'[s].by = task[s].by
         /\ task'[s].batch = task[s].batch /\ task'[s].prev = task[s].prev
         /\ \A q \in Path :
              /\ task'[s].wrote[q] = IF q = p THEN x ELSE task[s].wrote[q]
              /\ repos'[task[s].repo].tree[q] = IF q = p THEN x ELSE repos[task[s].repo].tree[q]
         /\ \A r \in Repo : r # task[s].repo => repos'[r] = repos[r]
         /\ \A r \in Repo : repos'[r].log = repos[r].log /\ repos'[r].index = repos[r].index
<1>1. /\ task \in [Task -> TaskType] /\ repos \in [Repo -> RepoType] /\ s \in Task
      /\ x \in Text \cup {Gone}
  BY ToolTextKnown DEF TypeInv, TypeOK, TaskType, RepoType, Task
<1> DEFINE r == task[s].repo
           wrote == [task[s].wrote EXCEPT ![p] = x]
           tree == [repos[r].tree EXCEPT ![p] = x]
<1>2. task[s] \in TaskType /\ repos[r] \in RepoType
  BY <1>1
<1>3. /\ wrote \in Writing /\ \A q \in Path : wrote[q] = IF q = p THEN x ELSE task[s].wrote[q]
      /\ tree \in Tree /\ \A q \in Path : tree[q] = IF q = p THEN x ELSE repos[r].tree[q]
  BY <1>1, <1>2 DEF TaskType, RepoType, Writing, Tree
<1> DEFINE new == [task[s] EXCEPT !.wrote = wrote]
           over == [repos[r] EXCEPT !.tree = tree]
<1>4. task' = [task EXCEPT ![s] = new] /\ repos' = [repos EXCEPT ![r] = over]
  OBVIOUS
<1> HIDE DEF wrote, tree
<1>5. /\ new \in TaskType /\ new.pc = "running" /\ new.repo = r /\ new.kind = task[s].kind
      /\ new.by = task[s].by /\ new.batch = task[s].batch /\ new.prev = task[s].prev
      /\ new.wrote = wrote
  BY <1>2, <1>3 DEF TaskType
<1>6. /\ over \in RepoType /\ over.log = repos[r].log /\ over.index = repos[r].index
      /\ over.tree = tree
  BY <1>2, <1>3 DEF RepoType
<1> HIDE DEF new, over
<1> QED
  BY <1>1, <1>3, <1>4, <1>5, <1>6

\* A tool changes one file, and what its run has written.
LEMMA ToolMoves ==
  ASSUME TypeInv, NEW s \in Session, NEW p \in Path, ToolWrite(s, p)
  PROVE  /\ s \in Task /\ task[s].pc = "running" /\ task[s].repo \in Repo
         /\ locks' = locks /\ task' \in [Task -> TaskType] /\ repos' \in [Repo -> RepoType]
         /\ \A u \in Task :
              /\ u # s => task'[u] = task[u]
              /\ task'[u].pc = task[u].pc /\ task'[u].repo = task[u].repo
              /\ task'[u].kind = task[u].kind /\ task'[u].by = task[u].by
              /\ task'[u].batch = task[u].batch /\ task'[u].prev = task[u].prev
         /\ \E x \in ToolText : \A q \in Path :
              /\ task'[s].wrote[q] = IF q = p THEN x ELSE task[s].wrote[q]
              /\ repos'[task[s].repo].tree[q] = IF q = p THEN x ELSE repos[task[s].repo].tree[q]
         /\ \A r \in Repo : r # task[s].repo => repos'[r] = repos[r]
         /\ \A r \in Repo : repos'[r].log = repos[r].log /\ repos'[r].index = repos[r].index
<1>1. task[s].pc = "running" /\ task[s].repo \in Repo /\ s \in Task /\ locks' = locks
  BY DEF ToolWrite, TypeInv, Bound, Task
<1>2. PICK x \in ToolText : /\ repos' = [repos EXCEPT ![task[s].repo].tree[p] = x]
                            /\ task' = [task EXCEPT ![s].wrote[p] = x]
  BY DEF ToolWrite
<1>3. /\ task' \in [Task -> TaskType] /\ repos' \in [Repo -> RepoType]
      /\ \A u \in Task : u # s => task'[u] = task[u]
      /\ task'[s].pc = "running" /\ task'[s].repo = task[s].repo
      /\ task'[s].kind = task[s].kind /\ task'[s].by = task[s].by
      /\ task'[s].batch = task[s].batch /\ task'[s].prev = task[s].prev
      /\ \A q \in Path :
           /\ task'[s].wrote[q] = IF q = p THEN x ELSE task[s].wrote[q]
           /\ repos'[task[s].repo].tree[q] = IF q = p THEN x ELSE repos[task[s].repo].tree[q]
      /\ \A r \in Repo : r # task[s].repo => repos'[r] = repos[r]
      /\ \A r \in Repo : repos'[r].log = repos[r].log /\ repos'[r].index = repos[r].index
  BY <1>1, <1>2, ToolTypes
<1>4. \A u \in Task :
        /\ task'[u].pc = task[u].pc /\ task'[u].repo = task[u].repo
        /\ task'[u].kind = task[u].kind /\ task'[u].by = task[u].by
        /\ task'[u].batch = task[u].batch /\ task'[u].prev = task[u].prev
  BY <1>1, <1>3
<1> QED
  BY <1>1, <1>3, <1>4

LEMMA TypeInvStep == TypeInv /\ [Next]_vars => TypeInv'
<1> SUFFICES ASSUME TypeInv, [Next]_vars PROVE TypeInv'
  OBVIOUS
<1> USE DEF TypeInv
<1>1. ASSUME NEW s \in Session, Run(s) PROVE TypeInv'
  <2>1. PICK r \in Repo : task' = [task EXCEPT ![s].pc = "running", ![s].repo = r]
    BY <1>1 DEF Run
  <2>2. s \in Task /\ task \in [Task -> TaskType]
    BY DEF Task, TypeOK, TaskType
  <2>3. /\ task' \in [Task -> TaskType]
        /\ \A u \in Task :
             /\ u # s => task'[u] = task[u]
             /\ task'[u].kind = task[u].kind /\ task'[u].by = task[u].by
             /\ task'[u].batch = task[u].batch
        /\ task'[s].pc = "running" /\ task'[s].repo = r
    <3>1. task' = [task EXCEPT ![s] = [task[s] EXCEPT !.pc = "running", !.repo = r]]
      BY <2>1
    <3>2. [task[s] EXCEPT !.pc = "running", !.repo = r] \in TaskType
      BY <2>2 DEF TaskType
    <3>3. task' \in [Task -> TaskType]
      BY <2>2, <3>1, <3>2
    <3> QED
      BY <2>2, <3>1, <3>3 DEF TaskType
  <2>4. TypeOK'
    BY <1>1, <2>3 DEF Run, TypeOK, TaskType
  <2>5. Bound'
    BY <2>2, <2>3 DEF Bound, Pending, Holding
  <2> QED
    BY <2>4, <2>5
<1>2. ASSUME NEW s \in Session, Finalize(s) PROVE TypeInv'
  <2>1. PICK batch \in Writing :
          Chain(s, task[s].repo, IF batch = Nothing THEN "commit" ELSE "apply", s, batch)
    BY <1>2, FinalizeChains
  <2>2. task[s].repo \in Repo
    BY <1>2 DEF Finalize, Bound, Task
  <2> QED
    BY <1>2, <2>1, <2>2, ChainTypes DEF Finalize, Task
<1>3. ASSUME NEW s \in Session, RefusedUpfront(s) PROVE TypeInv'
  BY <1>3, GotoTypes DEF RefusedUpfront, TypeOK, TaskType, Settled, Holding, Task
<1>4. ASSUME NEW s \in Session, NEW p \in Path, ToolWrite(s, p) PROVE TypeInv'
  <2>1. TypeOK'
    BY <1>4, ToolMoves DEF TypeOK, TaskType, RepoType
  <2>2. Bound'
    <3>1. \A u \in Task :
            /\ task'[u].pc = task[u].pc /\ task'[u].repo = task[u].repo
            /\ task'[u].kind = task[u].kind /\ task'[u].by = task[u].by
            /\ task'[u].batch = task[u].batch
      BY <1>4, ToolMoves
    <3> QED
      BY <3>1 DEF Bound, Pending
  <2> QED
    BY <2>1, <2>2
<1>5. ASSUME NEW q \in Request, NEW r \in Repo, Ask(q, r) PROVE TypeInv'
  BY <1>5, ChainTypes, NothingWrites DEF Ask, Task
<1>6. ASSUME NEW t \in Task, Forget(t) PROVE TypeInv'
  BY <1>6 DEF Forget, TypeOK, Bound, Pending
<1>7. ASSUME NEW t \in Task, GitFails(t) PROVE TypeInv'
  BY <1>7, GotoTypes DEF GitFails, TypeOK, TaskType, Settled, Holding
<1>8. ASSUME Crash PROVE TypeInv'
  <2>1. task \in [Task -> TaskType]
    BY DEF TypeOK, TaskType
  <2>2. ASSUME NEW t \in Task
        PROVE  /\ task'[t] \in TaskType
               /\ task'[t] = task[t] \/ task'[t] = [task[t] EXCEPT !.pc = "dead"]
               /\ task[t].pc = "dead" => task'[t].pc = "dead"
    BY <1>8, <2>1 DEF Crash, TaskType, Pending, Holding
  <2>3. task' \in [Task -> TaskType] /\ locks' \in [Repo -> Task \cup {NoTask}]
    BY <1>8, <2>2 DEF Crash
  <2>4. TypeOK'
    BY <1>8, <2>3 DEF Crash, TypeOK, TaskType
  <2>5. ASSUME NEW t \in Task
        PROVE  /\ task'[t].kind = task[t].kind /\ task'[t].by = task[t].by
               /\ task'[t].batch = task[t].batch /\ task'[t].repo = task[t].repo
               /\ task'[t].pc = task[t].pc \/ task'[t].pc = "dead"
    <3>1. task[t] \in TaskType
      BY <2>1
    <3>2. CASE task'[t] = task[t]
      BY <3>2
    <3>3. CASE task'[t] = [task[t] EXCEPT !.pc = "dead"]
      BY <3>1, <3>3 DEF TaskType
    <3> QED
      BY <2>2, <3>2, <3>3
  <2>6. ASSUME NEW t \in Task PROVE Pending(t)' => Pending(t)
    BY <2>5 DEF Pending, Holding
  <2>7. Bound'
    BY <2>5, <2>6 DEF Bound
  <2> QED
    BY <2>4, <2>7
<1>9. ASSUME NEW t \in Task, Step(t) PROVE TypeInv'
  <2> USE <1>9
  <2>0. Pending(t) => task[t].repo \in Repo /\ repos[task[t].repo] \in RepoType
    BY DEF TypeOK, RepoType, Bound, Pending, Holding
  <2>1. CASE Enter(t)
    BY <2>1, GotoTypes DEF Enter, TypeOK, TaskType, Pending, Holding
  <2>2. CASE GitInit(t)
    BY <2>2, GotoTypes DEF GitInit, TypeOK, TaskType, Pending, Holding
  <2>3. CASE HeadMissing(t)
    BY <2>3, GotoTypes DEF HeadMissing, TypeOK, TaskType, Pending, Holding
  <2>4. CASE CommitBaseline(t)
    <3>1. Baseline \in Commit
      BY EmptyIsTree DEF Baseline, Commit
    <3>2. Append(repos[task[t].repo].log, Baseline) \in Seq(Commit)
      BY <2>0, <2>4, <3>1 DEF CommitBaseline, Pending, Holding, RepoType
    <3>3. repos' \in [Repo -> RepoType]
      BY <2>0, <2>4, <3>2 DEF CommitBaseline, Pending, Holding, TypeOK, RepoType
    <3> QED
      BY <2>4, <3>3, GotoTypes DEF CommitBaseline, TypeOK, TaskType, RepoType, Pending, Holding
  <2>5. CASE HeadFound(t)
    <3>1. task[t].pc \in Holding /\ locks' = locks
      BY <2>5 DEF HeadFound, Holding
    <3>2. "add" \in Holding \cup Settled /\ {"done", "failed"} \subseteq Holding \cup Settled
      BY DEF Holding, Settled
    <3>3. \E pc \in Holding \cup Settled, w \in Writing : Write(t, pc, w)
      BY <2>5, <3>2, PartWrites DEF Proceed
    <3> QED
      BY <3>1, <3>3, WriteTypes
  <2>6. CASE GitAdd(t)
    <3>1. repos' \in [Repo -> RepoType]
      <4>1. \A index, tree \in Tree : Staged(index, tree) \in Tree
        BY DEF Staged, Tree
      <4> QED
        BY <2>0, <2>6, <4>1 DEF GitAdd, Pending, Holding, TypeOK, RepoType
    <3> QED
      BY <2>6, <3>1, GotoTypes DEF GitAdd, TypeOK, TaskType, RepoType, Pending, Holding
  <2>7. CASE GitStatus(t)
    BY <2>7, GotoTypes DEF GitStatus, TypeOK, TaskType, Pending, Holding
  <2>8. CASE GitCommit(t)
    <3> DEFINE c == [by |-> task[t].by, tree |-> repos[task[t].repo].index]
    <3>1. c \in Commit
      BY <2>0, <2>8 DEF GitCommit, Pending, Holding, RepoType, TypeOK, Commit
    <3>2. Append(repos[task[t].repo].log, c) \in Seq(Commit)
      BY <2>0, <2>8, <3>1 DEF GitCommit, Pending, Holding, RepoType
    <3>3. repos' \in [Repo -> RepoType]
      BY <2>0, <2>8, <3>2 DEF GitCommit, Pending, Holding, TypeOK, RepoType
    <3> QED
      BY <2>8, <3>3, GotoTypes DEF GitCommit, TypeOK, TaskType, RepoType, Pending, Holding
  <2>9. CASE NothingStaged(t)
    BY <2>9, GotoTypes DEF NothingStaged, TypeOK, TaskType, Settled, Holding
  <2>10. CASE RevParse(t)
    <3>1. Len(repos[task[t].repo].log) \in Nat
      BY <2>0, <2>10 DEF RevParse, Pending, Holding, RepoType
    <3>2. task \in [Task -> TaskType]
      BY DEF TypeOK, TaskType
    <3>3. /\ task' \in [Task -> TaskType]
          /\ \A u \in Task :
               /\ task'[u].kind = task[u].kind /\ task'[u].by = task[u].by
               /\ task'[u].batch = task[u].batch /\ task'[u].repo = task[u].repo
               /\ task'[u].pc = (IF u = t THEN "done" ELSE task[u].pc)
      <4>1. task' = [task EXCEPT ![t] = [task[t] EXCEPT !.pc = "done",
                                                        !.sha = Len(repos[task[t].repo].log)]]
        BY <2>10 DEF RevParse
      <4>2. [task[t] EXCEPT !.pc = "done", !.sha = Len(repos[task[t].repo].log)] \in TaskType
        BY <3>1, <3>2 DEF TaskType, Settled
      <4>3. task' \in [Task -> TaskType]
        BY <3>2, <4>1, <4>2
      <4> QED
        BY <3>2, <4>1, <4>3 DEF TaskType
    <3>4. Bound'
      BY <2>10, <3>3 DEF RevParse, Bound, Pending, Holding
    <3> QED
      BY <2>10, <3>3, <3>4 DEF RevParse, TypeOK, TaskType
  <2> QED
    BY <2>1, <2>2, <2>3, <2>4, <2>5, <2>6, <2>7, <2>8, <2>9, <2>10 DEF Step
<1>10. CASE UNCHANGED vars
  BY <1>10 DEF vars, TypeOK, Bound, Pending
<1> QED
  BY <1>1, <1>2, <1>3, <1>4, <1>5, <1>6, <1>7, <1>8, <1>9, <1>10 DEF Next

\* Every task that took the lock has its type, and keeps to its workspace.
THEOREM WorkspaceTypeCorrect == Spec => []TypeOK
<1>1. TypeInv => TypeOK
  BY DEF TypeInv
<1> QED
  BY <1>1, TypeInvInit, TypeInvStep, PTL DEF Spec

-----------------------------------------------------------------------------
(* The promise chain.                                                      *)

Together(t, u) == Pending(t) /\ Pending(u) /\ task[t].repo = task[u].repo

\* A ranking of the tasks that the chain follows: each waits for the one just
\* before it, the free one comes first, and the one in LOCKS comes last.
Ranked(f) ==
  /\ \A t, u \in Task : Together(t, u) /\ f[t] = f[u] => t = u
  /\ \A t \in Task : Pending(t) => locks[task[t].repo] \in Task
  /\ \A t, w \in Task : Pending(t) /\ locks[task[t].repo] = w => Together(t, w) /\ f[t] <= f[w]
  /\ \A t \in Task : Pending(t) /\ ~PrevSettled(t) => task[t].prev \in Task
  /\ \A t, w \in Task : Pending(t) /\ ~PrevSettled(t) /\ task[t].prev = w =>
       /\ Together(t, w) /\ f[w] < f[t]
       /\ \A u \in Task : Together(t, u) => f[u] <= f[w] \/ f[t] <= f[u]
  /\ \A t, u \in Task : Together(t, u) /\ PrevSettled(t) => f[t] <= f[u]
  /\ \A t \in Task : task[t].pc \in Holding => PrevSettled(t)
  /\ \A r \in Repo, w \in Task : locks[r] = w =>
       task[w].repo = r /\ (Pending(w) \/ task[w].pc \in Settled)

LockInv == TypeInv /\ \E f \in [Task -> Nat] : Ranked(f)

LEMMA PcsAreApart ==
  /\ Holding \cap Settled = {}
  /\ "waiting" \notin Holding \cup Settled
  /\ {"idle", "running", "dead"} \cap (Holding \cup Settled \cup {"waiting"}) = {}
  BY DEF Holding, Settled

LEMMA LockInvExcludes ==
  ASSUME LockInv
  PROVE  MutualExclusion
<1> SUFFICES ASSUME NEW t \in Task, NEW u \in Task, task[t].pc \in Holding,
                    task[u].pc \in Holding, task[t].repo = task[u].repo
             PROVE  t = u
  BY DEF MutualExclusion
<1>1. PICK f \in [Task -> Nat] : Ranked(f)
  BY DEF LockInv
<1>2. Together(t, u) /\ Together(u, t) /\ PrevSettled(t) /\ PrevSettled(u)
  BY <1>1 DEF Ranked, Together, Pending
<1>3. f[t] <= f[u] /\ f[u] <= f[t] /\ f[t] \in Nat /\ f[u] \in Nat
  BY <1>1, <1>2 DEF Ranked
<1> QED
  BY <1>1, <1>2, <1>3 DEF Ranked

\* A step that neither takes the lock nor gives it back keeps the ranking.
LEMMA QuietStep ==
  ASSUME NEW f \in [Task -> Nat], Ranked(f), TypeInv,
         \A t \in Task :
           /\ Pending(t)' <=> Pending(t)
           /\ (task[t].pc \in Settled)' <=> task[t].pc \in Settled
           /\ Pending(t) => task'[t].prev = task[t].prev
           /\ Pending(t) \/ task[t].pc \in Settled => task'[t].repo = task[t].repo
           /\ task'[t].pc \in Holding => PrevSettled(t),
         \A r \in Repo : \/ locks'[r] = locks[r]
                         \/ /\ locks'[r] = NoTask /\ locks[r] \in Task
                            /\ task[locks[r]].pc \in Settled
  PROVE  Ranked(f)'
<1>1. \A t \in Task : Pending(t) => (PrevSettled(t)' <=> PrevSettled(t))
  BY DEF PrevSettled
<1>2. \A t, u \in Task : Together(t, u)' <=> Together(t, u)
  BY DEF Together
<1>3. \A t \in Task : Pending(t) => task[t].repo \in Repo
  BY PcsAreApart DEF TypeInv, Bound, Pending
<1>4. \A t \in Task : Pending(t) => task[t].pc \notin Settled
  BY PcsAreApart DEF Pending
<1>5. \A t \in Task : Pending(t) => locks'[task[t].repo] = locks[task[t].repo]
  BY <1>3, <1>4 DEF Ranked, Together
<1>6. /\ \A t \in Task : Pending(t)' => locks'[task'[t].repo] \in Task
      /\ \A t, w \in Task : Pending(t)' /\ locks'[task'[t].repo] = w =>
           Together(t, w)' /\ f[t] <= f[w]
  BY <1>2, <1>5 DEF Ranked
<1>7. /\ \A t \in Task : Pending(t)' /\ ~PrevSettled(t)' => task'[t].prev \in Task
      /\ \A t, w \in Task : Pending(t)' /\ ~PrevSettled(t)' /\ task'[t].prev = w =>
           /\ Together(t, w)' /\ f[w] < f[t]
           /\ \A u \in Task : Together(t, u)' => f[u] <= f[w] \/ f[t] <= f[u]
  BY <1>1, <1>2 DEF Ranked
<1>8. \A t, u \in Task : Together(t, u)' /\ PrevSettled(t)' => f[t] <= f[u]
  BY <1>1, <1>2 DEF Ranked, Together
<1>9. \A t \in Task : task'[t].pc \in Holding => PrevSettled(t)'
  BY <1>1 DEF Pending
<1>10. \A r \in Repo, w \in Task : locks'[r] = w =>
        task'[w].repo = r /\ (Pending(w)' \/ task'[w].pc \in Settled)
  BY NoTaskIsNone DEF Ranked
<1>11. \A t, u \in Task : Together(t, u)' /\ f[t] = f[u] => t = u
  BY <1>2 DEF Ranked
<1> QED
  BY <1>6, <1>7, <1>8, <1>9, <1>10, <1>11 DEF Ranked

\* A holder that settles leaves its successor, and nobody else, free.
LEMMA SettlingStep ==
  ASSUME NEW f \in [Task -> Nat], Ranked(f), TypeInv, locks' = locks,
         NEW h \in Task, task[h].pc \in Holding, task'[h].pc \in Settled,
         \A t \in Task : /\ t # h => task'[t] = task[t]
                         /\ task'[t].repo = task[t].repo
                         /\ task'[t].prev = task[t].prev
  PROVE  Ranked(f)'
<1>1. Pending(h) /\ ~Pending(h)' /\ PrevSettled(h)
  BY PcsAreApart DEF Pending, Ranked
<1>2. \A t \in Task : Pending(t)' <=> Pending(t) /\ t # h
  BY <1>1 DEF Pending
<1>3. \A t, u \in Task : Together(t, u)' <=> Together(t, u) /\ t # h /\ u # h
  BY <1>2 DEF Together
<1>4. \A t \in Task : (task'[t].pc \in Settled) <=> task[t].pc \in Settled \/ t = h
  BY PcsAreApart
<1>5. \A t \in Task : PrevSettled(t)' <=> PrevSettled(t) \/ task[t].prev = h
  BY <1>4 DEF PrevSettled
<1>6. \A t \in Task : f[t] \in Nat
  OBVIOUS
<1>7. ASSUME NEW t \in Task, Pending(t), t # h
      PROVE  locks[task[t].repo] # h
  <2>1. SUFFICES ASSUME locks[task[t].repo] = h PROVE FALSE
    OBVIOUS
  <2>2. Together(t, h) /\ f[t] <= f[h]
    BY <1>7, <2>1 DEF Ranked
  <2>3. f[h] <= f[t]
    BY <1>1, <2>2 DEF Ranked, Together
  <2>4. f[h] = f[t]
    BY <1>6, <2>2, <2>3
  <2> QED
    BY <1>7, <2>2, <2>4 DEF Ranked
<1>8. /\ \A t \in Task : Pending(t)' => locks'[task'[t].repo] \in Task
      /\ \A t, w \in Task : Pending(t)' /\ locks'[task'[t].repo] = w =>
           Together(t, w)' /\ f[t] <= f[w]
  BY <1>2, <1>3, <1>7 DEF Ranked
<1>9. /\ \A t \in Task : Pending(t)' /\ ~PrevSettled(t)' => task'[t].prev \in Task
      /\ \A t, w \in Task : Pending(t)' /\ ~PrevSettled(t)' /\ task'[t].prev = w =>
           /\ Together(t, w)' /\ f[w] < f[t]
           /\ \A u \in Task : Together(t, u)' => f[u] <= f[w] \/ f[t] <= f[u]
  BY <1>2, <1>3, <1>5 DEF Ranked
<1>10. ASSUME NEW t \in Task, NEW u \in Task, Together(t, u)', PrevSettled(t)'
       PROVE  f[t] <= f[u]
  <2>1. Together(t, u) /\ t # h /\ u # h
    BY <1>3, <1>10
  <2>2. CASE PrevSettled(t)
    BY <2>1, <2>2 DEF Ranked
  <2>3. CASE ~PrevSettled(t) /\ task[t].prev = h
    <3>1. Together(t, h) /\ (f[u] <= f[h] \/ f[t] <= f[u])
      BY <2>1, <2>3 DEF Ranked, Together
    <3>2. Together(h, u) /\ f[h] <= f[u]
      BY <1>1, <2>1, <3>1 DEF Ranked, Together
    <3>3. f[u] # f[h]
      BY <2>1, <3>2 DEF Ranked
    <3> QED
      BY <1>6, <3>1, <3>2, <3>3
  <2> QED
    BY <1>5, <1>10, <2>2, <2>3
<1>11. \A t \in Task : task'[t].pc \in Holding => PrevSettled(t)'
  BY <1>5, PcsAreApart DEF Ranked
<1>12. \A r \in Repo, w \in Task : locks'[r] = w =>
        task'[w].repo = r /\ (Pending(w)' \/ task'[w].pc \in Settled)
  BY <1>2, <1>4 DEF Ranked
<1>13. \A t, u \in Task : Together(t, u)' /\ f[t] = f[u] => t = u
  BY <1>3 DEF Ranked
<1> QED
  BY <1>8, <1>9, <1>10, <1>11, <1>12, <1>13 DEF Ranked

\* A task that asks for the lock comes last.
LEMMA ChainingStep ==
  ASSUME NEW f \in [Task -> Nat], Ranked(f), TypeInv, TypeInv',
         NEW t \in Task, task[t].pc \in {"idle", "running"}, NEW r \in Repo,
         locks' = [locks EXCEPT ![r] = t],
         task'[t].pc = "waiting", task'[t].repo = r, task'[t].prev = locks[r],
         \A u \in Task : u # t => task'[u] = task[u]
  PROVE  \E g \in [Task -> Nat] : Ranked(g)'
<1> DEFINE last == IF locks[r] \in Task THEN f[locks[r]] + 1 ELSE 0
<1>a. last \in Nat
  OBVIOUS
<1>b. [f EXCEPT ![t] = last] \in [Task -> Nat]
  BY <1>a
<1>0. PICK g \in [Task -> Nat] : g = [f EXCEPT ![t] = last]
  BY <1>b
<1>1. g \in [Task -> Nat] /\ last \in Nat /\ \A u \in Task : g[u] \in Nat /\ f[u] \in Nat
  OBVIOUS
<1>2. g[t] = last /\ \A u \in Task : u # t => g[u] = f[u]
  BY <1>0
<1>3. ~Pending(t) /\ Pending(t)' /\ task[t].pc \notin Settled /\ task'[t].pc \notin Settled
  BY PcsAreApart DEF Pending
<1>4. \A u \in Task : u # t => (Pending(u)' <=> Pending(u))
  BY DEF Pending
<1>5. \A u \in Task : task'[u].pc \in Settled <=> task[u].pc \in Settled
  BY <1>3
<1>6. \A u, v \in Task : u # t /\ v # t => (Together(u, v)' <=> Together(u, v))
  BY <1>4 DEF Together
<1>7. \A u \in Task : Together(u, t)' <=> u = t \/ (Pending(u) /\ task[u].repo = r)
  BY <1>3, <1>4 DEF Together
<1>8. \A u \in Task : u # t /\ Pending(u) => (PrevSettled(u)' <=> PrevSettled(u))
  BY <1>5 DEF PrevSettled
<1>9. locks[r] \in Task => locks[r] # t /\ task[locks[r]].repo = r
  BY <1>3 DEF Ranked
\* Whoever is pending in r, the last one in LOCKS is, and it ranks below t.
<1>10. ASSUME NEW u \in Task, Pending(u), task[u].repo = r
       PROVE  /\ u # t /\ locks[r] \in Task /\ Pending(locks[r])
              /\ f[u] <= f[locks[r]] /\ g[u] < g[t]
  <2>1. locks[r] \in Task /\ Pending(locks[r]) /\ f[u] <= f[locks[r]] /\ u # t
    BY <1>3, <1>10 DEF Ranked, Together
  <2> QED
    BY <1>1, <1>2, <2>1
<1>11. \A u, v \in Task : Together(u, v)' /\ g[u] = g[v] => u = v
  <2> SUFFICES ASSUME NEW u \in Task, NEW v \in Task, Together(u, v)', g[u] = g[v] PROVE u = v
    OBVIOUS
  <2>1. Together(v, u)'
    BY DEF Together
  <2>2. CASE u # t /\ v # t
    BY <1>2, <1>6, <2>2 DEF Ranked
  <2>3. CASE v = t
    BY <1>1, <1>7, <1>10, <2>3
  <2>4. CASE u = t
    BY <1>1, <1>7, <1>10, <2>1, <2>4
  <2> QED
    BY <2>2, <2>3, <2>4
<1>12. ASSUME NEW u \in Task, Pending(u)'
       PROVE  /\ locks'[task'[u].repo] \in Task
              /\ \A w \in Task : locks'[task'[u].repo] = w => Together(u, w)' /\ g[u] <= g[w]
  <2>0. locks \in [Repo -> Task \cup {NoTask}] /\ task'[u].repo \in Repo
    BY <1>12, PcsAreApart DEF TypeInv, TypeOK, Bound, Pending
  <2>1. CASE u = t
    BY <1>1, <1>7, <2>0, <2>1
  <2>2. CASE u # t /\ task[u].repo = r
    <3>1. Pending(u) /\ g[u] < g[t] /\ task'[u].repo = r
      BY <1>4, <1>10, <1>12, <2>2
    <3>2. locks'[task'[u].repo] = t /\ Together(u, t)'
      BY <1>7, <2>0, <2>2, <3>1
    <3> QED
      BY <1>1, <3>1, <3>2
  <2>3. CASE u # t /\ task[u].repo # r
    <3> DEFINE w == locks[task[u].repo]
    <3>1. w \in Task /\ Together(u, w) /\ f[u] <= f[w]
      BY <1>4, <1>12, <2>3 DEF Ranked
    <3>2. w # t
      BY <1>3, <3>1 DEF Together
    <3> QED
      BY <1>2, <1>6, <2>0, <2>3, <3>1, <3>2
  <2> QED
    BY <2>1, <2>2, <2>3
<1>13. ASSUME NEW u \in Task, Pending(u)', ~PrevSettled(u)'
       PROVE  /\ task'[u].prev \in Task
              /\ \A w \in Task : task'[u].prev = w =>
                   /\ Together(u, w)' /\ g[w] < g[u]
                   /\ \A v \in Task : Together(u, v)' => g[v] <= g[w] \/ g[u] <= g[v]
  <2>1. CASE u = t
    <3>1. locks[r] \in Task /\ task[locks[r]].pc \notin Settled
      BY <1>5, <1>13, <2>1 DEF PrevSettled, TypeInv, TypeOK
    <3>2. Pending(locks[r]) /\ task[locks[r]].repo = r /\ locks[r] # t
      BY <1>9, <3>1 DEF Ranked
    <3>3. \A w \in Task : w = locks[r] => Together(t, w)'
      BY <1>3, <1>4, <3>1, <3>2 DEF Together
    <3>4. \A v \in Task : Together(t, v)' => g[v] <= g[locks[r]] \/ g[t] <= g[v]
      <4> SUFFICES ASSUME NEW v \in Task, Together(t, v)', v # t PROVE g[v] <= g[locks[r]]
        BY <1>1
      <4>1. Pending(v) /\ task[v].repo = r
        BY <1>7 DEF Together
      <4> QED
        BY <1>2, <1>9, <1>10, <4>1
    <3> QED
      BY <1>10, <2>1, <3>1, <3>2, <3>3, <3>4
  <2>2. CASE u # t
    <3> DEFINE w == task[u].prev
    <3>1. Pending(u) /\ ~PrevSettled(u) /\ task'[u].prev = w
      BY <1>4, <1>8, <1>13, <2>2
    <3>2. w \in Task /\ Together(u, w) /\ f[w] < f[u]
      BY <3>1 DEF Ranked
    <3>3. w # t
      BY <1>3, <3>2 DEF Together
    <3>4. Together(u, w)' /\ g[w] < g[u]
      BY <1>2, <1>6, <2>2, <3>2, <3>3
    <3>5. ASSUME NEW v \in Task, Together(u, v)'
          PROVE  g[v] <= g[w] \/ g[u] <= g[v]
      <4>1. CASE v = t
        <5>1. Pending(u) /\ task[u].repo = r
          BY <1>7, <2>2, <3>5, <4>1
        <5> QED
          BY <1>1, <1>10, <4>1, <5>1
      <4>2. CASE v # t
        <5>1. Together(u, v)
          BY <1>6, <2>2, <3>5, <4>2
        <5> QED
          BY <1>2, <2>2, <3>1, <3>3, <4>2, <5>1 DEF Ranked
      <4> QED
        BY <4>1, <4>2
    <3> QED
      BY <3>1, <3>2, <3>4, <3>5
  <2> QED
    BY <2>1, <2>2
<1>14. ASSUME NEW u \in Task, NEW v \in Task, Together(u, v)', PrevSettled(u)'
       PROVE  g[u] <= g[v]
  <2>1. CASE u = t
    <3>1. locks[r] \in Task => task[locks[r]].pc \in Settled
      BY <1>5, <1>14, <2>1, NoTaskIsNone DEF PrevSettled
    <3>2. \A x \in Task : Pending(x) => task[x].pc \notin Settled
      BY PcsAreApart DEF Pending
    <3>3. v = t
      BY <1>7, <1>10, <1>14, <2>1, <3>1, <3>2 DEF Together
    <3> QED
      BY <1>1, <2>1, <3>3
  <2>2. CASE u # t /\ v = t
    BY <1>1, <1>7, <1>10, <1>14, <2>2
  <2>3. CASE u # t /\ v # t
    <3>1. Together(u, v) /\ PrevSettled(u)
      BY <1>6, <1>8, <1>14, <2>3 DEF Together
    <3> QED
      BY <1>2, <2>3, <3>1 DEF Ranked
  <2> QED
    BY <2>1, <2>2, <2>3
<1>15. \A u \in Task : task'[u].pc \in Holding => PrevSettled(u)'
  BY <1>8, PcsAreApart DEF Ranked, Pending
<1>16. ASSUME NEW x \in Repo, locks'[x] \in Task
       PROVE  \A w \in Task : locks'[x] = w =>
                task'[w].repo = x /\ (Pending(w)' \/ task'[w].pc \in Settled)
  <2>0. locks \in [Repo -> Task \cup {NoTask}]
    BY DEF TypeInv, TypeOK
  <2>1. CASE x = r
    BY <1>3, <2>0, <2>1
  <2>2. CASE x # r
    <3>1. locks'[x] = locks[x] /\ locks[x] # t
      BY <1>3, <1>16, <2>0, <2>2 DEF Ranked
    <3> QED
      BY <1>4, <1>16, <3>1 DEF Ranked
  <2> QED
    BY <2>1, <2>2
<1>17. Ranked(g)'
  BY <1>11, <1>12, <1>13, <1>14, <1>15, <1>16 DEF Ranked
<1> QED
  BY <1>1, <1>17

LEMMA LockInvInit == Init => LockInv
<1> SUFFICES ASSUME Init PROVE LockInv
  OBVIOUS
<1> DEFINE f == [t \in Task |-> 0]
<1>1. \A t \in Task : ~Pending(t) /\ task[t].pc \notin Holding
  BY DEF Init, Idle, Pending, Holding
<1>2. \A r \in Repo, w \in Task : locks[r] # w
  BY NoTaskIsNone DEF Init
<1>3. Ranked(f)
  BY <1>1, <1>2 DEF Ranked, Together
<1>4. f \in [Task -> Nat]
  OBVIOUS
<1> QED
  BY <1>3, <1>4, TypeInvInit DEF LockInv

\* What the steps of a holder do to its own progress.
LEMMA StepMoves ==
  ASSUME TypeInv, NEW t \in Task, Step(t)
  PROVE  /\ locks' = locks
         /\ Pending(t)
         /\ task[t].pc = "waiting" => PrevSettled(t)
         /\ task'[t].pc \in Holding \cup Settled
         /\ task[t].pc = "waiting" => task'[t].pc \in Holding
         /\ task'[t].repo = task[t].repo /\ task'[t].prev = task[t].prev
         /\ \A u \in Task : u # t => task'[u] = task[u]
<1>1. task \in [Task -> TaskType]
  BY DEF TypeInv, TypeOK, TaskType
<1>2. ASSUME NEW pc \in Holding \cup Settled, Goto(t, pc)
      PROVE  /\ task'[t].pc = pc
             /\ task'[t].repo = task[t].repo /\ task'[t].prev = task[t].prev
             /\ \A u \in Task : u # t => task'[u] = task[u]
  BY <1>1, <1>2 DEF Goto, TaskType
<1>3. CASE Enter(t)
  BY <1>2, <1>3 DEF Enter, Pending, Holding
<1>4. CASE RevParse(t)
  BY <1>1, <1>4 DEF RevParse, TaskType, Pending, Holding, Settled
<1>5. CASE HeadFound(t)
  <2>1. task[t].pc = "head" /\ locks' = locks
    BY <1>5 DEF HeadFound
  <2>2. task[t].pc \in Holding /\ {"done", "failed", "add"} \subseteq Holding \cup Settled
    BY <2>1 DEF Holding, Settled
  <2>3. \E pc \in Holding \cup Settled, w \in Writing : Write(t, pc, w)
    BY <1>5, <2>2, PartWrites DEF Proceed
  <2> QED
    BY <2>1, <2>2, <2>3, WriteTypes DEF Pending
<1>6. CASE \/ GitInit(t) \/ HeadMissing(t) \/ CommitBaseline(t) \/ GitAdd(t) \/ GitStatus(t)
           \/ GitCommit(t) \/ NothingStaged(t)
  BY <1>2, <1>6 DEF GitInit, HeadMissing, CommitBaseline, GitAdd, GitStatus, GitCommit,
                    NothingStaged, Pending, Holding, Settled
<1> QED
  BY <1>3, <1>4, <1>5, <1>6 DEF Step

LEMMA ChainMoves ==
  ASSUME TypeInv, NEW t \in Task, NEW r \in Repo, NEW kind, NEW by, NEW batch,
         Chain(t, r, kind, by, batch)
  PROVE  /\ locks' = [locks EXCEPT ![r] = t]
         /\ task'[t].pc = "waiting" /\ task'[t].repo = r /\ task'[t].prev = locks[r]
         /\ \A u \in Task : u # t => task'[u] = task[u]
  BY DEF Chain, TypeInv, TypeOK

LEMMA LockInvStep == LockInv /\ [Next]_vars => LockInv'
<1> SUFFICES ASSUME LockInv, [Next]_vars PROVE LockInv'
  OBVIOUS
<1>1. TypeInv /\ TypeInv'
  BY TypeInvStep DEF LockInv
<1>2. PICK f \in [Task -> Nat] : Ranked(f)
  BY DEF LockInv
<1>3. task \in [Task -> TaskType]
  BY <1>1 DEF TypeInv, TypeOK, TaskType
\* Enough: some ranking follows the chain after the step.
<1> SUFFICES \E g \in [Task -> Nat] : Ranked(g)'
  BY <1>1 DEF LockInv
<1>4. Ranked(f)' => \E g \in [Task -> Nat] : Ranked(g)'
  OBVIOUS
<1>5. ASSUME NEW s \in Session, Run(s) PROVE Ranked(f)'
  <2>1. PICK r \in Repo : task' = [task EXCEPT ![s].pc = "running", ![s].repo = r]
    BY <1>5 DEF Run
  <2>2. /\ s \in Task /\ task[s].pc = "idle" /\ task'[s].pc = "running" /\ locks' = locks
        /\ \A u \in Task : u # s => task'[u] = task[u]
    BY <1>3, <1>5, <2>1 DEF Run, Task, TaskType
  <2>3. task[s].pc \notin Holding \cup Settled \cup {"waiting"}
        /\ task'[s].pc \notin Holding \cup Settled \cup {"waiting"}
    BY <2>2, PcsAreApart
  <2>4. \A t \in Task :
           /\ Pending(t)' <=> Pending(t)
           /\ (task[t].pc \in Settled)' <=> task[t].pc \in Settled
           /\ Pending(t) => task'[t].prev = task[t].prev
           /\ Pending(t) \/ task[t].pc \in Settled => task'[t].repo = task[t].repo
           /\ task'[t].pc \in Holding => PrevSettled(t)
    BY <1>2, <2>2, <2>3 DEF Pending, Ranked
  <2>5. \A x \in Repo : \/ locks'[x] = locks[x]
                        \/ /\ locks'[x] = NoTask /\ locks[x] \in Task
                           /\ task[locks[x]].pc \in Settled
    <3>1. \A x \in Repo : locks'[x] = locks[x]
      BY <2>2
    <3> QED
      BY <3>1, Zenon
  <2> QED
    BY <1>1, <1>2, <2>4, <2>5, QuietStep, Zenon
<1>6. ASSUME NEW s \in Session, Finalize(s) PROVE \E g \in [Task -> Nat] : Ranked(g)'
  <2>1. s \in Task /\ task[s].pc = "running" /\ task[s].repo \in Repo
    BY <1>1, <1>6 DEF Finalize, Task, TypeInv, Bound
  <2>2. PICK batch \in Writing :
          Chain(s, task[s].repo, IF batch = Nothing THEN "commit" ELSE "apply", s, batch)
    BY <1>6, FinalizeChains
  <2> QED
    BY <1>1, <1>2, <2>1, <2>2, ChainMoves, ChainingStep
<1>7. ASSUME NEW q \in Request, NEW r \in Repo, Ask(q, r)
      PROVE  \E g \in [Task -> Nat] : Ranked(g)'
  <2>1. q \in Task /\ task[q].pc = "idle"
    BY <1>7 DEF Ask, Task
  <2>2. \E kind, by : Chain(q, r, kind, by, Nothing)
    BY <1>7 DEF Ask
  <2> QED
    BY <1>1, <1>2, <2>1, <2>2, ChainMoves, ChainingStep
<1>8. ASSUME NEW s \in Session, RefusedUpfront(s) PROVE Ranked(f)'
  <2>1. /\ s \in Task /\ task[s].pc = "running" /\ task'[s].pc = "failed" /\ locks' = locks
        /\ task'[s].repo = task[s].repo
        /\ \A u \in Task : u # s => task'[u] = task[u]
    BY <1>3, <1>8 DEF RefusedUpfront, Goto, Task, TaskType
  <2>2. ~Pending(s) /\ ~Pending(s)' /\ task'[s].pc \in Settled /\ task[s].pc \notin Settled
    BY <2>1 DEF Pending, Holding, Settled
  <2>3. \A t \in Task : Pending(t)' <=> Pending(t)
    BY <2>1, <2>2 DEF Pending
  <2>4. \A t, u \in Task : Together(t, u)' <=> Together(t, u)
    BY <2>1, <2>2, <2>3 DEF Together
  <2>5. \A t \in Task : Pending(t) => (PrevSettled(t)' <=> PrevSettled(t))
    <3>1. \A t \in Task : Pending(t) /\ ~PrevSettled(t) => task[t].prev # s
      BY <1>2, <2>1, <2>2 DEF Ranked, Together
    <3>2. \A u \in Task : u # s => (task'[u].pc \in Settled <=> task[u].pc \in Settled)
      BY <2>1
    <3> QED
      BY <2>1, <2>2, <3>1, <3>2 DEF PrevSettled
  <2>6. \A r \in Repo : locks[r] # s
    BY <1>2, <2>1, <2>2 DEF Ranked
  <2>7. \A t \in Task : task'[t].pc \in Holding => PrevSettled(t)'
    BY <1>2, <2>1, <2>2, <2>5 DEF Ranked, Pending
  <2>8. \A t \in Task : Pending(t) =>
          task'[t].repo = task[t].repo /\ task'[t].prev = task[t].prev /\ t # s
    BY <2>1, <2>2
  <2>9. /\ \A t \in Task : Pending(t)' => locks'[task'[t].repo] \in Task
        /\ \A t, w \in Task : Pending(t)' /\ locks'[task'[t].repo] = w =>
             Together(t, w)' /\ f[t] <= f[w]
    BY <1>2, <2>1, <2>3, <2>4, <2>8 DEF Ranked
  <2>10. /\ \A t \in Task : Pending(t)' /\ ~PrevSettled(t)' => task'[t].prev \in Task
         /\ \A t, w \in Task : Pending(t)' /\ ~PrevSettled(t)' /\ task'[t].prev = w =>
              /\ Together(t, w)' /\ f[w] < f[t]
              /\ \A u \in Task : Together(t, u)' => f[u] <= f[w] \/ f[t] <= f[u]
    BY <1>2, <2>3, <2>4, <2>5, <2>8 DEF Ranked
  <2>11. \A r \in Repo, w \in Task : locks'[r] = w =>
           task'[w].repo = r /\ (Pending(w)' \/ task'[w].pc \in Settled)
    BY <1>2, <2>1, <2>3, <2>6 DEF Ranked
  <2>12. \A t, u \in Task : Together(t, u)' /\ PrevSettled(t)' => f[t] <= f[u]
    BY <1>2, <2>4, <2>5 DEF Ranked, Together
  <2>13. \A t, u \in Task : Together(t, u)' /\ f[t] = f[u] => t = u
    BY <1>2, <2>4 DEF Ranked
  <2> QED
    BY <2>7, <2>9, <2>10, <2>11, <2>12, <2>13 DEF Ranked
<1>9. ASSUME NEW s \in Session, NEW p \in Path, ToolWrite(s, p) PROVE Ranked(f)'
  <2>1. /\ locks' = locks
        /\ \A u \in Task : /\ task'[u].pc = task[u].pc /\ task'[u].repo = task[u].repo
                           /\ task'[u].prev = task[u].prev
    BY <1>1, <1>9, ToolMoves
  <2>2. \A t \in Task :
           /\ Pending(t)' <=> Pending(t)
           /\ (task[t].pc \in Settled)' <=> task[t].pc \in Settled
           /\ Pending(t) => task'[t].prev = task[t].prev
           /\ Pending(t) \/ task[t].pc \in Settled => task'[t].repo = task[t].repo
           /\ task'[t].pc \in Holding => PrevSettled(t)
    BY <1>2, <2>1 DEF Pending, Ranked
  <2>3. \A x \in Repo : \/ locks'[x] = locks[x]
                        \/ /\ locks'[x] = NoTask /\ locks[x] \in Task
                           /\ task[locks[x]].pc \in Settled
    <3>1. \A x \in Repo : locks'[x] = locks[x]
      BY <2>1
    <3> QED
      BY <3>1, Zenon
  <2> QED
    BY <1>1, <1>2, <2>2, <2>3, QuietStep, Zenon
<1>10. ASSUME NEW t \in Task, Forget(t) PROVE Ranked(f)'
  <2>1. /\ task' = task /\ locks[task[t].repo] = t /\ task[t].pc \in Settled
        /\ locks' = [locks EXCEPT ![task[t].repo] = NoTask]
        /\ locks \in [Repo -> Task \cup {NoTask}]
    BY <1>1, <1>10 DEF Forget, TypeInv, TypeOK
  <2>2. \A r \in Repo : \/ locks'[r] = locks[r]
                        \/ /\ locks'[r] = NoTask /\ locks[r] \in Task
                           /\ task[locks[r]].pc \in Settled
    <3> TAKE r \in Repo
    <3>1. CASE r = task[t].repo
      <4>1. locks[r] = t /\ locks'[r] = NoTask
        BY <2>1, <3>1
      <4> QED
        BY <2>1, <4>1
    <3>2. CASE r # task[t].repo
      <4>1. locks'[r] = locks[r]
        BY <2>1, <3>2
      <4> QED
        BY <4>1, Zenon
    <3> QED
      BY <3>1, <3>2
  <2> QED
    BY <1>1, <1>2, <2>1, <2>2, QuietStep DEF Pending, Ranked
<1>11. ASSUME NEW t \in Task, GitFails(t) PROVE Ranked(f)'
  <2>1. /\ task[t].pc \in Holding /\ task'[t].pc \in Settled /\ locks' = locks
        /\ task'[t].repo = task[t].repo /\ task'[t].prev = task[t].prev
        /\ \A u \in Task : u # t => task'[u] = task[u]
    BY <1>3, <1>11 DEF GitFails, Goto, Settled, TaskType
  <2> QED
    BY <1>1, <1>2, <2>1, SettlingStep
<1>12. ASSUME NEW t \in Task, Step(t) PROVE Ranked(f)'
  <2>1. /\ locks' = locks /\ Pending(t)
        /\ task[t].pc = "waiting" => PrevSettled(t)
        /\ task'[t].pc \in Holding \cup Settled
        /\ task[t].pc = "waiting" => task'[t].pc \in Holding
        /\ task'[t].repo = task[t].repo /\ task'[t].prev = task[t].prev
        /\ \A u \in Task : u # t => task'[u] = task[u]
    BY <1>1, <1>12, StepMoves
  <2>2. CASE task'[t].pc \in Holding
    <3>1. \A u \in Task :
           /\ Pending(u)' <=> Pending(u)
           /\ (task[u].pc \in Settled)' <=> task[u].pc \in Settled
           /\ Pending(u) => task'[u].prev = task[u].prev
           /\ Pending(u) \/ task[u].pc \in Settled => task'[u].repo = task[u].repo
           /\ task'[u].pc \in Holding => PrevSettled(u)
      BY <1>2, <2>1, <2>2, PcsAreApart DEF Pending, Ranked
    <3>2. \A r \in Repo : \/ locks'[r] = locks[r]
                          \/ /\ locks'[r] = NoTask /\ locks[r] \in Task
                             /\ task[locks[r]].pc \in Settled
      <4>1. \A r \in Repo : locks'[r] = locks[r]
        BY <2>1
      <4> QED
        BY <4>1, Zenon
    <3> QED
      BY <1>1, <1>2, <3>1, <3>2, QuietStep, Zenon
  <2>3. CASE task'[t].pc \in Settled
    <3>1. task[t].pc \in Holding
      BY <2>1, <2>3, PcsAreApart DEF Pending
    <3> QED
      BY <1>1, <1>2, <2>1, <2>3, <3>1, SettlingStep
  <2> QED
    BY <2>1, <2>2, <2>3
<1>13. ASSUME Crash PROVE Ranked(f)'
  <2>1. \A t \in Task : task'[t].pc \notin Holding \cup {"waiting"}
    BY <1>3, <1>13 DEF Crash, Pending, Holding, TaskType
  <2>2. \A r \in Repo, w \in Task : locks'[r] # w
    BY <1>13, NoTaskIsNone DEF Crash
  <2> QED
    BY <2>1, <2>2 DEF Ranked, Together, Pending
<1>14. CASE UNCHANGED vars
  BY <1>2, <1>14 DEF vars, Ranked, Together, Pending, PrevSettled
<1> QED
  BY <1>4, <1>5, <1>6, <1>7, <1>8, <1>9, <1>10, <1>11, <1>12, <1>13, <1>14 DEF Next

\* At most one task is ever inside one workspace: the single-writer lock of
\* withWorkspaceLock, whatever failed, was forgotten or died.
THEOREM OneWriterPerWorkspace == Spec => []MutualExclusion
  BY LockInvInit, LockInvStep, LockInvExcludes, PTL DEF Spec

-----------------------------------------------------------------------------
(* The baseline.                                                           *)

\* A task about to commit the baseline saw no history, and still sees none; a
\* task past ensureWorkspace sees one, and commits for a session.
BaselineInv ==
  /\ OneBaseline
  /\ \A t \in Task : task[t].pc = "baseline" => repos[task[t].repo].log = <<>>
  /\ \A t \in Task : task[t].pc \in {"add", "status", "commit", "sha"} =>
       repos[task[t].repo].log # <<>> /\ task[t].kind # "read"

\* A step that leaves every history alone, where whoever reaches a command
\* found there what that command relies on.
LEMMA BaselineQuiet ==
  ASSUME BaselineInv, TypeInv,
         \A r \in Repo : repos'[r].log = repos[r].log,
         \A t \in Task :
           \/ /\ task'[t].pc = task[t].pc /\ task'[t].kind = task[t].kind
              /\ task'[t].repo = task[t].repo
           \/ task'[t].pc \notin Holding
           \/ task'[t].pc \in {"init", "head"}
           \/ /\ task'[t].pc = "baseline" /\ task'[t].repo = task[t].repo
              /\ task[t].pc \in Holding /\ repos[task[t].repo].log = <<>>
           \/ /\ task'[t].pc \in {"add", "status", "commit", "sha"}
              /\ task'[t].repo = task[t].repo /\ task'[t].kind = task[t].kind
              /\ task[t].pc \in Holding
              /\ repos[task[t].repo].log # <<>> /\ task[t].kind # "read"
  PROVE  BaselineInv'
<1>1. \A t \in Task : task[t].pc \in Holding => task[t].repo \in Repo
  BY PcsAreApart DEF TypeInv, Bound
<1>2. OneBaseline'
  BY DEF BaselineInv, OneBaseline
<1>3. ASSUME NEW t \in Task, task'[t].pc = "baseline" PROVE repos'[task'[t].repo].log = <<>>
  BY <1>1, <1>3 DEF BaselineInv, Holding
<1>4. ASSUME NEW t \in Task, task'[t].pc \in {"add", "status", "commit", "sha"}
      PROVE  repos'[task'[t].repo].log # <<>> /\ task'[t].kind # "read"
  BY <1>1, <1>4 DEF BaselineInv, Holding
<1> QED
  BY <1>2, <1>3, <1>4 DEF BaselineInv

\* A commit by the one task inside a workspace: the baseline on an empty history,
\* or a session's commit on a history that has its baseline.
LEMMA BaselineCommit ==
  ASSUME BaselineInv, TypeInv, MutualExclusion, NEW t \in Task, NEW c \in Commit,
         task[t].pc \in {"baseline", "commit"},
         repos' = [repos EXCEPT ![task[t].repo].log = Append(@, c)],
         c.by = NoTask <=> task[t].pc = "baseline",
         task'[t].pc \in {"head", "sha"},
         task'[t].pc = "sha" => task[t].pc = "commit",
         task'[t].repo = task[t].repo, task'[t].kind = task[t].kind,
         \A u \in Task : u # t => task'[u] = task[u]
  PROVE  BaselineInv'
<1> DEFINE r == task[t].repo
<1>1. \A u \in Task : task[u].pc \in Holding => task[u].repo \in Repo
  BY PcsAreApart DEF TypeInv, Bound
<1>2. task[t].pc \in Holding /\ r \in Repo
  BY <1>1 DEF Holding
<1>3. /\ repos[r].log \in Seq(Commit) /\ repos'[r].log = Append(repos[r].log, c)
      /\ \A x \in Repo : x # r => repos'[x].log = repos[x].log
  BY <1>2 DEF TypeInv, TypeOK
<1>4. \A u \in Task : u # t /\ task[u].pc \in Holding => task[u].repo # r
  BY <1>2 DEF MutualExclusion
<1>5. task[t].pc = "baseline" <=> repos[r].log = <<>>
  BY <1>2 DEF BaselineInv
<1>6. ASSUME NEW x \in Repo, NEW i \in DOMAIN repos'[x].log
      PROVE  repos'[x].log[i].by = NoTask <=> i = 1
  <2>1. CASE x # r
    BY <1>3, <1>6, <2>1 DEF BaselineInv, OneBaseline
  <2>2. CASE x = r /\ i \in DOMAIN repos[r].log
    <3>1. repos'[x].log[i] = repos[r].log[i]
      BY <1>3, <2>2
    <3> QED
      BY <1>2, <2>2, <3>1 DEF BaselineInv, OneBaseline
  <2>3. CASE x = r /\ i = Len(repos[r].log) + 1
    <3>1. repos'[x].log[i] = c
      BY <1>3, <2>3
    <3>2. i = 1 <=> repos[r].log = <<>>
      BY <1>3, <2>3
    <3> QED
      BY <1>5, <3>1, <3>2
  <2> QED
    BY <1>3, <1>6, <2>1, <2>2, <2>3
<1>7. OneBaseline'
  BY <1>6 DEF OneBaseline
<1>8. ASSUME NEW u \in Task, task'[u].pc = "baseline" PROVE repos'[task'[u].repo].log = <<>>
  <2>1. u # t /\ task'[u] = task[u] /\ task[u].pc \in Holding
    BY <1>8 DEF Holding
  <2> QED
    BY <1>1, <1>3, <1>4, <1>8, <2>1 DEF BaselineInv
<1>9. ASSUME NEW u \in Task, task'[u].pc \in {"add", "status", "commit", "sha"}
      PROVE  repos'[task'[u].repo].log # <<>> /\ task'[u].kind # "read"
  <2>1. CASE u = t
    <3>1. task[t].pc = "commit"
      BY <1>9, <2>1
    <3>2. repos'[r].log # <<>>
      BY <1>3
    <3> QED
      BY <2>1, <3>1, <3>2 DEF BaselineInv
  <2>2. CASE u # t
    <3>1. task'[u] = task[u] /\ task[u].pc \in Holding
      BY <1>9, <2>2 DEF Holding
    <3> QED
      BY <1>1, <1>3, <1>4, <1>9, <2>2, <3>1 DEF BaselineInv
  <2> QED
    BY <2>1, <2>2
<1> QED
  BY <1>7, <1>8, <1>9 DEF BaselineInv

LEMMA BaselineInvStep ==
  ASSUME TypeInv, MutualExclusion, BaselineInv, [Next]_vars
  PROVE  BaselineInv'
<1>1. task \in [Task -> TaskType]
  BY DEF TypeInv, TypeOK, TaskType
<1>2. \A t \in Task : task[t].pc \in Holding => task[t].repo \in Repo
  BY PcsAreApart DEF TypeInv, Bound
<1>3. repos \in [Repo -> RepoType]
  BY DEF TypeInv, TypeOK, RepoType
<1>4. ASSUME NEW s \in Session, Run(s) PROVE BaselineInv'
  BY <1>1, <1>4, BaselineQuiet DEF Run, TaskType, Holding
<1>5. ASSUME NEW s \in Session, Finalize(s) PROVE BaselineInv'
  <2>1. s \in Task /\ task[s].pc = "running" /\ task[s].repo \in Repo
    BY <1>5 DEF Finalize, Task, TypeInv, Bound
  <2>2. PICK batch \in Writing :
          Chain(s, task[s].repo, IF batch = Nothing THEN "commit" ELSE "apply", s, batch)
    BY <1>5, FinalizeChains
  <2>3. task'[s].pc = "waiting" /\ \A u \in Task : u # s => task'[u] = task[u]
    BY <2>1, <2>2, ChainMoves
  <2>4. UNCHANGED repos /\ "waiting" \notin Holding
    BY <1>5 DEF Finalize, Holding
  <2> QED
    BY <2>3, <2>4, BaselineQuiet
<1>6. ASSUME NEW s \in Session, RefusedUpfront(s) PROVE BaselineInv'
  BY <1>1, <1>6, BaselineQuiet DEF RefusedUpfront, Goto, TaskType, Holding
<1>7. ASSUME NEW s \in Session, NEW p \in Path, ToolWrite(s, p) PROVE BaselineInv'
  <2>1. /\ \A r \in Repo : repos'[r].log = repos[r].log
        /\ \A u \in Task : task'[u].pc = task[u].pc /\ task'[u].kind = task[u].kind
                           /\ task'[u].repo = task[u].repo
    BY <1>7, ToolMoves
  <2> QED
    BY <2>1, BaselineQuiet
<1>8. ASSUME NEW q \in Request, NEW r \in Repo, Ask(q, r) PROVE BaselineInv'
  <2>1. q \in Task
    BY DEF Task
  <2>2. PICK kind, by : Chain(q, r, kind, by, Nothing)
    BY <1>8 DEF Ask
  <2>3. task'[q].pc = "waiting" /\ \A u \in Task : u # q => task'[u] = task[u]
    BY <2>1, <2>2, ChainMoves
  <2>4. UNCHANGED repos /\ "waiting" \notin Holding
    BY <1>8 DEF Ask, Holding
  <2> QED
    BY <2>3, <2>4, BaselineQuiet
<1>9. ASSUME NEW t \in Task, Forget(t) PROVE BaselineInv'
  BY <1>9, BaselineQuiet DEF Forget
<1>10. ASSUME NEW t \in Task, GitFails(t) PROVE BaselineInv'
  BY <1>1, <1>10, BaselineQuiet DEF GitFails, Goto, TaskType, Holding
<1>11. ASSUME NEW t \in Task, Step(t) PROVE BaselineInv'
  <2> USE <1>1, <1>2, <1>3
  <2>1. CASE Enter(t)
    BY <2>1, BaselineQuiet DEF Enter, Goto, TaskType
  <2>2. CASE GitInit(t)
    <3>1. \A r \in Repo : repos'[r].log = repos[r].log
      BY <2>2 DEF GitInit, RepoType
    <3> QED
      BY <2>2, <3>1, BaselineQuiet DEF GitInit, Goto, TaskType
  <2>3. CASE HeadFound(t)
    <3>1. task[t].pc \in Holding /\ repos[task[t].repo].log # <<>>
      BY <2>3 DEF HeadFound, HasHead, Holding
    <3>2. \E pc \in {"done", "failed", "add"}, w \in Writing :
            Write(t, pc, w) /\ (pc = "add" => task[t].kind # "read")
      BY <2>3, PartWrites DEF Proceed
    <3>3. {"done", "failed", "add"} \subseteq Holding \cup Settled
      BY DEF Holding, Settled
    <3>4. /\ \A r \in Repo : repos'[r].log = repos[r].log
          /\ \A u \in Task : u # t => task'[u] = task[u]
          /\ task'[t].repo = task[t].repo /\ task'[t].kind = task[t].kind
          /\ task'[t].pc \in {"done", "failed"} \/ (task'[t].pc = "add" /\ task[t].kind # "read")
      BY <3>1, <3>2, <3>3, WriteTypes
    <3> QED
      BY <3>1, <3>4, BaselineQuiet DEF Holding
  <2>4. CASE HeadMissing(t)
    BY <2>4, BaselineQuiet DEF HeadMissing, HasHead, Goto, TaskType, Holding
  <2>5. CASE CommitBaseline(t)
    <3>1. Baseline \in Commit /\ Baseline.by = NoTask
      BY EmptyIsTree DEF Baseline, Commit
    <3> QED
      BY <2>5, <3>1, BaselineCommit DEF CommitBaseline, Goto, TaskType
  <2>6. CASE GitAdd(t)
    <3>1. \A r \in Repo : repos'[r].log = repos[r].log
      BY <2>6 DEF GitAdd, RepoType
    <3>2. task[t].pc = "add" /\ repos[task[t].repo].log # <<>> /\ task[t].kind # "read"
      BY <2>6 DEF GitAdd, BaselineInv
    <3> QED
      BY <2>6, <3>1, <3>2, BaselineQuiet DEF GitAdd, Goto, TaskType, Holding
  <2>7. CASE GitStatus(t)
    <3>1. task[t].pc = "status" /\ repos[task[t].repo].log # <<>> /\ task[t].kind # "read"
      BY <2>7 DEF GitStatus, BaselineInv
    <3> QED
      BY <2>7, <3>1, BaselineQuiet DEF GitStatus, Goto, TaskType, Holding
  <2>8. CASE GitCommit(t)
    <3> DEFINE c == [by |-> task[t].by, tree |-> repos[task[t].repo].index]
    <3>1. task[t].pc = "commit" /\ task[t].kind # "read" /\ task[t].pc \in Holding
      BY <2>8 DEF GitCommit, BaselineInv, Holding
    <3>2. task[t].by \in Session /\ task[t].by # NoTask
      BY <3>1, NoTaskIsNone DEF TypeInv, Bound, Pending, Task
    <3>3. c \in Commit /\ c.by # NoTask
      BY <3>1, <3>2 DEF Commit, RepoType
    <3>4. /\ task'[t].pc = "sha" /\ task'[t].repo = task[t].repo /\ task'[t].kind = task[t].kind
          /\ \A u \in Task : u # t => task'[u] = task[u]
      BY <2>8 DEF GitCommit, Goto, TaskType
    <3>5. repos' = [repos EXCEPT ![task[t].repo].log = Append(@, c)]
      BY <2>8 DEF GitCommit
    <3> HIDE DEF c
    <3> QED
      BY <3>1, <3>3, <3>4, <3>5, BaselineCommit
  <2>9. CASE NothingStaged(t)
    BY <2>9, BaselineQuiet DEF NothingStaged, Goto, TaskType, Holding
  <2>10. CASE RevParse(t)
    BY <2>10, BaselineQuiet DEF RevParse, TaskType, Holding
  <2> QED
    BY <1>11, <2>1, <2>2, <2>3, <2>4, <2>5, <2>6, <2>7, <2>8, <2>9, <2>10 DEF Step
<1>12. ASSUME Crash PROVE BaselineInv'
  BY <1>1, <1>12, BaselineQuiet DEF Crash, TaskType, Holding
<1>13. CASE UNCHANGED vars
  BY <1>13, BaselineQuiet DEF vars
<1> QED
  BY <1>4, <1>5, <1>6, <1>7, <1>8, <1>9, <1>10, <1>11, <1>12, <1>13 DEF Next

LEMMA BaselineInvInit == Init => BaselineInv
  BY DEF Init, BaselineInv, OneBaseline, Idle

\* Every history starts with one baseline and has no other, however many tasks
\* found the workspace missing: ensureWorkspace runs under the lock.
THEOREM OneBaselinePerWorkspace == Spec => []OneBaseline
<1>1. LockInv => TypeInv
  BY DEF LockInv
<1>2. LockInv /\ BaselineInv /\ [Next]_vars => BaselineInv'
  BY <1>1, LockInvExcludes, BaselineInvStep
<1>3. BaselineInv => OneBaseline
  BY DEF BaselineInv
<1> QED
  BY <1>2, <1>3, LockInvInit, LockInvStep, BaselineInvInit, PTL DEF Spec
-----------------------------------------------------------------------------
(* The batch and the pin.                                                  *)

Busy(s) == task[s].pc = "running" \/ Pending(s)

\* The queue runs one session at a time, its finalization included.
OneSession == \A s, u \in Session : Busy(s) /\ Busy(u) => s = u

\* What a run wrote is what its workspace has; its batch is among it.
Stands(repo, c) == \A p \in Path : c.wrote[p] # Untouched => repo.tree[p] = c.wrote[p]
Included(c) == \A p \in Path : c.batch[p] # Untouched => c.wrote[p] = c.batch[p]

\* The n-th commit answers the task at c: it was there when the batch was written
\* or is the first one since, the session's own, and has what the run wrote.
Answers(repo, s, c, n) ==
  /\ n \in DOMAIN repo.log
  /\ n = c.since \/ (n = c.since + 1 /\ repo.log[n].by = s)
  /\ Holds(repo.log[n], c.wrote)

\* How far what a run wrote has come, with its task at c.
BatchAt(s, c, all) ==
  LET repo == all[c.repo] IN
  /\ c.pc = "idle" => c.wrote = Nothing
  /\ c.pc \in {"running", "waiting"} \cup Holding => Stands(repo, c)
  /\ c.pc \in {"waiting"} \cup Holding => c.by = s /\ c.kind # "read"
  /\ c.pc \in {"add", "status", "commit", "sha", "done"} => Included(c)
  /\ c.pc \in {"add", "status", "commit"} => c.since = Len(repo.log)
  /\ c.pc \in {"status", "commit"} => SameFiles(repo.index, repo.tree)
  /\ c.pc = "sha" => Answers(repo, s, c, Len(repo.log))
  /\ c.pc = "done" => Answers(repo, s, c, c.sha)

BatchInv == OneSession /\ \A s \in Session : BatchAt(s, task[s], repos)

\* A history is only ever appended to.
Grows(repo, new) ==
  DOMAIN repo.log \subseteq DOMAIN new.log /\ \A i \in DOMAIN repo.log : new.log[i] = repo.log[i]

LEMMA AppendGrows ==
  ASSUME NEW repo \in RepoType, NEW new, NEW c \in Commit, new.log = Append(repo.log, c)
  PROVE  /\ Grows(repo, new)
         /\ Len(repo.log) \in Nat /\ Len(new.log) = Len(repo.log) + 1
         /\ Len(new.log) \in DOMAIN new.log /\ new.log[Len(new.log)] = c
<1>1. repo.log \in Seq(Commit)
  BY DEF RepoType
<1>2. /\ Len(repo.log) \in Nat /\ DOMAIN repo.log = 1 .. Len(repo.log)
      /\ DOMAIN Append(repo.log, c) = 1 .. Len(repo.log) + 1
      /\ Len(Append(repo.log, c)) = Len(repo.log) + 1
      /\ \A i \in DOMAIN repo.log : Append(repo.log, c)[i] = repo.log[i]
      /\ Append(repo.log, c)[Len(repo.log) + 1] = c
  BY <1>1
<1> QED
  BY <1>2 DEF Grows

\* Work on other sessions' behalf leaves a session's batch where it was: while the
\* session has the queue nobody else writes a file, and while it is inside its
\* workspace nobody else does anything there.
LEMMA BystandersKeepTheBatch ==
  ASSUME NEW s \in Session, NEW c \in TaskType, NEW all, NEW new, BatchAt(s, c, all),
         c.pc \in {"running", "waiting"} \cup Holding => new[c.repo].tree = all[c.repo].tree,
         c.pc \in {"add", "status", "commit", "sha"} => new[c.repo] = all[c.repo],
         c.pc = "done" => Grows(all[c.repo], new[c.repo])
  PROVE  BatchAt(s, c, new)
<1>1. CASE c.pc \in {"add", "status", "commit", "sha"}
  BY <1>1 DEF BatchAt
<1>2. CASE c.pc = "done"
  <2>1. Answers(all[c.repo], s, c, c.sha) /\ Included(c)
    BY <1>2 DEF BatchAt
  <2>2. Answers(new[c.repo], s, c, c.sha)
    BY <1>2, <2>1 DEF Answers, Grows
  <2> QED
    BY <1>2, <2>1, <2>2 DEF BatchAt, Holding
<1>3. CASE c.pc \notin {"add", "status", "commit", "sha", "done"}
  <2>1. c.pc \in {"running", "waiting"} \cup Holding => Stands(new[c.repo], c)
    BY <1>3 DEF BatchAt, Stands
  <2>2. /\ c.pc = "idle" => c.wrote = Nothing
        /\ c.pc \in {"waiting"} \cup Holding => c.by = s /\ c.kind # "read"
    BY DEF BatchAt
  <2> QED
    BY <1>3, <2>1, <2>2 DEF BatchAt
<1> QED
  BY <1>1, <1>2, <1>3

\* The session itself, each step of its own.
LEMMA GotoMoves ==
  ASSUME TypeInv, NEW t \in Task, NEW pc, Goto(t, pc)
  PROVE  /\ task'[t].pc = pc
         /\ task'[t].repo = task[t].repo /\ task'[t].kind = task[t].kind
         /\ task'[t].by = task[t].by /\ task'[t].batch = task[t].batch
         /\ task'[t].wrote = task[t].wrote /\ task'[t].since = task[t].since
         /\ \A u \in Task : u # t => task'[u] = task[u]
<1>1. task \in [Task -> TaskType]
  BY DEF TypeInv, TypeOK, TaskType
<1> QED
  BY <1>1 DEF Goto, TaskType

LEMMA OwnSetup ==
  ASSUME TypeInv, NEW s \in Session, BatchAt(s, task[s], repos),
         Enter(s) \/ GitInit(s) \/ HeadMissing(s) \/ CommitBaseline(s)
  PROVE  BatchAt(s, task'[s], repos')
<1>1. /\ s \in Task /\ task[s] \in TaskType /\ repos \in [Repo -> RepoType]
      /\ (task[s].pc \in {"waiting", "init", "head", "baseline"} => task[s].repo \in Repo)
  BY DEF Task, TypeInv, TypeOK, TaskType, RepoType, Bound
<1>2. /\ task[s].pc \in {"waiting", "init", "head", "baseline"}
      /\ task'[s].pc \in {"init", "head", "baseline"}
      /\ task'[s].kind = task[s].kind /\ task'[s].by = task[s].by
      /\ task'[s].wrote = task[s].wrote /\ task'[s].repo = task[s].repo
  BY <1>1, GotoMoves DEF Enter, GitInit, HeadMissing, CommitBaseline
<1>3. repos'[task[s].repo].tree = repos[task[s].repo].tree
  BY <1>1, <1>2 DEF Enter, GitInit, HeadMissing, CommitBaseline, RepoType
<1>4. Stands(repos[task[s].repo], task[s]) /\ task[s].by = s /\ task[s].kind # "read"
  BY <1>2 DEF BatchAt, Holding
<1>5. Stands(repos'[task'[s].repo], task'[s])
  BY <1>2, <1>3, <1>4 DEF Stands
<1> QED
  BY <1>2, <1>4, <1>5 DEF BatchAt

\* The batch is written whole, over what the run wrote before.
LEMMA OwnWrites ==
  ASSUME TypeInv, NEW s \in Session, BatchAt(s, task[s], repos), HeadFound(s)
  PROVE  BatchAt(s, task'[s], repos')
<1>1. /\ s \in Task /\ task[s] \in TaskType /\ repos \in [Repo -> RepoType]
      /\ task[s].pc = "head" /\ task[s].pc \in Holding /\ task[s].repo \in Repo
      /\ "add" \in Holding \cup Settled /\ "failed" \in Holding \cup Settled
  BY DEF Task, TypeInv, TypeOK, TaskType, RepoType, Bound, HeadFound, Holding, Settled
<1>2. task[s].by = s /\ task[s].kind # "read" /\ Stands(repos[task[s].repo], task[s])
  BY <1>1 DEF BatchAt
<1>3. ASSUME NEW part \in Writing, Write(s, "failed", part) PROVE BatchAt(s, task'[s], repos')
  <2>1. task'[s].pc = "failed"
    BY <1>1, <1>3, WriteTypes
  <2> QED
    BY <2>1 DEF BatchAt, Holding
<1>4. CASE Proceed(s) /\ task[s].batch \in Writing
  <2> DEFINE w == task[s].batch
             r == task[s].repo
  <2>1. Write(s, "add", w)
    BY <1>2, <1>4 DEF Proceed
  <2>2. /\ task'[s].pc = "add" /\ task'[s].kind = task[s].kind /\ task'[s].by = task[s].by
        /\ task'[s].batch = w /\ task'[s].repo = r
        /\ task'[s].wrote = Over(task[s].wrote, w) /\ task'[s].since = Len(repos[r].log)
        /\ repos'[r].log = repos[r].log /\ repos'[r].tree = Over(repos[r].tree, w)
    BY <1>1, <1>4, <2>1, WriteTypes
  <2>3. Stands(repos'[r], task'[s])
    BY <1>2, <2>2 DEF Stands, Over
  <2>4. Included(task'[s])
    BY <2>2 DEF Included, Over
  <2> QED
    BY <1>2, <2>2, <2>3, <2>4 DEF BatchAt
<1> QED
  BY <1>1, <1>3, <1>4, PartWrites

LEMMA OwnStaging ==
  ASSUME TypeInv, NEW s \in Session, BatchAt(s, task[s], repos), GitAdd(s)
  PROVE  BatchAt(s, task'[s], repos')
<1>1. /\ s \in Task /\ task[s] \in TaskType /\ repos \in [Repo -> RepoType]
      /\ task[s].pc = "add" /\ task[s].pc \in Holding /\ task[s].repo \in Repo
  BY DEF Task, TypeInv, TypeOK, TaskType, RepoType, Bound, GitAdd, Holding
<1>2. /\ task'[s].pc = "status" /\ task'[s].kind = task[s].kind /\ task'[s].by = task[s].by
      /\ task'[s].batch = task[s].batch /\ task'[s].repo = task[s].repo
      /\ task'[s].wrote = task[s].wrote /\ task'[s].since = task[s].since
  BY <1>1, GotoMoves DEF GitAdd
<1> DEFINE repo == repos[task[s].repo]
           new == repos'[task[s].repo]
<1>3. new.tree = repo.tree /\ new.index = Staged(repo.index, repo.tree) /\ new.log = repo.log
  BY <1>1 DEF GitAdd, RepoType
<1>4. /\ task[s].by = s /\ task[s].kind # "read" /\ Stands(repo, task[s]) /\ Included(task[s])
      /\ task[s].since = Len(repo.log)
  BY <1>1 DEF BatchAt
<1> HIDE DEF repo, new
<1>5. SameFiles(new.index, new.tree)
  BY <1>3 DEF SameFiles, Staged, Tracked
<1>6. Stands(new, task'[s]) /\ Included(task'[s])
  BY <1>2, <1>3, <1>4 DEF Stands, Included
<1> QED
  BY <1>2, <1>3, <1>4, <1>5, <1>6 DEF BatchAt, new

\* Nothing to commit: the commit that is there has what the run wrote already.
LEMMA OwnStatus ==
  ASSUME TypeInv, BaselineInv, NEW s \in Session, BatchAt(s, task[s], repos), GitStatus(s)
  PROVE  BatchAt(s, task'[s], repos')
<1>1. /\ s \in Task /\ task[s] \in TaskType /\ repos \in [Repo -> RepoType]
      /\ task[s].pc = "status" /\ task[s].pc \in Holding /\ task[s].repo \in Repo
  BY DEF Task, TypeInv, TypeOK, TaskType, RepoType, Bound, GitStatus, Holding
<1> DEFINE repo == repos[task[s].repo]
<1>2. /\ task'[s].pc \in {"sha", "commit"}
      /\ task'[s].kind = task[s].kind /\ task'[s].by = task[s].by
      /\ task'[s].batch = task[s].batch /\ task'[s].repo = task[s].repo
      /\ task'[s].wrote = task[s].wrote /\ task'[s].since = task[s].since
      /\ repos' = repos
      /\ task'[s].pc = "sha" => SameFiles(repo.tree, HeadTree(task[s].repo))
  BY <1>1, GotoMoves DEF GitStatus
<1>3. /\ task[s].by = s /\ task[s].kind # "read" /\ Stands(repo, task[s]) /\ Included(task[s])
      /\ task[s].since = Len(repo.log) /\ SameFiles(repo.index, repo.tree)
  BY <1>1 DEF BatchAt
<1>4. Stands(repo, task'[s]) /\ Included(task'[s])
  BY <1>2, <1>3 DEF Stands, Included
<1>5. CASE task'[s].pc = "commit"
  BY <1>2, <1>3, <1>4, <1>5 DEF BatchAt
<1>6. CASE task'[s].pc = "sha"
  <2>1. repo.log \in Seq(Commit) /\ repo.log # <<>>
    BY <1>1 DEF BaselineInv, RepoType
  <2>2. Len(repo.log) \in DOMAIN repo.log
    BY <2>1
  <2>3. SameFiles(repo.tree, repo.log[Len(repo.log)].tree)
    BY <1>2, <1>6, <2>1 DEF HeadTree, HasHead
  <2>4. Holds(repo.log[Len(repo.log)], task'[s].wrote)
    BY <1>4, <2>3 DEF Holds, SameFiles, Stands, Tracked
  <2>5. Answers(repo, s, task'[s], Len(repo.log))
    BY <1>2, <1>3, <2>2, <2>4 DEF Answers
  <2> QED
    BY <1>2, <1>3, <1>4, <1>6, <2>5 DEF BatchAt
<1> QED
  BY <1>2, <1>5, <1>6

LEMMA OwnCommit ==
  ASSUME TypeInv, NEW s \in Session, BatchAt(s, task[s], repos), GitCommit(s)
  PROVE  BatchAt(s, task'[s], repos')
<1>1. /\ s \in Task /\ task[s] \in TaskType /\ repos \in [Repo -> RepoType]
      /\ task[s].pc = "commit" /\ task[s].pc \in Holding /\ task[s].repo \in Repo
  BY DEF Task, TypeInv, TypeOK, TaskType, RepoType, Bound, GitCommit, Holding
<1>2. /\ task'[s].pc = "sha"
      /\ task'[s].kind = task[s].kind /\ task'[s].by = task[s].by
      /\ task'[s].batch = task[s].batch /\ task'[s].repo = task[s].repo
      /\ task'[s].wrote = task[s].wrote /\ task'[s].since = task[s].since
  BY <1>1, GotoMoves DEF GitCommit
<1> DEFINE repo == repos[task[s].repo]
           new == repos'[task[s].repo]
           c == [by |-> task[s].by, tree |-> repo.index]
<1>3. /\ task[s].by = s /\ task[s].kind # "read" /\ Stands(repo, task[s]) /\ Included(task[s])
      /\ task[s].since = Len(repo.log) /\ SameFiles(repo.index, repo.tree)
  BY <1>1 DEF BatchAt
<1>4. new.tree = repo.tree /\ new.log = Append(repo.log, c)
  BY <1>1 DEF GitCommit, RepoType
<1>5. c.by = s /\ c.tree = repo.index /\ repo \in RepoType /\ c \in Commit
  BY <1>1, <1>3 DEF RepoType, Commit
<1> HIDE DEF c, repo, new
<1>6. /\ Len(new.log) = task'[s].since + 1 /\ Len(new.log) \in DOMAIN new.log
      /\ new.log[Len(new.log)] = c
  BY <1>2, <1>3, <1>4, <1>5, AppendGrows
<1>7. Stands(new, task'[s]) /\ Included(task'[s])
  BY <1>2, <1>3, <1>4 DEF Stands, Included
<1>8. Holds(c, task'[s].wrote)
  BY <1>2, <1>3, <1>5 DEF Holds, SameFiles, Stands, Tracked
<1>9. Answers(new, s, task'[s], Len(new.log))
  BY <1>5, <1>6, <1>8 DEF Answers
<1> QED
  BY <1>2, <1>3, <1>7, <1>9 DEF BatchAt, new

\* The answer is the commit there is.
LEMMA OwnAnswer ==
  ASSUME TypeInv, NEW s \in Session, BatchAt(s, task[s], repos), RevParse(s)
  PROVE  BatchAt(s, task'[s], repos')
<1>1. /\ s \in Task /\ task[s] \in TaskType /\ task \in [Task -> TaskType]
      /\ task[s].pc = "sha"
  BY DEF Task, TypeInv, TypeOK, TaskType, RevParse
<1> DEFINE repo == repos[task[s].repo]
<1>2. /\ task'[s].pc = "done" /\ task'[s].sha = Len(repo.log)
      /\ task'[s].batch = task[s].batch /\ task'[s].repo = task[s].repo
      /\ task'[s].wrote = task[s].wrote /\ task'[s].since = task[s].since
      /\ repos' = repos
  BY <1>1 DEF RevParse, TaskType
<1>3. Answers(repo, s, task[s], Len(repo.log)) /\ Included(task[s])
  BY <1>1 DEF BatchAt
<1>4. Answers(repo, s, task'[s], Len(repo.log)) /\ Included(task'[s])
  BY <1>2, <1>3 DEF Answers, Included
<1> QED
  BY <1>2, <1>4 DEF BatchAt, Holding

LEMMA OneSessionStep ==
  ASSUME TypeInv, OneSession, [Next]_vars
  PROVE  OneSession'
<1>1. task \in [Task -> TaskType] /\ Session \subseteq Task
  BY DEF TypeInv, TypeOK, TaskType, Task
<1>2. ASSUME \A s \in Session : Busy(s)' => Busy(s) PROVE OneSession'
  BY <1>2 DEF OneSession
<1>3. ASSUME NEW s \in Session, Run(s) PROVE OneSession'
  <2>1. PICK r \in Repo : task' = [task EXCEPT ![s].pc = "running", ![s].repo = r]
    BY <1>3 DEF Run
  <2>2. \A u \in Session : u # s => task'[u] = task[u]
    BY <1>1, <2>1
  <2>3. \A u \in Session : u # s => ~Busy(u)'
    BY <1>3, <2>2 DEF Run, QueueIsFree, Busy, Pending
  <2> QED
    BY <2>3 DEF OneSession
<1>4. ASSUME NEW s \in Session, Finalize(s) PROVE OneSession'
  <2>1. task[s].pc = "running" /\ \A u \in Task : u # s => task'[u] = task[u]
    BY <1>1, <1>4 DEF Finalize, Chain
  <2> QED
    BY <1>1, <1>2, <2>1 DEF Busy, Pending
<1>5. ASSUME NEW s \in Session, RefusedUpfront(s) PROVE OneSession'
  BY <1>1, <1>2, <1>5, GotoMoves DEF RefusedUpfront, Busy, Pending
<1>6. ASSUME NEW s \in Session, NEW p \in Path, ToolWrite(s, p) PROVE OneSession'
  <2>1. \A u \in Session : task'[u].pc = task[u].pc
    BY <1>1, <1>6, ToolMoves
  <2> QED
    BY <1>2, <2>1 DEF Busy, Pending
<1>7. ASSUME NEW q \in Request, NEW r \in Repo, Ask(q, r) PROVE OneSession'
  <2>1. \A u \in Session : task'[u] = task[u]
    BY <1>1, <1>7, SessionsOrRequests DEF Ask, Chain
  <2> QED
    BY <1>2, <2>1 DEF Busy, Pending
<1>8. ASSUME NEW t \in Task, Forget(t) PROVE OneSession'
  BY <1>2, <1>8 DEF Forget, Busy, Pending
<1>9. ASSUME NEW t \in Task, GitFails(t) PROVE OneSession'
  BY <1>1, <1>2, <1>9, GotoMoves DEF GitFails, Busy, Pending
<1>10. ASSUME NEW t \in Task, Step(t) PROVE OneSession'
  BY <1>1, <1>2, <1>10, StepMoves DEF Busy, Pending
<1>11. ASSUME Crash PROVE OneSession'
  <2>1. \A s \in Session : ~Busy(s)'
    BY <1>1, <1>11 DEF Crash, Busy, Pending, TaskType, Holding
  <2> QED
    BY <1>2, <2>1
<1>12. CASE UNCHANGED vars
  BY <1>2, <1>12 DEF vars, Busy, Pending
<1> QED
  BY <1>3, <1>4, <1>5, <1>6, <1>7, <1>8, <1>9, <1>10, <1>11, <1>12 DEF Next

\* A step of the task inside a workspace, seen from a session it is not of: it
\* appends to that history at most, and writes no file the session could have.
LEMMA OthersKeepTheirBatch ==
  ASSUME TypeInv, MutualExclusion, BatchInv, NEW t \in Task, task[t].pc \in Holding,
         NEW s \in Session, s # t, task'[s] = task[s],
         \A r \in Repo : r # task[t].repo => repos'[r] = repos[r],
         Grows(repos[task[t].repo], repos'[task[t].repo]),
         \/ t \in Session
         \/ repos'[task[t].repo].tree = repos[task[t].repo].tree
  PROVE  BatchAt(s, task'[s], repos')
<1>1. /\ s \in Task /\ task[s] \in TaskType /\ BatchAt(s, task[s], repos)
      /\ \A u \in Task : task[u].pc \notin {"idle", "dead"} => task[u].repo \in Repo
  BY DEF Task, TypeInv, TypeOK, TaskType, BatchInv, Bound
<1>2. ASSUME task[s].pc \in {"running", "waiting"} \cup Holding
      PROVE  repos'[task[s].repo].tree = repos[task[s].repo].tree
  <2>1. t \notin Session
    BY <1>2 DEF BatchInv, OneSession, Busy, Pending
  <2>2. task[s].repo \in Repo
    BY <1>1, <1>2, PcsAreApart
  <2> QED
    BY <2>1, <2>2
<1>3. ASSUME task[s].pc \in {"add", "status", "commit", "sha"}
      PROVE  repos'[task[s].repo] = repos[task[s].repo]
  BY <1>1, <1>3 DEF MutualExclusion, Holding
<1>4. ASSUME task[s].pc = "done" PROVE Grows(repos[task[s].repo], repos'[task[s].repo])
  BY <1>1, <1>4 DEF Grows
<1> QED
  BY <1>1, <1>2, <1>3, <1>4, BystandersKeepTheBatch

LEMMA BatchInvStep ==
  ASSUME TypeInv, MutualExclusion, BaselineInv, BatchInv, [Next]_vars
  PROVE  BatchInv'
<1>1. /\ task \in [Task -> TaskType] /\ Session \subseteq Task
      /\ repos \in [Repo -> RepoType]
  BY DEF TypeInv, TypeOK, TaskType, Task, RepoType
<1>2. OneSession'
  BY OneSessionStep DEF BatchInv
<1> SUFFICES ASSUME NEW s \in Session PROVE BatchAt(s, task'[s], repos')
  BY <1>2 DEF BatchInv
<1>3. /\ BatchAt(s, task[s], repos) /\ task[s] \in TaskType
      /\ task[s].pc \notin {"idle", "dead"} => task[s].repo \in Repo
  BY <1>1 DEF BatchInv, TypeInv, Bound
<1>4. ASSUME task'[s] = task[s], repos' = repos PROVE BatchAt(s, task'[s], repos')
  BY <1>3, <1>4
\* A session that fails or dies promises nothing any more.
<1>5. ASSUME task'[s].pc \in {"failed", "dead"} PROVE BatchAt(s, task'[s], repos')
  BY <1>5 DEF BatchAt, Holding
<1>6. ASSUME NEW u \in Session, Run(u) PROVE BatchAt(s, task'[s], repos')
  <2>1. PICK r \in Repo : task' = [task EXCEPT ![u].pc = "running", ![u].repo = r]
    BY <1>6 DEF Run
  <2>2. CASE u = s
    <3>1. /\ task[s].pc = "idle" /\ task'[s].pc = "running" /\ repos' = repos
          /\ task'[s].wrote = task[s].wrote
      BY <1>1, <1>6, <2>1, <2>2 DEF Run, TaskType
    <3>2. task'[s].wrote = Nothing
      BY <1>3, <3>1 DEF BatchAt
    <3>3. Stands(repos'[task'[s].repo], task'[s])
      BY <3>2 DEF Stands, Nothing
    <3> QED
      BY <3>1, <3>3 DEF BatchAt, Holding
  <2>3. CASE u # s
    BY <1>1, <1>4, <1>6, <2>1, <2>3 DEF Run
  <2> QED
    BY <2>2, <2>3
<1>7. ASSUME NEW u \in Session, Finalize(u) PROVE BatchAt(s, task'[s], repos')
  <2>1. PICK batch \in Writing :
          Chain(u, task[u].repo, IF batch = Nothing THEN "commit" ELSE "apply", u, batch)
    BY <1>7, FinalizeChains
  <2>2. CASE u = s
    <3>1. /\ task[s].pc = "running" /\ task'[s].pc = "waiting" /\ repos' = repos
          /\ task'[s].by = s /\ task'[s].kind \in {"commit", "apply"}
          /\ task'[s].wrote = task[s].wrote /\ task'[s].repo = task[s].repo
      BY <1>1, <1>7, <2>1, <2>2 DEF Finalize, Chain, TaskType
    <3>2. Stands(repos'[task'[s].repo], task'[s])
      BY <1>3, <3>1 DEF BatchAt, Stands
    <3> QED
      BY <3>1, <3>2 DEF BatchAt, Holding
  <2>3. CASE u # s
    BY <1>1, <1>4, <1>7, <2>1, <2>3 DEF Finalize, Chain
  <2> QED
    BY <2>2, <2>3
<1>8. ASSUME NEW u \in Session, RefusedUpfront(u) PROVE BatchAt(s, task'[s], repos')
  BY <1>1, <1>4, <1>5, <1>8, GotoMoves DEF RefusedUpfront
\* While a session has the queue, no other runs whose tools could write.
<1>9. ASSUME NEW u \in Session, NEW p \in Path, ToolWrite(u, p)
      PROVE  BatchAt(s, task'[s], repos')
  <2>1. /\ task[u].pc = "running" /\ task[u].repo \in Repo
        /\ \A v \in Task : v # u => task'[v] = task[v]
        /\ task'[u].pc = "running" /\ task'[u].repo = task[u].repo
        /\ \A r \in Repo : r # task[u].repo => repos'[r] = repos[r]
        /\ \A r \in Repo : repos'[r].log = repos[r].log
    BY <1>1, <1>9, ToolMoves
  <2>2. CASE u = s
    <3>1. Stands(repos[task[s].repo], task[s])
      BY <1>3, <2>1, <2>2 DEF BatchAt
    <3>2. PICK x \in ToolText : \A q \in Path :
            /\ task'[s].wrote[q] = IF q = p THEN x ELSE task[s].wrote[q]
            /\ repos'[task[s].repo].tree[q] = IF q = p THEN x ELSE repos[task[s].repo].tree[q]
      BY <1>9, <2>2, ToolMoves
    <3>3. Stands(repos'[task[s].repo], task'[s])
      BY <3>1, <3>2 DEF Stands
    <3> QED
      BY <2>1, <2>2, <3>3 DEF BatchAt, Holding
  <2>3. CASE u # s
    <3>1. task'[s] = task[s] /\ task[s].pc \notin {"running", "waiting"} \cup Holding
      BY <1>1, <2>1, <2>3 DEF BatchInv, OneSession, Busy, Pending
    <3>2. task[s].pc \notin {"add", "status", "commit", "sha"}
      BY <3>1 DEF Holding
    <3>3. task[s].pc = "done" => Grows(repos[task[s].repo], repos'[task[s].repo])
      BY <1>3, <2>1 DEF Grows
    <3> QED
      BY <1>3, <3>1, <3>2, <3>3, BystandersKeepTheBatch
  <2> QED
    BY <2>2, <2>3
<1>10. ASSUME NEW q \in Request, NEW r \in Repo, Ask(q, r) PROVE BatchAt(s, task'[s], repos')
  BY <1>1, <1>4, <1>10, SessionsOrRequests DEF Ask, Chain
<1>11. ASSUME NEW t \in Task, Forget(t) PROVE BatchAt(s, task'[s], repos')
  BY <1>4, <1>11 DEF Forget
<1>12. ASSUME NEW t \in Task, GitFails(t) PROVE BatchAt(s, task'[s], repos')
  BY <1>1, <1>4, <1>5, <1>12, GotoMoves DEF GitFails
<1>13. ASSUME NEW t \in Task, Step(t) PROVE BatchAt(s, task'[s], repos')
  <2>1. CASE t = s
    <3>1. CASE NothingStaged(s)
      BY <1>1, <1>5, <3>1, GotoMoves DEF NothingStaged
    <3> QED
      BY <1>3, <1>13, <2>1, <3>1, OwnSetup, OwnWrites, OwnStaging, OwnStatus, OwnCommit,
         OwnAnswer DEF Step
  <2>2. CASE t # s
    <3>1. task'[s] = task[s]
      BY <1>1, <1>13, <2>2, StepMoves
    <3>2. CASE Enter(t) \/ HeadMissing(t) \/ GitStatus(t) \/ NothingStaged(t) \/ RevParse(t)
      BY <1>4, <3>1, <3>2 DEF Enter, HeadMissing, GitStatus, NothingStaged, RevParse
    <3>3. CASE GitInit(t) \/ HeadFound(t) \/ CommitBaseline(t) \/ GitAdd(t) \/ GitCommit(t)
      <4> DEFINE r == task[t].repo
      <4>1. task[t].pc \in Holding /\ r \in Repo /\ repos[r] \in RepoType
        <5>1. task[t].pc \in Holding
          BY <3>3 DEF GitInit, HeadFound, CommitBaseline, GitAdd, GitCommit, Holding
        <5>2. r \in Repo
          BY <5>1, PcsAreApart DEF TypeInv, Bound
        <5> QED
          BY <1>1, <5>1, <5>2
      <4>2. /\ \A x \in Repo : x # r => repos'[x] = repos[x]
            /\ Grows(repos[r], repos'[r])
            /\ t \in Session \/ repos'[r].tree = repos[r].tree
        <5>1. CASE GitInit(t) \/ GitAdd(t)
          <6>1. /\ \A x \in Repo : x # r => repos'[x] = repos[x]
                /\ repos'[r].log = repos[r].log /\ repos'[r].tree = repos[r].tree
            <7>1. CASE GitInit(t)
              <8>1. repos' = [repos EXCEPT ![r].git = TRUE]
                BY <7>1 DEF GitInit
              <8> QED
                BY <1>1, <4>1, <8>1 DEF RepoType
            <7>2. CASE GitAdd(t)
              <8>1. repos' = [repos EXCEPT ![r] = [repos[r] EXCEPT
                                             !.index = Staged(repos[r].index, repos[r].tree)]]
                BY <7>2 DEF GitAdd
              <8> QED
                BY <1>1, <4>1, <8>1 DEF RepoType
            <7> QED
              BY <5>1, <7>1, <7>2
          <6> QED
            BY <6>1 DEF Grows
        <5>2. CASE HeadFound(t)
          <6>1. PICK pc \in Holding \cup Settled, w \in Writing :
                  Write(t, pc, w) /\ (t \notin Session => w = Nothing)
            <7>1. {"done", "failed", "add"} \subseteq Holding \cup Settled
              BY DEF Holding, Settled
            <7>2. t \notin Session => task[t].kind # "apply" /\ task[t].batch = Nothing
              BY DEF TypeInv, Bound
            <7> QED
              BY <5>2, <7>1, <7>2, PartWrites DEF Proceed
          <6>2. /\ \A x \in Repo : x # r => repos'[x] = repos[x]
                /\ repos'[r].log = repos[r].log /\ repos'[r].tree = Over(repos[r].tree, w)
            BY <4>1, <6>1, WriteTypes
          <6>3. t \notin Session => repos'[r].tree = repos[r].tree
            BY <4>1, <6>1, <6>2, NothingWrites DEF RepoType
          <6> QED
            BY <6>2, <6>3 DEF Grows
        <5>3. CASE CommitBaseline(t) \/ GitCommit(t)
          <6>1. PICK c \in Commit : repos' = [repos EXCEPT ![r].log = Append(@, c)]
            <7>1. Baseline \in Commit
              BY EmptyIsTree DEF Baseline, Commit
            <7>2. [by |-> task[t].by, tree |-> repos[r].index] \in Commit
              BY <1>1, <4>1 DEF Commit, RepoType, TaskType
            <7> QED
              BY <5>3, <7>1, <7>2 DEF CommitBaseline, GitCommit
          <6>2. /\ repos'[r].log = Append(repos[r].log, c) /\ repos'[r].tree = repos[r].tree
                /\ \A x \in Repo : x # r => repos'[x] = repos[x]
            BY <1>1, <4>1, <6>1 DEF RepoType
          <6> QED
            BY <4>1, <6>1, <6>2, AppendGrows
        <5> QED
          BY <3>3, <5>1, <5>2, <5>3
      <4> QED
        BY <2>2, <3>1, <4>1, <4>2, OthersKeepTheirBatch
    <3> QED
      BY <1>13, <3>2, <3>3 DEF Step
  <2> QED
    BY <2>1, <2>2
<1>14. ASSUME Crash PROVE BatchAt(s, task'[s], repos')
  <2>1. CASE task'[s] = task[s]
    BY <1>4, <1>14, <2>1 DEF Crash
  <2>2. CASE task'[s] = [task[s] EXCEPT !.pc = "dead"]
    BY <1>3, <1>5, <2>2 DEF TaskType
  <2> QED
    BY <1>1, <1>14, <2>1, <2>2 DEF Crash
<1>15. CASE UNCHANGED vars
  BY <1>4, <1>15 DEF vars
<1> QED
  BY <1>6, <1>7, <1>8, <1>9, <1>10, <1>11, <1>12, <1>13, <1>14, <1>15 DEF Next

LEMMA BatchInvInit == Init => BatchInv
  BY DEF Init, BatchInv, OneSession, Busy, Pending, Holding, BatchAt, Idle, Task

LEMMA WorkspaceInvHolds == Spec => [](TypeInv /\ MutualExclusion /\ BaselineInv /\ BatchInv)
<1>1. LockInv => TypeInv /\ MutualExclusion
  BY LockInvExcludes DEF LockInv
<1>2. LockInv /\ BaselineInv /\ [Next]_vars => BaselineInv'
  BY <1>1, BaselineInvStep
<1>3. LockInv /\ BaselineInv /\ BatchInv /\ [Next]_vars => BatchInv'
  BY <1>1, BatchInvStep
<1> QED
  BY <1>1, <1>2, <1>3, LockInvInit, LockInvStep, BaselineInvInit, BatchInvInit, PTL DEF Spec

\* Each history is one baseline and then commits that tear no batch: an answer that
\* a batch was applied names a commit that holds all of it, the run's own and the
\* first since the files were written, or the one that had them before.
THEOREM HistoriesAreClean == Spec => []HistoryIsClean
<1>1. BaselineInv /\ BatchInv => HistoryIsClean
  <2> SUFFICES ASSUME BaselineInv, BatchInv, NEW s \in Session, task[s].pc = "done"
               PROVE  LET c == task[s]
                          log == repos[c.repo].log
                      IN /\ c.sha = c.since \/ (c.sha = c.since + 1 /\ log[c.sha].by = s)
                         /\ Holds(log[c.sha], c.batch)
    BY DEF HistoryIsClean, BatchIsOneCommit, BaselineInv
  <2>1. Answers(repos[task[s].repo], s, task[s], task[s].sha) /\ Included(task[s])
    BY DEF BatchInv, BatchAt
  <2> QED
    BY <2>1 DEF Answers, Included, Holds, Tracked
<1> QED
  BY <1>1, WorkspaceInvHolds, PTL

\* What a finalized run wrote last to a file that git looks at is in the commit it
\* was answered: nobody else writes from there to the commit.
THEOREM RunsArePinned == Spec => []RunIsPinned
<1>1. BatchInv => RunIsPinned
  BY DEF BatchInv, BatchAt, RunIsPinned, Answers
<1> QED
  BY <1>1, WorkspaceInvHolds, PTL
=============================================================================
