----------------------------- MODULE Workspace -----------------------------
(***************************************************************************)
(* Where the tasks of one daemon run, daemon.go, local_directory.go, gc.go: *)
(* a task pinned to a user's directory takes that directory's mutex, then   *)
(* marks the environment roots it uses, its own and the one it resumes, so  *)
(* that the garbage collector leaves them alone, and runs its agent.        *)
(*                                                                         *)
(* The guards of the persistent stores (markActiveStore,                    *)
(* reserveStoreForDeletion) follow the protocol of the roots' guards.       *)
(***************************************************************************)
EXTENDS Naturals, Sequences

CONSTANTS Workers,     \* the tasks, each in a slot of its own
          Paths,       \* the users' directories
          PathOf,      \* task -> directory it runs in, or NoPath
          NoPath,      \* worktree mode, chat task, or no directory at all
          Roots,       \* environment roots
          RootsOf,     \* task -> << predicted root >> or << predicted, prior root >>
          Nobody

ASSUME WorkspaceAssumption ==
    /\ NoPath \notin Paths /\ Nobody \notin Workers
    /\ PathOf \in [Workers -> Paths \cup {NoPath}]
    /\ RootsOf \in [Workers -> Seq(Roots)]

VARIABLES
    stage,      \* task -> where its handleTask stands
    withdrawn,  \* tasks whose status on the server is terminal
    lockOwner,  \* directory -> the task on whose behalf its mutex is locked
    lockQueue,  \* directory -> the tasks whose goroutines wait in entry.mu.Lock
    holderID,   \* directory -> the hint shown to users who wait
    marks,      \* task -> how many of its marks it has made
    activeRoots,    \* root -> reference count
    deletingRoots,  \* roots reserved by the collector
    collector   \* [pc, root] of gcLoop

lockVars == << lockOwner, lockQueue, holderID >>
rootVars == << marks, activeRoots >>
workspaceVars == << stage, withdrawn, lockVars, rootVars, deletingRoots, collector >>

Stands(t, s) == stage[t] = s
Steps(t, s) == stage' = [stage EXCEPT ![t] = s]
Path(t) == PathOf[t]

WorkspaceInit ==
    /\ stage = [t \in Workers |-> "new"] /\ withdrawn = {}
    /\ lockOwner = [p \in Paths |-> Nobody] /\ lockQueue = [p \in Paths |-> {}]
    /\ holderID = [p \in Paths |-> Nobody]
    /\ marks = [t \in Workers |-> 0] /\ activeRoots = [r \in Roots |-> 0]
    /\ deletingRoots = {} /\ collector = [pc |-> "idle", root |-> Nobody]

-----------------------------------------------------------------------------
(* The directory's mutex: LocalPathLocker.                                    *)

\* acquireLocalDirectoryLockIfNeeded, and the fast path of Acquire.
TryLock(t) ==
    /\ Stands(t, "new")
    /\ \/ Path(t) = NoPath /\ Steps(t, "mark") /\ UNCHANGED << lockOwner, holderID >>
       \/ /\ Path(t) # NoPath /\ lockOwner[Path(t)] = Nobody /\ Steps(t, "mark")
          /\ lockOwner' = [lockOwner EXCEPT ![Path(t)] = t]
          /\ holderID' = [holderID EXCEPT ![Path(t)] = t]
       \/ /\ Path(t) # NoPath /\ lockOwner[Path(t)] # Nobody /\ Steps(t, "onWait")
          /\ UNCHANGED << lockOwner, holderID >>
    /\ UNCHANGED << withdrawn, lockQueue, rootVars, deletingRoots, collector >>

\* onWait told the server; a goroutine now waits for the mutex.
Park(t) ==
    /\ Stands(t, "onWait") /\ Steps(t, "parked")
    /\ lockQueue' = [lockQueue EXCEPT ![Path(t)] = @ \cup {t}]
    /\ UNCHANGED << withdrawn, lockOwner, holderID, rootVars, deletingRoots, collector >>

\* That goroutine gets it, for the task or, too late, for nobody.
Lock(t) ==
    /\ Path(t) # NoPath /\ t \in lockQueue[Path(t)] /\ lockOwner[Path(t)] = Nobody
    /\ lockOwner' = [lockOwner EXCEPT ![Path(t)] = t]
    /\ lockQueue' = [lockQueue EXCEPT ![Path(t)] = @ \ {t}]
    /\ UNCHANGED << stage, withdrawn, holderID, rootVars, deletingRoots, collector >>

Unlocked(p) ==
    /\ lockOwner' = [lockOwner EXCEPT ![p] = Nobody]
    /\ holderID' = [holderID EXCEPT ![p] = Nobody]

TakeOverAnyLock(t) ==  \* mutant: goes on as soon as the mutex is locked, by whomever
    /\ Stands(t, "parked") /\ lockOwner[Path(t)] # Nobody /\ Steps(t, "mark")
    /\ UNCHANGED << withdrawn, lockVars, rootVars, deletingRoots, collector >>
TakeOver(t) ==
    /\ Stands(t, "parked") /\ lockOwner[Path(t)] = t /\ Steps(t, "mark")
    /\ holderID' = [holderID EXCEPT ![Path(t)] = t]
    /\ UNCHANGED << withdrawn, lockOwner, lockQueue, rootVars, deletingRoots, collector >>

\* watchTaskCancellation ends the wait; the goroutine goes on waiting.
AbandonWait(t) ==
    /\ Stands(t, "parked") /\ t \in withdrawn /\ Steps(t, "ended")
    /\ UNCHANGED << withdrawn, lockVars, rootVars, deletingRoots, collector >>

PhantomHolder(t) == FALSE /\ UNCHANGED workspaceVars  \* mutant: keeps a lock nobody waits for
\* The clean-up goroutine unlocks what was acquired too late.
CleanUp(t) ==
    /\ Stands(t, "ended") /\ Path(t) # NoPath /\ lockOwner[Path(t)] = t
    /\ lockOwner' = [lockOwner EXCEPT ![Path(t)] = Nobody]
    /\ UNCHANGED << stage, withdrawn, lockQueue, holderID, rootVars, deletingRoots, collector >>

-----------------------------------------------------------------------------
(* The roots' guards.                                                         *)

\* handleTask marks each root, and runTask marks it again for its own time.
Guarded(t) == RootsOf[t] \o RootsOf[t]
OuterMarks(t) == Len(RootsOf[t])

Mark(t, r) == activeRoots' = [activeRoots EXCEPT ![r] = @ + 1]

MarkActiveEnvRoot(t) ==
    /\ Stands(t, "mark") /\ marks[t] < Len(Guarded(t))
    /\ LET r == Guarded(t)[marks[t] + 1] IN r \notin deletingRoots /\ Mark(t, r)
    /\ marks' = [marks EXCEPT ![t] = @ + 1]
    /\ UNCHANGED << stage, withdrawn, lockVars, deletingRoots, collector >>

\* Prepare or reuse the environment, and run the agent.
RunAgent(t) ==
    /\ Stands(t, "mark") /\ marks[t] = Len(Guarded(t)) /\ Steps(t, "run")
    /\ UNCHANGED << withdrawn, lockVars, rootVars, deletingRoots, collector >>

\* The agent ends, or watchTaskCancellation interrupts it.
AgentEnds(t) ==
    /\ Stands(t, "run") /\ Steps(t, "unmark")
    /\ UNCHANGED << withdrawn, lockVars, rootVars, deletingRoots, collector >>

Unmarked(t) ==
    /\ LET r == Guarded(t)[marks[t]] IN activeRoots' = [activeRoots EXCEPT ![r] = @ - 1]
    /\ marks' = [marks EXCEPT ![t] = @ - 1]

\* runTask's deferred unmarks,
UnmarkInner(t) ==
    /\ Stands(t, "unmark") /\ marks[t] > OuterMarks(t) /\ Unmarked(t)
    /\ UNCHANGED << stage, withdrawn, lockVars, deletingRoots, collector >>

\* the report and, last of all, the collector's metadata in the root,
ReportResult(t) ==
    /\ Stands(t, "unmark") /\ marks[t] = OuterMarks(t) /\ Steps(t, "report")
    /\ UNCHANGED << withdrawn, lockVars, rootVars, deletingRoots, collector >>

WriteGCMeta(t) ==
    /\ Stands(t, "report") /\ Steps(t, "leave")
    /\ UNCHANGED << withdrawn, lockVars, rootVars, deletingRoots, collector >>

\* handleTask's deferred unmarks,
UnmarkOuter(t) ==
    /\ Stands(t, "leave") /\ marks[t] > 0 /\ Unmarked(t)
    /\ UNCHANGED << stage, withdrawn, lockVars, deletingRoots, collector >>

\* and the directory's release.
Leaves(t) ==
    /\ Stands(t, "leave") /\ marks[t] = 0 /\ Steps(t, "ended")
    /\ IF Path(t) = NoPath THEN UNCHANGED << lockOwner, holderID >> ELSE Unlocked(Path(t))
    /\ UNCHANGED << withdrawn, lockQueue, rootVars, deletingRoots, collector >>

\* The server ends the task: cancelled, failed by a sweep, deleted.
Withdraw(t) ==
    /\ t \notin withdrawn /\ withdrawn' = withdrawn \cup {t}
    /\ UNCHANGED << stage, lockVars, rootVars, deletingRoots, collector >>

-----------------------------------------------------------------------------
(* The collector.                                                             *)

\* A root no task uses now; its metadata and the server's answer say to clean it.
Decide(r) ==
    /\ collector.pc = "idle" /\ activeRoots[r] = 0
    /\ collector' = [pc |-> "decided", root |-> r]
    /\ UNCHANGED << stage, withdrawn, lockVars, rootVars, deletingRoots >>

ReserveUnchecked ==  \* mutant: trusts the check made before asking the server
    /\ collector.pc = "decided" /\ collector' = [collector EXCEPT !.pc = "deleting"]
    /\ deletingRoots' = deletingRoots \cup {collector.root}
    /\ UNCHANGED << stage, withdrawn, lockVars, rootVars >>
\* reserveEnvRootForGC.
Reserve ==
    /\ collector.pc = "decided"
    /\ \/ /\ activeRoots[collector.root] > 0 \/ collector.root \in deletingRoots
          /\ collector' = [collector EXCEPT !.pc = "idle"] /\ UNCHANGED deletingRoots
       \/ /\ activeRoots[collector.root] = 0 /\ collector.root \notin deletingRoots
          /\ collector' = [collector EXCEPT !.pc = "deleting"]
          /\ deletingRoots' = deletingRoots \cup {collector.root}
    /\ UNCHANGED << stage, withdrawn, lockVars, rootVars >>

\* The directory or its artifacts are removed, and the reservation is released.
Removed ==
    /\ collector.pc = "deleting" /\ collector' = [collector EXCEPT !.pc = "idle"]
    /\ deletingRoots' = deletingRoots \ {collector.root}
    /\ UNCHANGED << stage, withdrawn, lockVars, rootVars >>

TaskStep(t) ==
    \/ TryLock(t) \/ Park(t) \/ TakeOver(t) \/ AbandonWait(t) \/ MarkActiveEnvRoot(t)
    \/ RunAgent(t) \/ AgentEnds(t) \/ UnmarkInner(t) \/ ReportResult(t) \/ WriteGCMeta(t)
    \/ UnmarkOuter(t) \/ Leaves(t)

WorkersStep == \E t \in Workers : TaskStep(t) \/ Lock(t) \/ CleanUp(t)
WorkspaceNext ==
    \/ WorkersStep
    \/ \E t \in Workers : Withdraw(t)
    \/ (\E r \in Roots : Decide(r)) \/ Reserve \/ Removed

WorkspaceSpec == WorkspaceInit /\ [][WorkspaceNext]_workspaceVars

-----------------------------------------------------------------------------
(* Properties.                                                                *)

\* Every variable has its type.
WorkspaceTypeOK ==
    /\ stage \in [Workers -> {"new", "onWait", "parked", "mark", "run", "unmark", "report",
                              "leave", "ended"}]
    /\ withdrawn \subseteq Workers
    /\ lockOwner \in [Paths -> Workers \cup {Nobody}]
    /\ lockQueue \in [Paths -> SUBSET Workers]
    /\ holderID \in [Paths -> Workers \cup {Nobody}]
    /\ marks \in [Workers -> Nat] /\ activeRoots \in [Roots -> Nat]
    /\ deletingRoots \subseteq Roots
    /\ collector \in [pc : {"idle", "decided", "deleting"}, root : Roots \cup {Nobody}]

\* A task works in its directory alone, whatever waits were abandoned before it,
\* and the hint names nobody but the one who works there.
AtWork(t) == stage[t] \in {"mark", "run", "unmark", "report", "leave"}
OneInPlace ==
    /\ \A t, u \in Workers : AtWork(t) /\ AtWork(u) /\ Path(t) = Path(u) /\ Path(t) # NoPath => t = u
    /\ \A p \in Paths : holderID[p] # Nobody => lockOwner[p] = holderID[p] /\ AtWork(holderID[p])

\* From its agent's start to the collector's metadata no root a task uses is being
\* removed, though the collector decided on it without any lock ("closes the
\* check-then-remove race", "race B").
LiveRootsStay ==
    \A t \in Workers : stage[t] \in {"run", "unmark", "report"} =>
        \A i \in DOMAIN RootsOf[t] : RootsOf[t][i] \notin deletingRoots

\* Once they began, all tasks end, whatever the collector removes meanwhile, and
\* their directories stay free: an abandoned wait leaves no phantom holder.
WorkersEnd ==
    (\E t \in Workers : stage[t] # "new") ~>
        [](/\ \A t \in Workers : stage[t] = "ended"
           /\ \A p \in Paths : lockOwner[p] = Nobody)
=============================================================================
