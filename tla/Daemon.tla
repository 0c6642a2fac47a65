------------------------------- MODULE Daemon -------------------------------
(***************************************************************************)
(* The daemon process on a user's machine, daemon.go and auto_update.go:    *)
(* the batch poller that claims tasks into free slots, one goroutine per    *)
(* task, and the three kinds of self-update that may replace the process    *)
(* only while it has no work.                                               *)
(*                                                                         *)
(* A mutex's critical section, an atomic operation and a channel operation  *)
(* are one action each.  What a task does in its slot is in Workspace, and  *)
(* what its reports do to the queue in TaskQueue.                           *)
(***************************************************************************)
EXTENDS Integers, FiniteSets

CONSTANTS Slots,    \* MaxConcurrentTasks of them
          Updates,  \* goroutines of handleUpdate, one per pending update
          Loop,     \* the goroutine of autoUpdateLoop
          MaxArrivals  \* bound: tasks that are queued in all

ASSUME DaemonAssumption == IsFiniteSet(Slots) /\ Loop \notin Updates /\ MaxArrivals \in Nat

VARIABLES
    arrivals, backlog,  \* tasks that may still be queued, and those the server has queued
    sem,       \* the free slots
    inTask,    \* the slots whose handleTask runs
    nudging,   \* task goroutines that released their slot and not yet woke the poller
    leaving,   \* and those that woke it and still count in activeTasks
    activeTasks,
    poller,    \* [pc, grip: the slots it holds, got: tasks to dispatch, sent: any dispatched]
    wakeup,    \* the wakeup channel, of capacity 1
    pauseClaims, claimsInFlight,  \* under claimMu
    updating,  \* the flag that is compared and swapped
    updater,   \* update goroutine -> where it stands
    restartBinary,  \* whether a restart is scheduled
    ctxDone,   \* the daemon's context is cancelled
    returned   \* pollLoop has returned

taskVars == << arrivals, backlog, sem, inTask, nudging, leaving, activeTasks >>
pollVars == << poller, wakeup >>
updateVars == << updating, updater, restartBinary >>
exitVars == << ctxDone, returned >>
daemonVars == << taskVars, pollVars, pauseClaims, claimsInFlight, updateVars, exitVars >>

Goroutines == Updates \cup {Loop}

DaemonInit ==
    /\ arrivals = MaxArrivals /\ backlog = 0
    /\ sem = Slots /\ inTask = {} /\ nudging = 0 /\ leaving = 0 /\ activeTasks = 0
    /\ poller = [pc |-> "wait", grip |-> {}, got |-> 0, sent |-> FALSE] /\ wakeup = FALSE
    /\ pauseClaims = FALSE /\ claimsInFlight = 0
    /\ updating = FALSE /\ updater = [u \in Goroutines |-> "idle"] /\ restartBinary = FALSE
    /\ ctxDone = FALSE /\ returned = FALSE

-----------------------------------------------------------------------------
(* The batch poller.                                                          *)

PollerAt(pc) == poller.pc = pc
PollerGoes(pc) == poller' = [poller EXCEPT !.pc = pc]

\* waitForTaskSlot and drainAvailableSlots.  A cancelled context and a free slot
\* are both ready: either may be chosen.
TakeSlots ==
    /\ PollerAt("wait") /\ sem # {} /\ sem' = {}
    /\ poller' = [pc |-> "enter", grip |-> sem, got |-> 0, sent |-> FALSE]
    /\ UNCHANGED << arrivals, backlog, inTask, nudging, leaving, activeTasks, wakeup,
                    pauseClaims, claimsInFlight, updateVars, exitVars >>

NoSlot ==
    /\ PollerAt("wait") /\ sem = {}
    /\ \/ wakeup /\ wakeup' = FALSE /\ UNCHANGED poller
       \/ PollerGoes("sleep") /\ UNCHANGED wakeup
    /\ UNCHANGED << taskVars, pauseClaims, claimsInFlight, updateVars, exitVars >>

ReleaseGrip == sem' = sem \cup poller.grip

\* tryEnterClaim.
EnterClaim ==
    /\ PollerAt("enter")
    /\ \/ /\ ~pauseClaims /\ PollerGoes("claim")
          /\ claimsInFlight' = claimsInFlight + 1 /\ UNCHANGED sem
       \/ /\ pauseClaims /\ ReleaseGrip
          /\ poller' = [poller EXCEPT !.pc = "sleep", !.grip = {}] /\ UNCHANGED claimsInFlight
    /\ UNCHANGED << arrivals, backlog, inTask, nudging, leaving, activeTasks, wakeup,
                    pauseClaims, updateVars, exitVars >>

\* ClaimTasksWSFirst returns at most one task per held slot.
ClaimTasks ==
    /\ PollerAt("claim")
    /\ \E n \in 0 .. Cardinality(poller.grip) :
          /\ n <= backlog /\ backlog' = backlog - n
          /\ poller' = [poller EXCEPT !.pc = "dispatch", !.got = n]
    /\ UNCHANGED << arrivals, sem, inTask, nudging, leaving, activeTasks, wakeup,
                    pauseClaims, claimsInFlight, updateVars, exitVars >>

\* Its error: out of the claim, and the slots go back.
ClaimFails ==
    /\ PollerAt("claim") /\ ReleaseGrip
    /\ poller' = [poller EXCEPT !.pc = "sleep", !.grip = {}]
    /\ claimsInFlight' = claimsInFlight - 1
    /\ UNCHANGED << arrivals, backlog, inTask, nudging, leaving, activeTasks, wakeup,
                    pauseClaims, updateVars, exitVars >>

Dispatch ==
    /\ PollerAt("dispatch") /\ poller.got > 0
    /\ \E s \in poller.grip :
          /\ inTask' = inTask \cup {s}
          /\ poller' = [poller EXCEPT !.grip = @ \ {s}, !.got = @ - 1, !.sent = TRUE]
    /\ activeTasks' = activeTasks + 1
    /\ UNCHANGED << arrivals, backlog, sem, nudging, leaving, wakeup,
                    pauseClaims, claimsInFlight, updateVars, exitVars >>

\* exitClaim; slots no task was found for go back.
ExitClaim ==
    /\ PollerAt("dispatch") /\ poller.got = 0
    /\ claimsInFlight' = claimsInFlight - 1 /\ ReleaseGrip
    /\ poller' = [poller EXCEPT
                    !.pc = IF poller.sent /\ poller.grip = {} THEN "wait" ELSE "sleep",
                    !.grip = {}]
    /\ UNCHANGED << arrivals, backlog, inTask, nudging, leaving, activeTasks, wakeup,
                    pauseClaims, updateVars, exitVars >>

WakeupOnly ==  \* mutant: a sleep that only a wakeup ends, although hints get lost
    /\ PollerAt("sleep") /\ wakeup /\ PollerGoes("wait") /\ wakeup' = FALSE
    /\ UNCHANGED << taskVars, pauseClaims, claimsInFlight, updateVars, exitVars >>
\* sleepWithContextOrWakeup: its timer fires, or it takes a wakeup.
PollAgain ==
    /\ PollerAt("sleep") /\ PollerGoes("wait")
    /\ wakeup' \in {wakeup, FALSE}
    /\ UNCHANGED << taskVars, pauseClaims, claimsInFlight, updateVars, exitVars >>

\* The poller only notices a cancelled context where it waits.
PollerStops ==
    /\ ctxDone /\ (PollerAt("sleep") \/ PollerAt("wait")) /\ PollerGoes("stopped")
    /\ UNCHANGED << taskVars, wakeup, pauseClaims, claimsInFlight, updateVars, exitVars >>

-----------------------------------------------------------------------------
(* Tasks.                                                                     *)

\* The server queues a task; its hint reaches pollLoop, or does not.
Arrive ==
    /\ arrivals > 0 /\ arrivals' = arrivals - 1 /\ backlog' = backlog + 1
    /\ wakeup' \in {wakeup, TRUE}
    /\ UNCHANGED << sem, inTask, nudging, leaving, activeTasks, poller,
                    pauseClaims, claimsInFlight, updateVars, exitVars >>

SlotLeaks(s) ==  \* mutant: a task that ends does not give its slot back
    /\ s \in inTask /\ inTask' = inTask \ {s} /\ nudging' = nudging + 1
    /\ UNCHANGED << arrivals, backlog, sem, leaving, activeTasks, pollVars,
                    pauseClaims, claimsInFlight, updateVars, exitVars >>
\* handleTask returns and its slot goes back,
ReleaseSlot(s) ==
    /\ s \in inTask
    /\ inTask' = inTask \ {s} /\ sem' = sem \cup {s} /\ nudging' = nudging + 1
    /\ UNCHANGED << arrivals, backlog, leaving, activeTasks, pollVars,
                    pauseClaims, claimsInFlight, updateVars, exitVars >>

\* then it wakes the poller,
Nudge ==
    /\ nudging > 0 /\ nudging' = nudging - 1 /\ leaving' = leaving + 1
    /\ wakeup' = TRUE
    /\ UNCHANGED << arrivals, backlog, sem, inTask, activeTasks, poller,
                    pauseClaims, claimsInFlight, updateVars, exitVars >>

\* and then it counts no longer, neither in activeTasks nor in taskWG.
Leave ==
    /\ leaving > 0 /\ leaving' = leaving - 1 /\ activeTasks' = activeTasks - 1
    /\ UNCHANGED << arrivals, backlog, sem, inTask, nudging, pollVars,
                    pauseClaims, claimsInFlight, updateVars, exitVars >>

-----------------------------------------------------------------------------
(* Updates.                                                                   *)

UpdaterAt(u, pc) == updater[u] = pc
UpdaterGoes(u, pc) == updater' = [updater EXCEPT ![u] = pc]
OnlyUpdater == UNCHANGED << taskVars, pollVars, pauseClaims, claimsInFlight, updating,
                            restartBinary, exitVars >>

\* tryBeginServerUpdate.  Another update is under way: the request is refused.
BeginUpdate(u) ==
    /\ u \in Updates /\ UpdaterAt(u, "idle") /\ ~updating
    /\ updating' = TRUE /\ UpdaterGoes(u, "pause")
    /\ UNCHANGED << taskVars, pollVars, pauseClaims, claimsInFlight, restartBinary, exitVars >>

PauseClaims(u) ==
    /\ UpdaterAt(u, "pause")
    /\ \/ (pauseClaims \/ activeTasks > 0) /\ UpdaterGoes(u, "disown") /\ UNCHANGED pauseClaims
       \/ ~(pauseClaims \/ activeTasks > 0) /\ pauseClaims' = TRUE /\ UpdaterGoes(u, "drain")
    /\ UNCHANGED << taskVars, pollVars, claimsInFlight, updating, restartBinary, exitVars >>

\* The claim in flight is let through; if it brought a task, the update gives up.
Drain(u) ==
    /\ UpdaterAt(u, "drain")
    /\ \/ /\ claimsInFlight = 0 /\ activeTasks = 0
          /\ UpdaterGoes(u, "update") /\ UNCHANGED pauseClaims
       \/ /\ (claimsInFlight = 0 /\ activeTasks > 0) \/ ctxDone
          /\ pauseClaims' = FALSE /\ UpdaterGoes(u, "disown")
    /\ UNCHANGED << taskVars, pollVars, claimsInFlight, updating, restartBinary, exitVars >>

\* tryAutoUpdate: idle now, then it fetches the latest release.
CheckRelease ==
    /\ UpdaterAt(Loop, "idle") /\ ~ctxDone /\ ~updating /\ activeTasks = 0
    /\ UpdaterGoes(Loop, "fetched") /\ OnlyUpdater

\* No newer release, or another update came first.
SkipRelease == UpdaterAt(Loop, "fetched") /\ UpdaterGoes(Loop, "idle") /\ OnlyUpdater

OwnRelease ==
    /\ UpdaterAt(Loop, "fetched") /\ ~updating
    /\ updating' = TRUE /\ UpdaterGoes(Loop, "barrier")
    /\ UNCHANGED << taskVars, pollVars, pauseClaims, claimsInFlight, restartBinary, exitVars >>

\* trySelfReload.
OwnReload ==
    /\ UpdaterAt(Loop, "idle") /\ ~ctxDone /\ ~restartBinary /\ ~updating
    /\ updating' = TRUE /\ UpdaterGoes(Loop, "probe")
    /\ UNCHANGED << taskVars, pollVars, pauseClaims, claimsInFlight, restartBinary, exitVars >>

\* The binary on disk is the running one or cannot be probed, or it is another.
Probe ==
    /\ UpdaterAt(Loop, "probe")
    /\ UpdaterGoes(Loop, "disown") \/ UpdaterGoes(Loop, "reload")
    /\ OnlyUpdater

Busy == pauseClaims \/ claimsInFlight > 0 \/ activeTasks > 0

SetBarrierMidClaim ==  \* mutant: trySetClaimBarrier does not look at claims in flight
    /\ UpdaterAt(Loop, "barrier") /\ activeTasks = 0 /\ pauseClaims' = TRUE
    /\ UpdaterGoes(Loop, "update")
    /\ UNCHANGED << taskVars, pollVars, claimsInFlight, updating, restartBinary, exitVars >>
\* trySetClaimBarrier, for a release and for a reload.
SetBarrier ==
    /\ UpdaterAt(Loop, "barrier") \/ UpdaterAt(Loop, "reload")
    /\ \/ Busy /\ UpdaterGoes(Loop, "disown") /\ UNCHANGED pauseClaims
       \/ /\ ~Busy /\ pauseClaims' = TRUE
          /\ UpdaterGoes(Loop, IF UpdaterAt(Loop, "reload") THEN "restart" ELSE "update")
    /\ UNCHANGED << taskVars, pollVars, claimsInFlight, updating, restartBinary, exitVars >>

\* runUpdateFn replaces the binary, or fails.
RunUpdate(u) ==
    /\ UpdaterAt(u, "update")
    /\ UpdaterGoes(u, "restart") \/ UpdaterGoes(u, "release")
    /\ OnlyUpdater

\* triggerRestart; the path of the new binary may not resolve.
TriggerRestart(u) ==
    /\ UpdaterAt(u, "restart")
    /\ \/ restartBinary' = TRUE /\ ctxDone' = TRUE /\ UpdaterGoes(u, "done")
       \/ ~restartBinary /\ UpdaterGoes(u, "release") /\ UNCHANGED << restartBinary, ctxDone >>
    /\ UNCHANGED << taskVars, pollVars, pauseClaims, claimsInFlight, updating, returned >>

KeepBarrier(u) ==  \* mutant: an update that fails leaves claims paused
    /\ UpdaterAt(u, "release") /\ UpdaterGoes(u, "disown") /\ OnlyUpdater
\* releaseClaimBarrier on every path that does not restart,
ReleaseBarrier(u) ==
    /\ UpdaterAt(u, "release")
    /\ pauseClaims' = FALSE /\ UpdaterGoes(u, "disown")
    /\ UNCHANGED << taskVars, pollVars, claimsInFlight, updating, restartBinary, exitVars >>

\* and then the flag is given up.
Disown(u) ==
    /\ UpdaterAt(u, "disown")
    /\ updating' = FALSE /\ UpdaterGoes(u, "idle")
    /\ UNCHANGED << taskVars, pollVars, pauseClaims, claimsInFlight, restartBinary, exitVars >>

-----------------------------------------------------------------------------
(* Shutdown.                                                                  *)

\* A signal or the health port's shutdown request.
Shutdown ==
    /\ ~ctxDone /\ ctxDone' = TRUE
    /\ UNCHANGED << taskVars, pollVars, pauseClaims, claimsInFlight, updateVars, returned >>

\* pollLoop waits for the poller, and then 30 seconds for the tasks.
PollLoopReturns ==
    /\ PollerAt("stopped") /\ returned' = TRUE
    /\ UNCHANGED << taskVars, pollVars, pauseClaims, claimsInFlight, updateVars, ctxDone >>

PollerStep ==
    \/ TakeSlots \/ NoSlot \/ EnterClaim \/ ClaimTasks \/ ClaimFails
    \/ Dispatch \/ ExitClaim \/ PollAgain \/ PollerStops
TasksStep == Nudge \/ Leave \/ \E s \in Slots : ReleaseSlot(s)
UpdaterFinishes(u) == Drain(u) \/ RunUpdate(u) \/ TriggerRestart(u) \/ ReleaseBarrier(u) \/ Disown(u)

DaemonNext ==
    /\ ~returned
    /\ \/ PollerStep
       \/ Arrive \/ TasksStep
       \/ CheckRelease \/ SkipRelease \/ OwnRelease \/ OwnReload \/ Probe \/ SetBarrier
       \/ \E u \in Goroutines : BeginUpdate(u) \/ PauseClaims(u) \/ UpdaterFinishes(u)
       \/ Shutdown \/ PollLoopReturns

DaemonSpec == DaemonInit /\ [][DaemonNext]_daemonVars

-----------------------------------------------------------------------------
(* Properties.                                                                *)

\* Every variable has its type.
DaemonTypeOK ==
    /\ arrivals \in Nat /\ backlog \in Nat
    /\ sem \subseteq Slots /\ inTask \subseteq Slots
    /\ nudging \in Nat /\ leaving \in Nat /\ activeTasks \in Int /\ claimsInFlight \in Int
    /\ poller \in [pc : {"wait", "enter", "claim", "dispatch", "sleep", "stopped"},
                   grip : SUBSET Slots, got : Nat, sent : BOOLEAN]
    /\ wakeup \in BOOLEAN /\ pauseClaims \in BOOLEAN
    /\ updating \in BOOLEAN /\ restartBinary \in BOOLEAN
    /\ updater \in [Goroutines -> {"idle", "pause", "drain", "fetched", "probe", "reload", "barrier",
                                   "update", "restart", "release", "disown", "done"}]
    /\ ctxDone \in BOOLEAN /\ returned \in BOOLEAN

\* The binary is replaced, and the restart scheduled, only while no task runs and
\* no claim is in flight, and by one update at a time: the poller may be anywhere
\* between its claim and its tasks when an update looks.
Replacing(u) == updater[u] \in {"update", "restart", "done"}
UpdateSeesIdle ==
    /\ \A u \in Goroutines :
          Replacing(u) => inTask = {} /\ activeTasks = 0 /\ ~PollerAt("claim") /\ ~PollerAt("dispatch")
    /\ \A u, v \in Goroutines : Replacing(u) /\ Replacing(v) => u = v

\* A slot is free, held by the poller or a task's, never two of these and never
\* lost, and each task the poller holds a slot for has one.
SlotsKept ==
    /\ sem \cup poller.grip \cup inTask = Slots
    /\ sem \cap poller.grip = {} /\ sem \cap inTask = {} /\ poller.grip \cap inTask = {}
    /\ poller.got <= Cardinality(poller.grip)

\* While tasks wait on the server the daemon asks for them, however many tasks and
\* failed claims came before, unless it shuts down or an update holds the barrier.
BacklogIsAskedFor == backlog > 0 ~> PollerAt("claim") \/ pauseClaims \/ ctxDone

\* An update lifts its barrier unless it restarts the daemon.
BarrierLifted == pauseClaims ~> ~pauseClaims \/ ctxDone
=============================================================================
