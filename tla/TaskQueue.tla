----------------------------- MODULE TaskQueue -----------------------------
(***************************************************************************)
(* The task queue of server/internal/service/task.go over the table         *)
(* agent_task_queue, for one runtime: server handlers that promote, reclaim *)
(* and claim rows, the daemon that prepares, starts and reports them, the   *)
(* sweepers, automatic retries, manual reruns, deferred fallbacks and user  *)
(* cancellation.  An action is one SQL statement or one transaction, except *)
(* that the promotion of deferred rows, whose UPDATE does not re-check what *)
(* its subquery selected, is two: the snapshot and the write.               *)
(*                                                                          *)
(* Row ids follow creation order.  Clock comparisons (claim recovery window,*)
(* prepare lease, queue TTL) may come true at any time: a lapsed lease is a *)
(* daemon whose extensions do not arrive.  fire_at is the field `due`, which*)
(* only a deferred row's readers look at.                                   *)
(***************************************************************************)
EXTENDS Integers, FiniteSets

CONSTANTS
    Agents, Issues, Chats,  \* a task's subject is an issue or a chat session
    Handlers,         \* claim requests of the daemon in flight at once
    Capacity,         \* agent.max_concurrent_tasks
    MaxAttempts,      \* the column max_attempts of a fresh task
    DaemonReasons,    \* the failure reasons the daemon may report
    Requests,         \* what users do besides enqueueing tasks
    Mishaps,          \* the kinds of mishap that may happen, see Mishap
    MaxMishaps, MaxAsked, MaxRows, MaxClaims  \* bounds

NetworkAttempts == 3  \* providerNetworkMaxAttempts

ASSUME QueueAssumption ==
    /\ {Capacity, MaxAttempts, MaxMishaps, MaxAsked, MaxRows, MaxClaims} \subseteq Nat
    /\ MaxAttempts > 0
    /\ DaemonReasons \subseteq {"fatal", "transient", "network", "offline"}
    /\ Requests \subseteq {"fallback", "cancel", "rerun"}
    /\ Mishaps \subseteq {"database", "network", "report", "reject", "outage", "restart", "crash"}
    /\ Issues \cap Chats = {}
    /\ "none" \notin Agents \cup Issues \cup Chats

VARIABLES
    task,        \* id -> row of agent_task_queue
    poll,        \* handler -> where its claim request is
    copy,        \* id -> claim number -> what the daemon does with that delivery
    health,      \* runtime heartbeat: "fresh", "away", "lost" (past the grace)
    recovering,  \* the restarted daemon has yet to call recover-orphans
    failed,      \* rows a sweep failed, as it returned them, still to go through
                 \* HandleFailedTasks
    started,     \* rows started whose fallbacks, if any, are still to be cancelled
    rerun,       \* the manual rerun in progress
    mishaps      \* mishaps so far

vars == << task, poll, copy, health, recovering, failed, started, rerun, mishaps >>

Rows == 1 .. MaxRows
Claims == 1 .. MaxClaims
Subjects == Issues \cup Chats

Waiting == "waiting_local_directory"
Slot == {"queued", "dispatched"}               \* the partial unique index
Active == {"dispatched", "running", Waiting}   \* what CountRunningTasks counts
Terminal == {"completed", "failed", "cancelled"}
Open == {"deferred", "queued"} \cup Active

NoTask == [status |-> "none", agent |-> "none", subject |-> "none", kind |-> "none",
           parent |-> 0, attempt |-> 0, max |-> 0, reason |-> "none", due |-> FALSE,
           began |-> FALSE, claims |-> 0]
NewTask(status, agent, subject, kind, parent, attempt, max) ==
    [status |-> status, agent |-> agent, subject |-> subject, kind |-> kind,
     parent |-> parent, attempt |-> attempt, max |-> max, reason |-> "none",
     due |-> FALSE, began |-> FALSE, claims |-> 0]

NoRerun == [pc |-> "idle", agent |-> "none", issue |-> "none", tries |-> 0]
NoPoll == [pc |-> "idle", due |-> {}, id |-> 0, claim |-> 0, heard |-> TRUE]

Init ==
    /\ task = [i \in Rows |-> NoTask]
    /\ poll = [h \in Handlers |-> NoPoll]
    /\ copy = [i \in Rows |-> [c \in Claims |-> "none"]]
    /\ health = "fresh"
    /\ recovering = FALSE
    /\ failed = {}
    /\ started = {}
    /\ rerun = NoRerun
    /\ mishaps = 0

With(i, status) == [task[i] EXCEPT !.status = status, !.due = FALSE]
Failed(i, reason) == [With(i, "failed") EXCEPT !.reason = reason]
Put(i, x) == task' = [task EXCEPT ![i] = x]

\* The next id to be created; the queue stops growing at MaxRows.
Fresh(i) == task[i].status = "none" /\ \A j \in Rows : j < i => task[j].status # "none"

\* The rows users made, at most MaxAsked: the rest of Rows is for retries.
Asked == Cardinality({i \in Rows : task[i].kind \notin {"none", "retry"}})

SamePair(x, y) == x.agent = y.agent /\ x.subject = y.subject

\* idx_one_pending_task_per_issue_agent_v2 over a table t.
Unique(t) ==
    \A i, j \in Rows :
      /\ t[i].subject \in Issues /\ SamePair(t[i], t[j])
      /\ t[i].status \in Slot /\ t[j].status \in Slot
      => i = j
SlotTaken(t, agent, subject) ==
    /\ subject \in Issues
    /\ \E j \in Rows : /\ t[j].agent = agent /\ t[j].subject = subject
                       /\ t[j].status \in Slot

\* A fault outside the queue's own logic, `kind` of them allowed at most MaxMishaps times.
Mishap(kind) == kind \in Mishaps /\ mishaps < MaxMishaps /\ mishaps' = mishaps + 1

-----------------------------------------------------------------------------
(* Enqueueing.  A second task for a taken slot coalesces into the first.      *)

Enqueue(a, s) ==
    /\ Asked < MaxAsked /\ ~SlotTaken(task, a, s)
    /\ \E i \in Rows : Fresh(i) /\ Put(i, NewTask("queued", a, s, "fresh", 0, 1, MaxAttempts))
    /\ UNCHANGED << poll, copy, health, recovering, failed, started, rerun, mishaps >>

\* EnqueueDeferredAssigneeFallback: after the routed task p was created, by a
\* statement of its own, a deferred one for the issue's assignee.
EnqueueFallback(p, a) ==
    /\ "fallback" \in Requests /\ Asked < MaxAsked
    /\ task[p].kind = "fresh" /\ task[p].subject \in Issues /\ a # task[p].agent
    /\ \A j \in Rows : ~(task[j].kind = "fallback" /\ task[j].parent = p)
    /\ \E i \in Rows :
         /\ Fresh(i)
         /\ Put(i, NewTask("deferred", a, task[p].subject, "fallback", p, 1, MaxAttempts))
    /\ UNCHANGED << poll, copy, health, recovering, failed, started, rerun, mishaps >>

-----------------------------------------------------------------------------
(* A claim request: ClaimTaskForRuntime and the handler around it.            *)

GoOn(h, pc) == poll' = [poll EXCEPT ![h].pc = pc]
Answered(h) == poll' = [poll EXCEPT ![h] = NoPoll]

\* A newer task of the pair replaces a deferred automatic retry.
Superseded(i) ==
    /\ task[i].status = "deferred" /\ task[i].kind = "retry" /\ task[i].subject \in Issues
    /\ \E j \in Rows \ {i} : /\ SamePair(task[i], task[j])
                             /\ task[j].status \in Slot \cup Active

\* cancelSupersededDeferredRetries, best effort.
CancelSuperseded(h) ==
    /\ poll[h].pc = "idle" /\ ~recovering
    /\ GoOn(h, "select")
    /\ \/ /\ task' = [i \in Rows |-> IF Superseded(i) THEN With(i, "cancelled") ELSE task[i]]
          /\ UNCHANGED mishaps
       \/ Mishap("database") /\ UNCHANGED task
    /\ UNCHANGED << copy, health, recovering, failed, started, rerun >>

\* The fences of the CTE `due`: the slot is free, and one row per pair.
Promotable(i) ==
    /\ task[i].status = "deferred" /\ task[i].due
    /\ ~SlotTaken(task, task[i].agent, task[i].subject)
DueOverTaken ==  \* mutant: no free-slot fence
    {i \in Rows : /\ task[i].status = "deferred" /\ task[i].due
                  /\ task[i].subject \in Issues =>
                       \A j \in Rows : Promotable(j) /\ SamePair(task[i], task[j]) => i <= j}
Due ==
    {i \in Rows : /\ Promotable(i)
                  /\ task[i].subject \in Issues =>
                       \A j \in Rows : Promotable(j) /\ SamePair(task[i], task[j]) => i <= j}

PromoteSelect(h) ==
    /\ poll[h].pc = "select"
    /\ poll' = [poll EXCEPT ![h].pc = "promote",
                            ![h].due = IF health = "fresh" THEN Due ELSE {}]
    /\ UNCHANGED << task, copy, health, recovering, failed, started, rerun, mishaps >>

\* The rows the snapshot named become queued, whatever they are by now; a
\* duplicate-slot error undoes the statement and the claim goes on.
Promoted(due) == [i \in Rows |-> IF i \in due THEN With(i, "queued") ELSE task[i]]
PromoteWrite(h) ==
    /\ poll[h].pc = "promote"
    /\ task' = IF Unique(Promoted(poll[h].due)) THEN Promoted(poll[h].due) ELSE task
    /\ poll' = [poll EXCEPT ![h].pc = "claim", ![h].due = {}]
    /\ UNCHANGED << copy, health, recovering, failed, started, rerun, mishaps >>

\* The claim `h` now holds: the row, dispatched under a new dispatched_at.
Dispatched(i) == [task[i] EXCEPT !.status = "dispatched", !.claims = task[i].claims + 1]
Hold(h, i) ==
    /\ task[i].claims < MaxClaims
    /\ Put(i, Dispatched(i))
    /\ poll' = [poll EXCEPT ![h].pc = "respond", ![h].id = i,
                            ![h].claim = task[i].claims + 1]

\* ReclaimStaleDispatchedTaskForRuntime: recovery window and prepare lease over.
\* That they are not, so that the request goes on to the queued rows, needs no step.
Reclaim(h, i) ==
    /\ poll[h].pc = "claim" /\ health = "fresh"
    /\ task[i].status = "dispatched" /\ ~task[i].began
    /\ Hold(h, i)
    /\ UNCHANGED << copy, health, recovering, failed, started, rerun, mishaps >>

Serves(a) == {i \in Rows : task[i].status \in Active /\ task[i].agent = a}
\* Chat retries go first, then the oldest row.
Precedes(i, j) ==
    LET urgent(k) == task[k].subject \in Chats /\ task[k].kind = "retry" IN
    IF urgent(i) = urgent(j) THEN i < j ELSE urgent(i)
ClaimableAnyway(i) ==  \* mutant: max_concurrent_tasks off by one
    /\ task[i].status = "queued" /\ health = "fresh" /\ task[i].claims < MaxClaims
    /\ Cardinality(Serves(task[i].agent)) <= Capacity
    /\ \A j \in Serves(task[i].agent) : task[j].subject # task[i].subject
Claimable(i) ==
    /\ task[i].status = "queued" /\ health = "fresh" /\ task[i].claims < MaxClaims
    /\ Cardinality(Serves(task[i].agent)) < Capacity
    /\ \A j \in Serves(task[i].agent) : task[j].subject # task[i].subject

\* claimTask for one of the candidates' agents, under the agent's row lock; the
\* priorities of different subjects are not modelled.
Claim(h, i) ==
    /\ poll[h].pc = "claim" /\ Claimable(i)
    /\ \A j \in Rows : Claimable(j) /\ SamePair(task[i], task[j]) /\ j # i => Precedes(i, j)
    /\ Hold(h, i)
    /\ UNCHANGED << copy, health, recovering, failed, started, rerun, mishaps >>

NothingToClaim(h) ==
    /\ poll[h].pc = "claim" /\ \A i \in Rows : ~Claimable(i)
    /\ Answered(h)
    /\ UNCHANGED << task, copy, health, recovering, failed, started, rerun, mishaps >>

\* A statement fails and the request answers with an error.
PollError(h) ==
    /\ poll[h].pc \in {"select", "claim"}
    /\ Mishap("database") /\ Answered(h)
    /\ UNCHANGED << task, copy, health, recovering, failed, started, rerun >>

\* FinalizeTaskClaim, then the response reaches the daemon.
Deliver(h) ==
    /\ poll[h].pc = "respond" /\ poll[h].heard
    /\ copy' = [copy EXCEPT ![poll[h].id][poll[h].claim] = "preparing"]
    /\ Answered(h)
    /\ UNCHANGED << task, health, recovering, failed, started, rerun, mishaps >>

\* The response is lost, or its builder gave the claim up; the row stays dispatched.
LoseResponse(h) ==
    /\ poll[h].pc = "respond" /\ Answered(h)
    /\ IF poll[h].heard THEN Mishap("network") ELSE UNCHANGED mishaps
    /\ UNCHANGED << task, copy, health, recovering, failed, started, rerun >>

HoldsAny(h) ==  \* mutant: no dispatched_at CAS
    task[poll[h].id].status = "dispatched" /\ ~task[poll[h].id].began
\* The WHERE clause of the requeue: still dispatched, and by this very claim.
HoldsClaim(h) ==
    /\ task[poll[h].id].status = "dispatched" /\ ~task[poll[h].id].began
    /\ task[poll[h].id].claims = poll[h].claim
\* Finalization failed, by an error or because this is no longer the row's claim:
\* RequeueTaskAfterClaimFailure.
Requeue(h) ==
    /\ poll[h].pc = "respond" /\ Answered(h)
    /\ IF HoldsClaim(h)
       THEN Put(poll[h].id, With(poll[h].id, "queued")) /\ Mishap("database")
       ELSE UNCHANGED << task, mishaps >>
    /\ UNCHANGED << copy, health, recovering, failed, started, rerun >>

-----------------------------------------------------------------------------
(* Failing a row and its automatic retry.                                     *)

\* retryAttemptCeiling: only a network failure widens the task's own budget.
Ceiling(x) ==
    IF x.max > 1 /\ x.reason = "network" /\ x.max < NetworkAttempts THEN NetworkAttempts
    ELSE x.max
RetryableForever(x) ==  \* mutant: no attempt ceiling
    x.reason \in {"offline", "transient", "network"}
\* retryEligible, for a row read as failed.
Retryable(x) ==
    /\ x.reason \in {"offline", "transient", "network"}
    /\ x.attempt < Ceiling(x)
\* A retry waits for the runtime, or before the last network attempt.
RetryWaits(x) ==
    \/ x.reason = "offline"
    \/ x.reason = "network" /\ x.attempt >= NetworkAttempts - 1

\* CreateRetryTask: the child of row i, read as x, with its widened budget.
RetryRow(i, x) ==
    NewTask(IF RetryWaits(x) THEN "deferred" ELSE "queued", x.agent, x.subject,
            "retry", i, x.attempt + 1, Ceiling(x))
\* MaybeRetryFailedTask over the table t for row i, read as x, unless the slot
\* is taken.
Retry(t, i, x) ==
    IF Retryable(x) /\ ~SlotTaken(t, x.agent, x.subject)
    THEN \E j \in Rows : Fresh(j) /\ task' = [t EXCEPT ![j] = RetryRow(i, x)]
    ELSE task' = t

FailAgain(i, reason) ==  \* mutant: no status guard
    Retry([task EXCEPT ![i] = Failed(i, reason)], i, Failed(i, reason))
\* FailTask: status and retry in one transaction; a row no longer active is left.
FailTask(i, reason) ==
    IF task[i].status \in Active
    THEN Retry([task EXCEPT ![i] = Failed(i, reason)], i, Failed(i, reason))
    ELSE UNCHANGED task

\* The response builder refuses the task (isolation, identity, issue window):
\* failClaimedTaskBeforeLaunch or CancelTask, neither of which compares claims.
Reject(h) ==
    /\ poll[h].pc = "respond" /\ Mishap("reject") /\ Answered(h)
    /\ \/ FailTask(poll[h].id, "fatal")
       \/ task[poll[h].id].status \in Open /\ Put(poll[h].id, With(poll[h].id, "cancelled"))
    /\ UNCHANGED << copy, health, recovering, failed, started, rerun >>

-----------------------------------------------------------------------------
(* The daemon: handleTask for each delivery (i, c).                           *)

Becomes(i, c, st) == copy' = [copy EXCEPT ![i][c] = st]

\* The local directory is held by another task.
MarkWaiting(i, c) ==
    /\ copy[i][c] = "preparing" /\ task[i].status = "dispatched"
    /\ Put(i, With(i, Waiting))
    /\ UNCHANGED << poll, copy, health, recovering, failed, started, rerun, mishaps >>

StartableAlways(i) == task[i].status \in Active  \* mutant: restarts a running row
Startable(i) == task[i].status \in {"dispatched", Waiting}
\* StartTask.  When it is refused, or its answer is lost, the delivery fails.
Start(i, c) ==
    /\ copy[i][c] = "preparing"
    /\ IF Startable(i)
       THEN /\ Put(i, [With(i, "running") EXCEPT !.began = TRUE])
            /\ started' = IF "fallback" \in Requests THEN started \cup {i} ELSE started
            /\ \/ Becomes(i, c, "running") /\ UNCHANGED mishaps
               \/ Becomes(i, c, "refused") /\ Mishap("network")
       ELSE Becomes(i, c, "refused") /\ UNCHANGED << task, started, mishaps >>
    /\ UNCHANGED << poll, health, recovering, failed, rerun >>

\* The fallbacks of the given primary rows, but for those already at work.
Withdrawn(primaries) ==
    [j \in Rows |-> IF /\ task[j].kind = "fallback" /\ task[j].parent \in primaries
                       /\ task[j].status \in Open \ {"running"}
                    THEN With(j, "cancelled") ELSE task[j]]

\* cancelDeferredEscalationsForTask, the statement after StartAgentTask's.
CancelEscalations(i) ==
    /\ i \in started /\ started' = started \ {i}
    /\ \/ task' = Withdrawn({i}) /\ UNCHANGED mishaps
       \/ Mishap("database") /\ UNCHANGED task
    /\ UNCHANGED << poll, copy, health, recovering, failed, rerun >>

\* The agent comments on its issue, which acknowledges its tasks there.
Comment(i, c) ==
    /\ "fallback" \in Requests
    /\ copy[i][c] = "running" /\ task[i].subject \in Issues
    /\ task' = Withdrawn({j \in Rows : SamePair(task[i], task[j])})
    /\ UNCHANGED << poll, copy, health, recovering, failed, started, rerun, mishaps >>

\* CompleteTask; a row that is not running counts as already finalized.
Complete(i, c) ==
    /\ copy[i][c] = "running" /\ Becomes(i, c, "gone")
    /\ IF task[i].status = "running" THEN Put(i, With(i, "completed")) ELSE UNCHANGED task
    /\ UNCHANGED << poll, health, recovering, failed, started, rerun, mishaps >>

Fail(i, c) ==
    /\ copy[i][c] \in {"preparing", "running", "refused"} /\ Becomes(i, c, "gone")
    /\ \E reason \in DaemonReasons : FailTask(i, reason)
    /\ UNCHANGED << poll, health, recovering, failed, started, rerun, mishaps >>

\* watchTaskCancellation sees a terminal row.
Interrupt(i, c) ==
    /\ copy[i][c] \in {"preparing", "running"} /\ task[i].status \in Terminal
    /\ Becomes(i, c, "gone")
    /\ UNCHANGED << task, poll, health, recovering, failed, started, rerun, mishaps >>

\* The terminal report exhausts its retries.
LoseReport(i, c) ==
    /\ copy[i][c] \in {"running", "refused"} /\ Mishap("report") /\ Becomes(i, c, "gone")
    /\ UNCHANGED << task, poll, health, recovering, failed, started, rerun >>

\* The daemon process dies; answers to its open requests reach nobody.
Restart ==
    /\ Mishap("restart") /\ recovering' = TRUE
    /\ copy' = [i \in Rows |-> [c \in Claims |->
                  IF copy[i][c] = "none" THEN "none" ELSE "gone"]]
    /\ poll' = [h \in Handlers |-> [poll[h] EXCEPT !.heard = (poll[h].pc = "idle")]]
    /\ UNCHANGED << task, health, failed, started, rerun >>

-----------------------------------------------------------------------------
(* Sweeps.  What they fail goes through HandleFailedTasks in later statements. *)

\* What the sweep's RETURNING clause yields for row i.
Swept(i, reason) == [id |-> i, row |-> Failed(i, reason)]

OrphansAtWork ==  \* mutant: forgets the rows that wait for a directory
    {i \in Rows : task[i].status \in {"dispatched", "running"}}
Orphans == {i \in Rows : task[i].status \in Active}

\* RecoverOrphanedTasks, before the new process polls; its failure is a warning.
RecoverOrphans ==
    /\ recovering /\ recovering' = FALSE
    /\ \/ /\ task' = [i \in Rows |-> IF i \in Orphans THEN Failed(i, "transient") ELSE task[i]]
          /\ failed' = failed \cup {Swept(i, "transient") : i \in Orphans}
          /\ UNCHANGED mishaps
       \/ Mishap("database") /\ UNCHANGED << task, failed >>
    /\ UNCHANGED << poll, copy, health, started, rerun >>

Sweep(i, reason) ==
    /\ Put(i, Failed(i, reason))
    /\ failed' = failed \cup {Swept(i, reason)}
    /\ UNCHANGED << poll, copy, health, recovering, started, rerun, mishaps >>

FailStale(i) ==
    /\ \/ task[i].status = "dispatched" /\ health \in {"fresh", "lost"}
       \/ task[i].status = "running" /\ health = "lost"
    /\ Sweep(i, "transient")

FailOffline(i) == task[i].status \in Active /\ health = "lost" /\ Sweep(i, "offline")

RetryOfOffline(i) == task[i].kind = "retry" /\ task[task[i].parent].reason = "offline"

ExpireQueued(i) ==
    task[i].status = "queued" /\ ~RetryOfOffline(i) /\ Sweep(i, "fatal")

FailReconnectTimeout(i) ==
    /\ task[i].status = "deferred" /\ task[i].due /\ health # "fresh" /\ RetryOfOffline(i)
    /\ Sweep(i, "fatal")

\* HandleFailedTasks -> MaybeRetryFailedTask, for one row.
HandleFailed(i) ==
    /\ \E x \in failed :
         /\ x.id = i /\ failed' = failed \ {x}
         /\ \/ Retry(task, i, x.row) /\ UNCHANGED mishaps
            \/ Mishap("database") /\ UNCHANGED task
    /\ UNCHANGED << poll, copy, health, recovering, started, rerun >>

-----------------------------------------------------------------------------
(* Users.                                                                     *)

Cancel(i) ==
    /\ "cancel" \in Requests
    /\ task[i].status \in Open /\ Put(i, With(i, "cancelled"))
    /\ UNCHANGED << poll, copy, health, recovering, failed, started, rerun, mishaps >>

Cleared(a, s) ==
    [i \in Rows |-> IF /\ task[i].agent = a /\ task[i].subject = s
                       /\ task[i].status \in Slot \cup {"deferred"}
                    THEN With(i, "cancelled") ELSE task[i]]

\* RerunIssue: clear what has not started, then enqueue in another transaction,
\* and once more if somebody took the slot in between.
RerunBegin(a, s) ==
    /\ "rerun" \in Requests /\ Asked < MaxAsked /\ rerun.pc = "idle"
    /\ task' = Cleared(a, s)
    /\ rerun' = [pc |-> "enqueue", agent |-> a, issue |-> s, tries |-> 1]
    /\ UNCHANGED << poll, copy, health, recovering, failed, started, mishaps >>

RerunEnqueue ==
    /\ rerun.pc = "enqueue" /\ ~SlotTaken(task, rerun.agent, rerun.issue)
    /\ \E i \in Rows :
         /\ Fresh(i)
         /\ Put(i, NewTask("queued", rerun.agent, rerun.issue, "rerun", 0, 1, MaxAttempts))
    /\ rerun' = NoRerun
    /\ UNCHANGED << poll, copy, health, recovering, failed, started, mishaps >>

RerunCollides ==
    /\ rerun.pc = "enqueue" /\ SlotTaken(task, rerun.agent, rerun.issue)
    /\ IF rerun.tries = 1
       THEN task' = Cleared(rerun.agent, rerun.issue) /\ rerun' = [rerun EXCEPT !.tries = 2]
       ELSE UNCHANGED task /\ rerun' = NoRerun
    /\ UNCHANGED << poll, copy, health, recovering, failed, started, mishaps >>

-----------------------------------------------------------------------------
(* Time, the network and the server process.                                  *)

FireAtPasses(i) ==
    /\ task[i].status = "deferred" /\ ~task[i].due
    /\ Put(i, [task[i] EXCEPT !.due = TRUE])
    /\ UNCHANGED << poll, copy, health, recovering, failed, started, rerun, mishaps >>

HeartbeatStops ==
    /\ health = "fresh" /\ Mishap("outage") /\ health' = "away"
    /\ UNCHANGED << task, poll, copy, recovering, failed, started, rerun >>

GraceEnds ==
    /\ health = "away" /\ health' = "lost"
    /\ UNCHANGED << task, poll, copy, recovering, failed, started, rerun, mishaps >>

HeartbeatReturns ==
    /\ health # "fresh" /\ health' = "fresh"
    /\ UNCHANGED << task, poll, copy, recovering, failed, started, rerun, mishaps >>

\* Everything a server process holds between two statements is gone.
ServerCrash ==
    /\ Mishap("crash")
    /\ poll' = [h \in Handlers |-> NoPoll]
    /\ failed' = {} /\ started' = {} /\ rerun' = NoRerun
    /\ UNCHANGED << task, copy, health, recovering >>

Answer(h) ==
    \/ CancelSuperseded(h) \/ PromoteSelect(h) \/ PromoteWrite(h)
    \/ NothingToClaim(h) \/ PollError(h)
    \/ Deliver(h) \/ LoseResponse(h) \/ Requeue(h) \/ Reject(h)
    \/ \E i \in Rows : Reclaim(h, i) \/ Claim(h, i)

Handle(i, c) ==
    Start(i, c) \/ Complete(i, c) \/ Fail(i, c) \/ Interrupt(i, c) \/ LoseReport(i, c)

Settle(i) ==
    \/ FailStale(i) \/ FailOffline(i) \/ ExpireQueued(i) \/ FailReconnectTimeout(i)
    \/ HandleFailed(i) \/ CancelEscalations(i) \/ FireAtPasses(i)

Ask ==
    \/ \E a \in Agents, s \in Subjects : Enqueue(a, s)
    \/ \E a \in Agents, p \in Rows : EnqueueFallback(p, a)
    \/ \E a \in Agents, s \in Issues : RerunBegin(a, s)
    \/ \E i \in Rows : Cancel(i)

Next ==
    \/ Ask
    \/ \E h \in Handlers : Answer(h)
    \/ \E i \in Rows : Settle(i) \/ \E c \in Claims : MarkWaiting(i, c) \/ Comment(i, c) \/ Handle(i, c)
    \/ RerunEnqueue \/ RerunCollides \/ RecoverOrphans
    \/ Restart \/ HeartbeatStops \/ GraceEnds \/ HeartbeatReturns \/ ServerCrash

Spec == Init /\ [][Next]_vars

\* Handlers, daemon tasks and sweeps go on, the daemon polls, and a runtime that
\* went away returns; users and mishaps are owed nothing.
FairSpec ==
    /\ Spec
    /\ \A h \in Handlers : WF_vars(Answer(h))
    /\ \A i \in Rows : WF_vars(Settle(i)) /\ \A c \in Claims : WF_vars(Handle(i, c))
    /\ WF_vars(RecoverOrphans) /\ WF_vars(HeartbeatReturns)
    /\ WF_vars(RerunEnqueue \/ RerunCollides)
-----------------------------------------------------------------------------
(* Properties.                                                                *)

RowType ==
    [status : {"none", "completed", "failed", "cancelled"} \cup Open,
     agent : Agents \cup {"none"}, subject : Subjects \cup {"none"},
     kind : {"none", "fresh", "fallback", "retry", "rerun"},
     parent : 0 .. MaxRows, attempt : Nat, max : Nat,
     reason : {"none", "fatal", "transient", "network", "offline"},
     due : BOOLEAN, began : BOOLEAN, claims : 0 .. MaxClaims]
PollType ==
    [pc : {"idle", "select", "promote", "claim", "respond"},
     due : SUBSET Rows, id : 0 .. MaxRows, claim : 0 .. MaxClaims, heard : BOOLEAN]
RerunType ==
    [pc : {"idle", "enqueue"}, agent : Agents \cup {"none"},
     issue : Issues \cup {"none"}, tries : 0 .. 2]

\* Every variable has its type, and no task's attempt exceeds its max_attempts.
TypeOK ==
    /\ task \in [Rows -> RowType]
    /\ \A i \in Rows : task[i].attempt <= task[i].max
    /\ poll \in [Handlers -> PollType]
    /\ copy \in [Rows -> [Claims -> {"none", "preparing", "running", "refused", "gone"}]]
    /\ health \in {"fresh", "away", "lost"}
    /\ recovering \in BOOLEAN
    /\ failed \subseteq [id : Rows, row : RowType] /\ started \subseteq Rows
    /\ rerun \in RerunType
    /\ mishaps \in 0 .. MaxMishaps

\* Whatever handlers, sweeps and users do at once, an agent works on at most
\* Capacity tasks, on at most one per issue or chat session, and a task keeps
\* its agent and subject: the queue is a TaskSlots.
Held == {i \in Rows : task[i].status \in Active}
Who == [i \in Rows |-> << task[i].agent, task[i].subject >>]
Slots == INSTANCE TaskSlots WITH Nobody <- << "none", "none" >>, who <- Who, held <- Held
SlotsHonored == Slots!Spec

\* The snapshot of a promotion never names rows that would collide with each
\* other or with a taken slot, so it fails only on a truly concurrent enqueue.
PromotionFenced ==
    [][\A h \in Handlers :
         poll[h].pc = "select" /\ poll'[h].pc = "promote" =>
           Unique(Promoted(poll'[h].due))]_vars

\* A row being promoted under an older snapshot (PromoteWrite).
Overwritten(i) == \E h \in Handlers : poll[h].pc = "promote" /\ i \in poll[h].due

\* A finished task stays as it is; late reports, second sweeps, requeues and
\* stale handlers change nothing.  The promotion write alone can (TerminalIsFinal).
TerminalButForPromotion ==
    [][\A i \in Rows :
         task[i].status \in Terminal /\ task'[i] # task[i] => Overwritten(i)]_vars

\* "How long it lasts: from trigger until completion, failure, or cancellation":
\* a finished task never changes again.
TerminalIsFinal ==
    [][\A i \in Rows : task[i].status \in Terminal => task'[i] = task[i]]_vars

\* A claim the daemon has received is not rolled back by the handler of an
\* earlier one ("prevents an old handler from rolling back a newer reclaim").
DeliveredClaimStays ==
    [][\A i \in Rows :
         task[i].status = "dispatched" /\ task'[i].status = "queued" =>
           copy[i][task[i].claims] = "none" \/ Overwritten(i)]_vars

\* A row delivered more than once is executed by one delivery at a time.
OneExecution ==
    \A i \in Rows : \A c, d \in Claims :
      copy[i][c] = "running" /\ copy[i][d] = "running" => c = d

\* A failed task has at most one automatic retry, though its report, sweeps and
\* recovery may all notice the failure.
RetryOnce ==
    \A i, j \in Rows :
      task[i].kind = "retry" /\ task[j].kind = "retry" /\ task[i].parent = task[j].parent
      => i = j

\* A running execution is not failed by anybody else while the runtime is
\* healthy: a second delivery must not "invalidate that already-authorized
\* execution".
ExecutionKeepsItsRow ==
    [][\A i \in Rows, c \in Claims :
         /\ copy[i][c] = "running" /\ copy'[i][c] = "running" /\ health # "lost"
         /\ task[i].status = "running"
         => task'[i].status # "failed"]_vars

\* Every task ends, through lost responses, restarts, crashes and outages.
EveryTaskEnds == \A i \in Rows : task[i].status \in Open ~> task[i].status \in Terminal
=============================================================================
