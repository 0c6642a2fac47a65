-------------------------- MODULE AutopilotDispatch --------------------------
(***************************************************************************)
(* The dispatch of one workspace's autopilots: autopilot.go and              *)
(* autopilot_quota.go of internal/service, the two callers that retry it     *)
(* (the scheduler's autopilot job, the webhook delivery worker), the one     *)
(* that does not (the "run now" request) and the statements of               *)
(* autopilot.sql and autopilot_quota.sql.                                    *)
(*                                                                         *)
(* An occasion is a cron occurrence, a webhook delivery or the idempotency   *)
(* key of a click.  It is admitted as a run, which reserves a slot of the    *)
(* period's quota; the run is dispatched as an item of work, a task          *)
(* (run_only) or an issue with its task (create_issue); the item's end       *)
(* settles the run and the slot.  The quota gate is on, its action enforce,  *)
(* within one period.  Rate limits, attribution and payloads are left out.   *)
(***************************************************************************)
EXTENDS Naturals, FiniteSets

CONSTANTS
    Plans, Hooks, Clicks,    \* the occasions
    NoOccasion,
    Dispatchers,    \* goroutines that serve an occasion
    Nobody,
    AttemptLimit,    \* of the scheduler's job and of the webhook worker; bound of a click
    Scenarios,      \* bound: [arising, limit, accidents], the occasions that may arise in
                    \* one behaviour, the runs its period may be charged for, and the
                    \* crashes, errors and lost leases
    MaxRuns, MaxWork    \* bounds

Occasions == Plans \cup Hooks \cup Clicks
Runs == 1 .. MaxRuns
Work == 1 .. MaxWork

ASSUME DispatchAssumption ==
    /\ AttemptLimit \in Nat /\ MaxRuns \in Nat /\ MaxWork \in Nat
    /\ Plans \cap Hooks = {} /\ Plans \cap Clicks = {} /\ Hooks \cap Clicks = {}
    /\ Scenarios \subseteq [arising : SUBSET Occasions, limit : Nat, accidents : Nat]
    /\ NoOccasion \notin Occasions /\ Nobody \notin Dispatchers

VARIABLES
    mode, limit,    \* the autopilot's execution_mode, the period's limit
    run,       \* run -> [occ, status, link, anchored]: its item, 0 for none; whether
               \* planned_at or webhook_delivery_id still holds the unique index
    slot,      \* run -> its quota reservation
    held, used,    \* reserved_count and used_count of the period
    work,      \* item -> [run, status]
    news,      \* items whose end is published, and not yet heard by the listener
    todo,      \* occasion -> what its caller's row says
    tries,     \* occasion -> attempts
    owner,     \* occasion -> the dispatcher whose lease is valid
    proc,      \* dispatcher -> [pc, occ, run, item, seen]
    overtaken, unheard,    \* history: occasions whose lease was lost while being served; lost news
    accidents    \* that may still happen

quotaVars == << slot, held, used >>
frozenVars == << mode, limit >>
rowVars == << frozenVars, run, quotaVars, work, news >>
callerVars == << todo, tries, owner, overtaken >>
dispatchVars == << rowVars, callerVars, proc, unheard, accidents >>

NoRun == [occ |-> NoOccasion, status |-> "none", link |-> 0, anchored |-> FALSE]
NoWork == [run |-> 0, status |-> "none"]
Unused == [pc |-> "idle", occ |-> NoOccasion, run |-> 0, item |-> 0, seen |-> "none"]

DispatchInit ==
    /\ mode \in {"run_only", "create_issue"}
    /\ run = [r \in Runs |-> NoRun] /\ slot = [r \in Runs |-> "none"] /\ held = 0 /\ used = 0
    /\ work = [w \in Work |-> NoWork] /\ news = {}
    /\ \E s \in Scenarios :
        /\ limit = s.limit /\ accidents = s.accidents
        /\ todo = [o \in Occasions |-> IF o \notin s.arising THEN "never"
                                       ELSE IF o \in Hooks THEN "unsent" ELSE "todo"]
    /\ tries = [o \in Occasions |-> 0] /\ owner = [o \in Occasions |-> Nobody]
    /\ proc = [d \in Dispatchers |-> Unused] /\ overtaken = {} /\ unheard = {}

Accident == accidents > 0 /\ accidents' = accidents - 1
NoAccident == UNCHANGED accidents

-----------------------------------------------------------------------------
(* Rows.                                                                      *)

Finished == {"completed", "failed", "skipped"}
\* Status issue_created or running, without issue_id or task_id.
Partial(r) == run[r].status = "going" /\ run[r].link = 0
\* isAutopilotRunComplete.
RunComplete(r) == run[r].status \in Finished \/ (run[r].status = "going" /\ run[r].link # 0)

\* GetAutopilotRunByTriggerAndPlanned, GetAutopilotRunByWebhookDelivery.
Anchored(o) == {r \in Runs : run[r].occ = o /\ run[r].anchored}
\* GetAutopilotQuotaReservationByKey, and its run.
Keyed(o) == {r \in Runs : run[r].occ = o /\ slot[r] \in {"reserved", "consumed"}}
TasksByLink(r) == {w \in Work : run[r].link = w}  \* mutant: found by the run's own link
Tasks(r) == {w \in Work : work[w].run = r}
NextRun(r) == run[r] = NoRun /\ \A q \in Runs : q < r => run[q] # NoRun
NextWork(w) == work[w] = NoWork /\ \A v \in Work : v < w => work[v] # NoWork

\* settleAutopilotQuota: a slot that is settled already stays as it is.
SettleSlot(r, state) ==
    IF slot[r] = "reserved"
    THEN /\ slot' = [slot EXCEPT ![r] = state] /\ held' = held - 1
         /\ used' = IF state = "consumed" THEN used + 1 ELSE used
    ELSE UNCHANGED quotaVars

EndRunUncharged(r, status) ==  \* mutant: a run that completed is not charged
    run' = [run EXCEPT ![r].status = status] /\ SettleSlot(r, "released")
\* UpdateAutopilotRunTerminalWithQuota, whatever the run's status.
EndRun(r, status) ==
    /\ run' = [run EXCEPT ![r].status = status]
    /\ SettleSlot(r, IF status = "completed" THEN "consumed" ELSE "released")

\* RecoverPartialAutopilotRun.
Recoverable(r) == Partial(r) /\ (mode = "run_only" => Tasks(r) = {})
RecoverPartial(r) ==
    /\ run' = [run EXCEPT ![r].status = "failed", ![r].anchored = FALSE]
    /\ SettleSlot(r, "released")

-----------------------------------------------------------------------------
(* The callers.                                                               *)

Doing(d, pc) == proc[d].pc = pc
Occ(d) == proc[d].occ
Run(d) == proc[d].run
Item(d) == proc[d].item
Goes(d, pc, r, w, seen) ==
    proc' = [proc EXCEPT ![d].pc = pc, ![d].run = r, ![d].item = w, ![d].seen = seen]
Ends(d) == proc' = [proc EXCEPT ![d] = Unused]
Begins(d, pc, o) == Doing(d, "idle") /\ proc' = [proc EXCEPT ![d] = [Unused EXCEPT !.pc = pc, !.occ = o]]

\* The request that brought the delivery, which has no lease of it.
Ingress(d) == proc[d].pc \in {"receive", "reserve"}
\* Back in the handler: the outcome decides the caller's row, if it has one.
Returns(d, outcome) ==
    IF Ingress(d) \/ Occ(d) \in Clicks THEN Ends(d) ELSE Goes(d, "finish", 0, 0, outcome)

\* The request persists the delivery, and admits its run before it answers.
ReceiveHook(d, h) ==
    /\ todo[h] = "unsent" /\ Begins(d, "receive", h)
    /\ todo' = [todo EXCEPT ![h] = "todo"]
    /\ UNCHANGED << rowVars, tries, owner, overtaken, unheard, accidents >>

\* A tick claims the plan, or a worker the delivery.
Take(d, o) ==
    /\ todo[o] = "todo" /\ owner[o] = Nobody /\ Begins(d, "lookup", o)
    /\ o \in Plans => tries[o] < AttemptLimit
    /\ owner' = [owner EXCEPT ![o] = d]
    /\ tries' = IF o \in Plans THEN [tries EXCEPT ![o] = @ + 1] ELSE tries
    /\ UNCHANGED << rowVars, todo, overtaken, unheard, accidents >>

\* TriggerAutopilot; the client may send the same key again.
Click(d, k) ==
    /\ todo[k] = "todo" /\ tries[k] < AttemptLimit /\ Begins(d, "admit", k)
    /\ tries' = [tries EXCEPT ![k] = @ + 1]
    /\ UNCHANGED << rowVars, todo, owner, overtaken, unheard, accidents >>

\* Manager.Finish of a plan; complete and retryOrFail of a delivery.
RowAfter(o, outcome) ==
    IF outcome = "retry" /\ (o \in Plans \/ tries[o] + 1 < AttemptLimit) THEN "todo"
    ELSE IF outcome = "retry" THEN "failed" ELSE outcome
FinishAttempt(d) ==
    /\ Doing(d, "finish") /\ Ends(d)
    /\ LET o == Occ(d) IN
       IF owner[o] = d /\ todo[o] = "todo"
       THEN /\ todo' = [todo EXCEPT ![o] = RowAfter(o, proc[d].seen)]
            /\ tries' = IF o \in Hooks THEN [tries EXCEPT ![o] = @ + 1] ELSE tries
            /\ owner' = [owner EXCEPT ![o] = Nobody]
       ELSE UNCHANGED << todo, tries, owner >>
    /\ UNCHANGED << rowVars, overtaken, unheard, accidents >>

\* The process dies, or cannot write its outcome; the lease runs out.
Dies(d) ==
    /\ ~Doing(d, "idle") /\ Ends(d) /\ Accident
    /\ owner' = [o \in Occasions |-> IF owner[o] = d THEN Nobody ELSE owner[o]]
    /\ UNCHANGED << rowVars, todo, tries, overtaken, unheard >>

\* A worker outlives its lease of two minutes; or a plan's lease, which counts
\* from the clock of its tick, ends or is swept before the handler's first
\* heartbeat: the tick ran other jobs before this plan.
LeaseRunsOut(o) ==
    /\ owner[o] # Nobody /\ Accident
    /\ owner' = [owner EXCEPT ![o] = Nobody] /\ overtaken' = overtaken \cup {o}
    /\ UNCHANGED << rowVars, todo, tries, proc, unheard >>

-----------------------------------------------------------------------------
(* Admission.                                                                 *)

\* The outcome for a caller whose run needs nothing more.
Outcome(d, status) == IF Occ(d) \in Hooks /\ status = "failed" THEN "failed" ELSE "done"

NeverEnsured(d, r) == FALSE  \* mutant: a linked issue is taken for worked on
\* The run's issue was committed, its task perhaps not.
Ensured(d, r) == Occ(d) \in Hooks /\ mode = "create_issue" /\ run[r].link # 0
\* DispatchAutopilotForPlan, DispatchAutopilotForWebhookDelivery: the run that
\* was found, which is complete or partial.
GoesOnWith(d, r) ==
    IF Ingress(d) THEN Ends(d)
    ELSE IF RunComplete(r) /\ Ensured(d, r)
         THEN Goes(d, "ensure", r, run[r].link, Outcome(d, run[r].status))
    ELSE IF RunComplete(r) THEN Returns(d, Outcome(d, run[r].status))
    ELSE IF mode = "run_only" THEN Goes(d, "repair", r, 0, "none")
    ELSE Goes(d, IF Occ(d) \in Plans THEN "recover" ELSE "dispatch", r, 0, "none")

\* The run of an earlier attempt.  The trigger may have been paused: a plan is then
\* closed whatever an earlier attempt left, a delivery if none left a run.
LookUp(d) ==
    /\ Doing(d, "lookup") \/ Doing(d, "receive")
    /\ LET found == Anchored(Occ(d)) IN
       \/ (\E r \in found : GoesOnWith(d, r)) /\ NoAccident
       \/ found = {} /\ Goes(d, IF Ingress(d) THEN "reserve" ELSE "admit", 0, 0, "none")
                     /\ NoAccident
       \/ ~Ingress(d) /\ (Occ(d) \in Hooks => found = {}) /\ Returns(d, "ignored") /\ NoAccident
       \/ Returns(d, "retry") /\ Accident
    /\ UNCHANGED << rowVars, callerVars, unheard >>

Admits(d) == Doing(d, "admit") \/ Doing(d, "reserve")
Full == used + held >= limit
Inserted(r, d, status) ==
    /\ NextRun(r)
    /\ run' = [run EXCEPT ![r] = [occ |-> Occ(d), status |-> status, link |-> 0,
                                  anchored |-> Occ(d) \notin Clicks]]

\* recordSkippedRun: the assignee is not ready, or the period is full for a plan.
SkipAdmission(d) ==
    /\ Admits(d) /\ Anchored(Occ(d)) = {}
    /\ \E r \in Runs : Inserted(r, d, "skipped")
    /\ Returns(d, "done")
    /\ UNCHANGED << frozenVars, quotaVars, work, news, callerVars, unheard, accidents >>

RoomIgnoringHeld == used < limit  \* mutant: only the used slots count
\* createAutopilotRunWithQuota, one transaction under the period's row lock.
Room == used + held < limit
ReserveRun(d) ==
    /\ Admits(d) /\ Keyed(Occ(d)) = {} /\ Room /\ Anchored(Occ(d)) = {}
    /\ \E r \in Runs :
        /\ Inserted(r, d, "going")
        /\ slot' = [slot EXCEPT ![r] = "reserved"] /\ held' = held + 1
        /\ IF Ingress(d) THEN Ends(d)
           ELSE Goes(d, IF Occ(d) \in Hooks /\ mode = "run_only" THEN "repair" ELSE "dispatch",
                     r, 0, "none")
    /\ UNCHANGED << frozenVars, used, work, news, callerVars, unheard, accidents >>

\* ... the key has a reservation, or the unique index refuses the insert: that
\* run is returned, and dispatched by a delivery's worker only.
ReuseRun(d) ==
    /\ Admits(d)
    /\ \E r \in Keyed(Occ(d)) \cup Anchored(Occ(d)) :
        IF Occ(d) \in Hooks THEN GoesOnWith(d, r)
        ELSE Returns(d, IF r \in Keyed(Occ(d)) THEN "done" ELSE "retry")
    /\ UNCHANGED << rowVars, callerVars, unheard, accidents >>

\* ... the period is full: a delivery is ignored, a click is refused.
RefuseRun(d) ==
    /\ Admits(d) /\ Keyed(Occ(d)) = {} /\ Full /\ Occ(d) \notin Plans
    /\ Returns(d, "ignored")
    /\ todo' = IF Ingress(d) THEN [todo EXCEPT ![Occ(d)] = "ignored"] ELSE todo
    /\ UNCHANGED << rowVars, tries, owner, overtaken, unheard, accidents >>

AdmissionFails(d) ==
    /\ Admits(d) /\ Returns(d, "retry") /\ Accident
    /\ UNCHANGED << rowVars, callerVars, unheard >>

-----------------------------------------------------------------------------
(* Repair of a partial run.                                                   *)

\* An error after the run is known: a plan is retried, a delivery has failed.
Breaks(d) == Returns(d, IF Occ(d) \in Plans THEN "retry" ELSE "failed") /\ Accident

\* repairAutopilotRunTaskLink: GetAutopilotTaskByRun, the run's first task.
FindTask(d) ==
    /\ Doing(d, "repair")
    /\ \/ /\ Tasks(Run(d)) = {} /\ NoAccident
          /\ Goes(d, IF Occ(d) \in Plans THEN "recover" ELSE "dispatch", Run(d), 0, "none")
       \/ \E w \in Tasks(Run(d)) :
            /\ \A v \in Tasks(Run(d)) : w <= v
            /\ Goes(d, "relink", Run(d), w, work[w].status) /\ NoAccident
       \/ Breaks(d)
    /\ UNCHANGED << rowVars, callerVars, unheard >>

\* UpdateAutopilotRunRunning, whatever the run's status.
Linked(r, w) == run' = [run EXCEPT ![r].status = "going", ![r].link = w]
Relink(d) ==
    /\ Doing(d, "relink")
    /\ \/ /\ Linked(Run(d), Item(d)) /\ NoAccident
          /\ IF proc[d].seen \in Finished
             THEN Goes(d, "resync", Run(d), Item(d), proc[d].seen) ELSE Returns(d, "done")
       \/ Breaks(d) /\ UNCHANGED run
    /\ UNCHANGED << frozenVars, quotaVars, work, news, callerVars, unheard >>

\* SyncRunFromTask of a task found to have ended.
Resync(d) ==
    /\ Doing(d, "resync")
    /\ \/ EndRun(Run(d), proc[d].seen) /\ Returns(d, Outcome(d, proc[d].seen))
          /\ NoAccident /\ UNCHANGED unheard
       \/ Returns(d, "done") /\ Accident /\ unheard' = unheard \cup {Item(d)}
          /\ UNCHANGED << run, quotaVars >>
    /\ UNCHANGED << frozenVars, work, news, callerVars >>

\* recoverPartialAutopilotRun, then a fresh admission of the plan.
Recover(d) ==
    /\ Doing(d, "recover")
    /\ \/ /\ Recoverable(Run(d)) /\ RecoverPartial(Run(d)) /\ NoAccident
          /\ Goes(d, "admit", 0, 0, "none")
       \/ /\ ~Recoverable(Run(d)) /\ Returns(d, "retry") /\ NoAccident
          /\ UNCHANGED << run, quotaVars >>
       \/ Breaks(d) /\ UNCHANGED << run, quotaVars >>
    /\ UNCHANGED << frozenVars, work, news, callerVars, unheard >>

-----------------------------------------------------------------------------
(* dispatchAutopilotRun.                                                      *)

\* The guard against a recent issue of the same title that is still open.
MayRepeatIssue ==
    \E r \in Runs : /\ run[r].link # 0 /\ run[r].status \in {"going", "completed"}
                    /\ work[run[r].link].status # "deleted"
\* handleDispatchSkip.
SkipDispatch(d) ==
    /\ Doing(d, "dispatch")
    /\ mode = "create_issue" => MayRepeatIssue
    /\ EndRun(Run(d), "skipped") /\ Returns(d, "done")
    /\ UNCHANGED << frozenVars, work, news, callerVars, unheard, accidents >>

Created(w, d, status) ==
    NextWork(w) /\ work' = [work EXCEPT ![w] = [run |-> Run(d), status |-> status]]

\* dispatchRunOnly up to CreateAutopilotTask.
CreateTask(d) ==
    /\ Doing(d, "dispatch") /\ mode = "run_only"
    /\ \E w \in Work : Created(w, d, "live") /\ Goes(d, "link", Run(d), w, "none")
    /\ UNCHANGED << frozenVars, run, quotaVars, news, callerVars, unheard, accidents >>

\* dispatchCreateIssue up to its commit: the issue, the link, and the charge.
CreateIssue(d) ==
    /\ Doing(d, "dispatch") /\ mode = "create_issue"
    /\ \E w \in Work : /\ Created(w, d, "bare") /\ Linked(Run(d), w)
                       /\ Goes(d, "enqueue", Run(d), w, "none")
    /\ SettleSlot(Run(d), "consumed")
    /\ UNCHANGED << frozenVars, news, callerVars, unheard, accidents >>

DispatchFails(d) ==
    /\ Doing(d, "dispatch") /\ Goes(d, "failing", Run(d), 0, "none") /\ Accident
    /\ UNCHANGED << rowVars, callerVars, unheard >>

\* UpdateAutopilotRunRunning after the insert: an error is only logged.
LinkTask(d) ==
    /\ Doing(d, "link") /\ Returns(d, "done")
    /\ \/ Linked(Run(d), Item(d)) /\ NoAccident
       \/ UNCHANGED run /\ Accident
    /\ UNCHANGED << frozenVars, quotaVars, work, news, callerVars, unheard >>

TaskEnqueued(w) ==
    work' = IF work[w].status = "bare" THEN [work EXCEPT ![w].status = "live"] ELSE work
\* EnqueueTaskForIssue, after the issue's commit.
EnqueueIssueTask(d) ==
    /\ Doing(d, "enqueue")
    /\ \/ /\ work[Item(d)].status # "deleted" /\ TaskEnqueued(Item(d))
          /\ Returns(d, "done") /\ NoAccident
       \/ /\ work[Item(d)].status = "deleted" /\ NoAccident
          /\ Goes(d, "failing", Run(d), 0, "none") /\ UNCHANGED work
       \/ Goes(d, "failing", Run(d), 0, "none") /\ Accident /\ UNCHANGED work
    /\ UNCHANGED << frozenVars, run, quotaVars, news, callerVars, unheard >>

\* failRun, whose own error is only logged.
FailRun(d) ==
    /\ Doing(d, "failing")
    /\ Returns(d, IF Occ(d) \in Plans THEN "retry" ELSE "failed")
    /\ \/ EndRun(Run(d), "failed") /\ NoAccident
       \/ UNCHANGED << run, quotaVars >> /\ Accident
    /\ UNCHANGED << frozenVars, work, news, callerVars, unheard >>

\* ensureWebhookCreateIssueTask: the linked issue of a delivery gets its task.
EnsureIssueTask(d) ==
    /\ Doing(d, "ensure")
    /\ \/ /\ work[Item(d)].status # "deleted" /\ TaskEnqueued(Item(d))
          /\ Returns(d, proc[d].seen) /\ NoAccident
       \/ /\ work[Item(d)].status = "deleted" /\ Returns(d, "failed") /\ NoAccident
          /\ UNCHANGED work
       \/ Breaks(d) /\ UNCHANGED work
    /\ UNCHANGED << frozenVars, run, quotaVars, news, callerVars, unheard >>

-----------------------------------------------------------------------------
(* The work, its listener, and the reconciler.                                *)

\* The task ends, or someone closes the issue; the event follows the commit.
WorkEnds(w) ==
    /\ work[w].status \in {"live", "bare"}
    /\ \E status \in {"completed", "failed"} : work' = [work EXCEPT ![w].status = status]
    /\ news' = news \cup {w}
    /\ UNCHANGED << frozenVars, run, quotaVars, callerVars, proc, unheard, accidents >>

\* SyncRunFromTask finds the run by the task's autopilot_run_id; SyncRunFromIssue
\* and SyncRunFromLinkedIssueTask an active run by its issue_id.
HearEnd(w) ==
    /\ w \in news /\ news' = news \ {w}
    /\ IF mode = "run_only" \/ (run[work[w].run].status = "going" /\ run[work[w].run].link = w)
       THEN EndRun(work[w].run, work[w].status) ELSE UNCHANGED << run, quotaVars >>
    /\ UNCHANGED << frozenVars, work, callerVars, proc, unheard, accidents >>

\* The server dies before its listener wrote, or the write fails: logged.
MissEnd(w) ==
    /\ w \in news /\ news' = news \ {w} /\ unheard' = unheard \cup {w} /\ Accident
    /\ UNCHANGED << frozenVars, run, quotaVars, work, callerVars, proc >>

\* DeleteIssue: FailAutopilotRunsByIssue, whose error is ignored, then the row,
\* which clears issue_id.
DeleteIssue(w) ==
    /\ mode = "create_issue" /\ work[w].status \notin {"none", "deleted"}
    /\ work' = [work EXCEPT ![w].status = "deleted"] /\ news' = news \ {w}
    /\ LET r == work[w].run IN
       \/ /\ run[r].link = w /\ run[r].status = "going" /\ NoAccident
          /\ run' = [run EXCEPT ![r].status = "failed", ![r].link = 0]
          /\ SettleSlot(r, "released")
       \/ /\ IF run[r].link = w /\ run[r].status = "going" THEN Accident ELSE NoAccident
          /\ run' = IF run[r].link = w THEN [run EXCEPT ![r].link = 0] ELSE run
          /\ UNCHANGED quotaVars
    /\ UNCHANGED << frozenVars, callerVars, proc, unheard >>

ReconcileEnded(r) ==  \* mutant: partial runs are left to their callers
    /\ slot[r] = "reserved" /\ run[r].status \in Finished
    /\ SettleSlot(r, IF run[r].status = "completed" THEN "consumed" ELSE "released")
    /\ UNCHANGED << frozenVars, run, work, news, callerVars, proc, unheard, accidents >>
\* ReconcileAutopilotQuotaReservations: reservations of runs that ended, and, six
\* hours on, when no request can still be at it, of partial runs of clicks.
Reconcile(r) ==
    /\ slot[r] = "reserved"
    /\ \/ /\ run[r].status \in Finished /\ UNCHANGED run
          /\ SettleSlot(r, IF run[r].status = "completed" THEN "consumed" ELSE "released")
       \/ /\ run[r].occ \in Clicks /\ Recoverable(r) /\ Tasks(r) = {}
          /\ \A d \in Dispatchers : Run(d) # r
          /\ RecoverPartial(r)
    /\ UNCHANGED << frozenVars, work, news, callerVars, proc, unheard, accidents >>

-----------------------------------------------------------------------------

DispatchStep(d) ==
    \/ LookUp(d) \/ SkipAdmission(d) \/ ReserveRun(d) \/ ReuseRun(d) \/ RefuseRun(d)
    \/ AdmissionFails(d) \/ FindTask(d) \/ Relink(d) \/ Resync(d) \/ Recover(d)
    \/ SkipDispatch(d) \/ CreateTask(d) \/ CreateIssue(d) \/ DispatchFails(d) \/ LinkTask(d)
    \/ EnqueueIssueTask(d) \/ FailRun(d) \/ EnsureIssueTask(d) \/ FinishAttempt(d)
WorkStep(w) == WorkEnds(w) \/ HearEnd(w) \/ MissEnd(w) \/ DeleteIssue(w)

DispatchNext ==
    \/ \E d \in Dispatchers :
        \/ DispatchStep(d) \/ Dies(d)
        \/ \E h \in Hooks : ReceiveHook(d, h)
        \/ \E o \in Plans \cup Hooks : Take(d, o)
        \/ \E k \in Clicks : Click(d, k)
    \/ \E o \in Plans \cup Hooks : LeaseRunsOut(o)
    \/ \E w \in Work : WorkStep(w)
    \/ \E r \in Runs : Reconcile(r)

\* Dispatchers run, callers take what is due, tasks end, the bus delivers, and the
\* reconciler ticks.
DispatchFairness ==
    /\ \A d \in Dispatchers : WF_dispatchVars(DispatchStep(d))
    /\ \A o \in Plans \cup Hooks : WF_dispatchVars(\E d \in Dispatchers : Take(d, o))
    /\ \A w \in Work : WF_dispatchVars(WorkEnds(w)) /\ WF_dispatchVars(HearEnd(w))
    /\ \A r \in Runs : WF_dispatchVars(Reconcile(r))

DispatchSpec == DispatchInit /\ [][DispatchNext]_dispatchVars /\ DispatchFairness

-----------------------------------------------------------------------------
(* Properties.                                                                *)

RunType ==
    [occ : Occasions \cup {NoOccasion}, status : {"none", "going"} \cup Finished,
     link : {0} \cup Work, anchored : BOOLEAN]
WorkType ==
    [run : {0} \cup Runs,
     status : {"none", "bare", "live", "completed", "failed", "deleted"}]
ProcType ==
    [pc : {"idle", "receive", "reserve", "lookup", "admit", "repair", "relink", "resync",
           "recover", "dispatch", "link", "enqueue", "failing", "ensure", "finish"},
     occ : Occasions \cup {NoOccasion}, run : {0} \cup Runs, item : {0} \cup Work,
     seen : {"none", "bare", "live", "completed", "failed", "deleted",
             "done", "retry", "ignored"}]

\* Every variable has its type.
DispatchTypeOK ==
    /\ mode \in {"run_only", "create_issue"} /\ limit \in Nat
    /\ run \in [Runs -> RunType] /\ work \in [Work -> WorkType]
    /\ slot \in [Runs -> {"none", "reserved", "consumed", "released"}]
    /\ held \in Nat /\ used \in Nat
    /\ news \subseteq Work /\ unheard \subseteq Work
    /\ todo \in [Occasions -> {"never", "unsent", "todo", "done", "failed", "ignored"}]
    /\ tries \in [Occasions -> Nat] /\ owner \in [Occasions -> Dispatchers \cup {Nobody}]
    /\ proc \in [Dispatchers -> ProcType]
    /\ overtaken \subseteq Plans \cup Hooks /\ accidents \in Nat

\* The period's counters are the reservations they count, and never add up to
\* more than the limit: whatever crashes, retries or ends twice.
QuotaKept ==
    /\ held = Cardinality({r \in Runs : slot[r] = "reserved"})
    /\ used = Cardinality({r \in Runs : slot[r] = "consumed"})
    /\ used + held <= limit

WorkOf(o) == {w \in Work : work[w].run # 0 /\ run[work[w].run].occ = o /\ work[w].status # "deleted"}
\* A plan or a delivery is worked on at most once, unless an attempt lost its
\* lease and went on beside the next one; the requests of one key have at most one
\* item that did not fail.
WorkOnce ==
    /\ \A o \in (Plans \cup Hooks) \ overtaken : Cardinality(WorkOf(o)) <= 1
    /\ \A k \in Clicks : Cardinality({w \in WorkOf(k) : work[w].status # "failed"}) <= 1

\* Work that is done was charged, unless its occasion lost a lease as above: an
\* issue when it was created, a task when its end was heard.
WorkIsCharged ==
    \A w \in Work : LET r == work[w].run IN
        r # 0 /\ run[r].occ \notin overtaken
          => /\ mode = "create_issue" => slot[r] = "consumed"
             /\ work[w].status = "completed" => slot[r] = "consumed" \/ w \in news \cup unheard

\* An issue whose dispatch is reported as done has a task, or had one.
Worked(o) == todo[o] = "done" => \A w \in WorkOf(o) : work[w].status # "bare"
DispatchedIsWorked == \A h \in Hooks \ overtaken : Worked(h)
PlannedIsWorked == \A p \in Plans \ overtaken : Worked(p)

\* Nobody comes back to the occasion.
GivenUp(o) == todo[o] \in {"failed", "ignored"} \/ (o \in Plans /\ tries[o] = AttemptLimit /\ owner[o] = Nobody)
\* Every slot that is reserved is settled in the end, unless the end of its work
\* was not heard or its occasion was given up.
SlotsSettle ==
    <>[](\A r \in Runs : slot[r] = "reserved" =>
            GivenUp(run[r].occ) \/ \E w \in unheard : work[w].run = r)
=============================================================================
