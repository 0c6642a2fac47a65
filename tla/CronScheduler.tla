--------------------------- MODULE CronScheduler ---------------------------
(***************************************************************************)
(* The cron scheduler of server/internal/scheduler for one job and scope:   *)
(* app instances (Runners) tick against one sys_cron_executions table, whose*)
(* rows, one per plan_time, are both lease and audit record.  Every SQL     *)
(* statement is one action; between two statements of a runner any other    *)
(* runner and the clock may move.  A tick keeps the clock it read first.    *)
(*                                                                          *)
(* lease_token is a fresh uuid per claim.  A claim also raises `attempt`, so *)
(* within a row the attempt number of the claim that wrote it names it.     *)
(***************************************************************************)
EXTENDS CronPlanner, FiniteSets

CONSTANTS
    Runners,            \* app instances
    MaxTime,            \* bound: the clock stops here
    StaleTimeout, HeartbeatInterval, MaxAttempts,  \* JobSpec
    AllowStaleReentry,  \* JobSpec.AllowStaleReentry
    DBFaults,           \* the statements that may fail
    MaxCrashes          \* bound: process crashes

ASSUME SchedulerAssumption ==
    /\ MaxTime \in Nat /\ ScheduleDelay <= MaxTime
    /\ {StaleTimeout, HeartbeatInterval} \subseteq Nat \ {0}
    /\ HeartbeatInterval < StaleTimeout
    /\ MaxAttempts \in Nat \ {0}
    /\ MaxCrashes \in Nat
    /\ AllowStaleReentry \in BOOLEAN
    /\ DBFaults \subseteq {"sweep", "plan", "claim", "finish"}

VARIABLES
    clock,    \* the database's now()
    row,      \* plan_time -> row of sys_cron_executions, NoRow when absent
    run,      \* runner -> where its goroutine is, see Idle
    crashes   \* crashes so far

vars == << clock, row, run, crashes >>

\* Every plan_time a tick within the clock bound can produce.
Plans == 0 .. MaxTime

\* pc, then the tick's clock, the plans still to process, the claimed attempt
\* and token, when the handler last started, beat or returned, its result; and
\* two histories: whether the attempt was ever late (see Overdue) and the
\* plan_times this tick gave up.
Between(pc, now, todo, gaveUp) ==
    [pc |-> pc, now |-> now, todo |-> todo, attempt |-> 0, token |-> 0,
     beat |-> 0, ok |-> FALSE, late |-> FALSE, gaveUp |-> gaveUp]
Idle == Between("idle", 0, <<>>, {})
Down == Between("down", 0, <<>>, {})

Plan(r) == Head(run[r].todo)
Executing(r) == run[r].pc \in {"running", "finish"}

Stored == {p \in Plans : row[p].status # "none"}
LatestTime == IF Stored = {} THEN NoTime
              ELSE CHOOSE p \in Stored : \A q \in Stored : q <= p
LatestInfo == IF Stored = {} THEN NoRow ELSE row[LatestTime]

Init ==
    /\ clock = ScheduleDelay
    /\ row = [p \in Plans |-> NoRow]
    /\ run = [r \in Runners |-> Idle]
    /\ crashes = 0

Goto(r, pc) == run' = [run EXCEPT ![r].pc = pc]
\* Return from processPlan: on to the tick's next plan.
NextPlan(r, gaveUp) ==
    run' = [run EXCEPT ![r] = Between("next", run[r].now, Tail(run[r].todo), gaveUp)]

-----------------------------------------------------------------------------
(* One tick: RunOnce, runJob, plansForTick.                                   *)

\* RunOnce reads the database clock once for the whole tick.
StartTick(r) ==
    /\ run[r].pc = "idle"
    /\ run' = [run EXCEPT ![r] = Between("sweep", clock, <<>>, {})]
    /\ UNCHANGED << clock, row, crashes >>

\* The columns the sweep sets; next_retry_at is not among them.
Closed(x) == [x EXCEPT !.status = "FAILED", !.error = "stale_timeout"]
StaleAtDeadline(p, now) ==  \* mutant: <= for <
    row[p].status = "RUNNING" /\ row[p].staleAfter <= now
StaleNonReentrant(p, now) ==  \* mutant: the sweep skips reentrant jobs
    row[p].status = "RUNNING" /\ row[p].staleAfter < now /\ ~AllowStaleReentry
Stale(p, now) == row[p].status = "RUNNING" /\ row[p].staleAfter < now

\* markStaleAsFailed, for every job; an error is logged and the tick goes on.
MarkStaleAsFailed(r) ==
    /\ run[r].pc = "sweep"
    /\ \/ row' = [p \in Plans |-> IF Stale(p, run[r].now) THEN Closed(row[p]) ELSE row[p]]
       \/ "sweep" \in DBFaults /\ UNCHANGED row
    /\ Goto(r, "plan")
    /\ UNCHANGED << clock, crashes >>

\* A scope without history starts at its newest plan_time, the earlier ones are
\* never attempted.
BeforeFirst(plans) ==
    IF Stored = {} /\ plans # <<>> THEN {t \in Plans : t < Head(plans)} ELSE {}

\* plansForTick; an error skips the scope, which ends this job's tick.
PlanTick(r) ==
    /\ run[r].pc = "plan"
    /\ \/ LET plans == PlansForTick(LatestTime, LatestInfo, MaxAttempts, run[r].now)
          IN run' = [run EXCEPT ![r].pc = "next", ![r].todo = plans,
                                ![r].gaveUp = BeforeFirst(plans)]
       \/ "plan" \in DBFaults /\ run' = [run EXCEPT ![r] = Idle]
    /\ UNCHANGED << clock, row, crashes >>

EndTick(r) ==
    /\ run[r].pc = "next" /\ run[r].todo = <<>>
    /\ run' = [run EXCEPT ![r] = Idle]
    /\ UNCHANGED << clock, row, crashes >>

-----------------------------------------------------------------------------
(* processPlan: tryClaim, then runClaimed.                                    *)

\* The row of p as `attempt` leases it; the lease runs from the tick's clock.
LeasedUnderOldToken(r, attempt) ==  \* mutant: the steal keeps lease_token
    [status |-> "RUNNING", attempt |-> attempt,
     token |-> IF attempt = 1 THEN 1 ELSE row[Plan(r)].token,
     staleAfter |-> run[r].now + StaleTimeout, nextRetry |-> NoTime, error |-> "none"]
Leased(r, attempt) ==
    [status |-> "RUNNING", attempt |-> attempt, token |-> attempt,
     staleAfter |-> run[r].now + StaleTimeout, nextRetry |-> NoTime, error |-> "none"]

\* The claim returns the row's attempt and token; the handler starts.  It is
\* late when the first heartbeat is due only after the lease has run out.
TakeLease(r, lease) ==
    /\ row' = [row EXCEPT ![Plan(r)] = lease]
    /\ run' = [run EXCEPT ![r].pc = "running", ![r].attempt = lease.attempt,
                          ![r].token = lease.token, ![r].beat = clock,
                          ![r].late = lease.staleAfter < clock + HeartbeatInterval]

\* INSERT ... ON CONFLICT DO NOTHING.
ClaimInsert(r) ==
    /\ run[r].pc = "next" /\ run[r].todo # <<>>
    /\ IF row[Plan(r)].status = "none"
       THEN TakeLease(r, Leased(r, 1))
       ELSE Goto(r, "steal") /\ UNCHANGED row
    /\ UNCHANGED << clock, crashes >>

ClaimableForever(x, now) ==  \* mutant: no attempt < max_attempts
    \/ x.status = "FAILED" /\ (x.nextRetry = NoTime \/ x.nextRetry <= now)
    \/ x.status = "RUNNING" /\ x.staleAfter < now /\ AllowStaleReentry
ClaimableAtOnce(x, now) ==  \* mutant: next_retry_at is not compared
    /\ x.attempt < MaxAttempts
    /\ \/ x.status = "FAILED"
       \/ x.status = "RUNNING" /\ x.staleAfter < now /\ AllowStaleReentry
\* The WHERE clause of the steal UPDATE.
Claimable(x, now) ==
    /\ x.attempt < MaxAttempts
    /\ \/ x.status = "FAILED" /\ (x.nextRetry = NoTime \/ x.nextRetry <= now)
       \/ x.status = "RUNNING" /\ x.staleAfter < now /\ AllowStaleReentry

\* The steal UPDATE; zero rows means Conflicted, and the plan is skipped.
ClaimSteal(r) ==
    /\ run[r].pc = "steal"
    /\ IF Claimable(row[Plan(r)], run[r].now)
       THEN TakeLease(r, Leased(r, row[Plan(r)].attempt + 1))
       ELSE NextPlan(r, run[r].gaveUp) /\ UNCHANGED row
    /\ UNCHANGED << clock, crashes >>

\* A claim statement fails, at worst after it was committed: the plan is
\* skipped and the tick goes on.
ClaimError(r) ==
    /\ "claim" \in DBFaults
    /\ \/ run[r].pc = "next" /\ run[r].todo # <<>>
       \/ run[r].pc = "steal"
    /\ \/ UNCHANGED row
       \/ /\ \/ run[r].pc = "next" /\ row[Plan(r)].status = "none"
             \/ run[r].pc = "steal" /\ Claimable(row[Plan(r)], run[r].now)
          /\ row' = [row EXCEPT ![Plan(r)] = Leased(r, row[Plan(r)].attempt + 1)]
    /\ NextPlan(r, run[r].gaveUp \cup {Plan(r)})
    /\ UNCHANGED << clock, crashes >>

OwnedRunning(r) ==  \* mutant: no lease_token guard
    row[Plan(r)].status = "RUNNING"
\* The row the runner's heartbeat and terminal UPDATEs match: its id, its
\* lease_token, still RUNNING.
Owned(r) == row[Plan(r)].status = "RUNNING" /\ row[Plan(r)].token = run[r].token

RenewedFromTick(r) == run[r].now + StaleTimeout  \* mutant: the tick's clock
RenewedLease(r) == clock + StaleTimeout

\* heartbeat, from the goroutine or the handler; it moves the lease to the
\* present clock, or matches no row once the lease is lost.
Heartbeat(r) ==
    /\ run[r].pc = "running" /\ run[r].beat < clock
    /\ row' = IF Owned(r) THEN [row EXCEPT ![Plan(r)].staleAfter = RenewedLease(r)] ELSE row
    /\ run' = [run EXCEPT ![r].beat = clock]
    /\ UNCHANGED << clock, crashes >>

\* The handler returns, panics or times out; heartbeats stop and dbNow is read.
HandlerReturns(r) ==
    /\ run[r].pc = "running"
    /\ \E ok \in BOOLEAN :
         run' = [run EXCEPT ![r].pc = "finish", ![r].ok = ok, ![r].beat = clock]
    /\ UNCHANGED << clock, row, crashes >>

\* When a failed attempt may be retried; NULL once attempts are used up.
NextRetryAt(r) ==
    IF run[r].attempt < MaxAttempts THEN run[r].beat + RetryDelay(run[r].attempt)
    ELSE NoTime

\* finishSuccess / finishFailure under the token guard; a lost lease and a
\* failed statement are both only logged.
Finish(r) ==
    /\ run[r].pc = "finish"
    /\ \/ row' = IF ~Owned(r) THEN row
                 ELSE [row EXCEPT ![Plan(r)] =
                        IF run[r].ok THEN [@ EXCEPT !.status = "SUCCESS"]
                        ELSE [@ EXCEPT !.status = "FAILED", !.nextRetry = NextRetryAt(r),
                                       !.error = "handler_error"]]
       \/ "finish" \in DBFaults /\ UNCHANGED row
    /\ NextPlan(r, run[r].gaveUp)
    /\ UNCHANGED << clock, crashes >>

-----------------------------------------------------------------------------
(* The environment.                                                           *)

Crash(r) ==
    /\ crashes < MaxCrashes /\ run[r].pc # "down"
    /\ run' = [run EXCEPT ![r] = Down]
    /\ crashes' = crashes + 1
    /\ UNCHANGED << clock, row >>

Restart(r) ==
    /\ run[r].pc = "down"
    /\ run' = [run EXCEPT ![r] = Idle]
    /\ UNCHANGED << clock, row, crashes >>

\* The heartbeat ticker or the terminal UPDATE of r is due.
Overdue(r) ==
    \/ run[r].pc = "running" /\ run[r].beat + HeartbeatInterval <= clock
    \/ run[r].pc = "finish"

\* Time passes between any two statements: a tick that read its clock first runs
\* the handlers of the jobs, scopes and plans before this one.
AdvanceClock ==
    /\ clock < MaxTime
    /\ clock' = clock + 1
    /\ run' = [r \in Runners |-> [run[r] EXCEPT !.late = @ \/ Overdue(r)]]
    /\ UNCHANGED << row, crashes >>

Proceed(r) ==
    \/ MarkStaleAsFailed(r) \/ PlanTick(r) \/ EndTick(r)
    \/ ClaimInsert(r) \/ ClaimSteal(r) \/ ClaimError(r)
    \/ HandlerReturns(r) \/ Finish(r)

Next ==
    \/ AdvanceClock
    \/ \E r \in Runners :
         StartTick(r) \/ Proceed(r) \/ Heartbeat(r) \/ Crash(r) \/ Restart(r)

Spec == Init /\ [][Next]_vars

\* A live process keeps ticking and its statements and handlers return; a
\* heartbeat, a crash and the clock are owed nothing.
FairSpec == Spec /\ \A r \in Runners :
    WF_vars(StartTick(r)) /\ WF_vars(Proceed(r)) /\ WF_vars(Restart(r))
-----------------------------------------------------------------------------
(* Properties.                                                                *)

RowType == [status : {"none", "RUNNING", "SUCCESS", "FAILED"},
            attempt : 0 .. MaxAttempts, token : 0 .. MaxAttempts,
            staleAfter : Int, nextRetry : Int,
            error : {"none", "stale_timeout", "handler_error"}]
RunType == [pc : {"idle", "sweep", "plan", "next", "steal", "running", "finish", "down"},
            now : Nat, todo : Seq(Plans), attempt : 0 .. MaxAttempts,
            token : 0 .. MaxAttempts, beat : Nat, ok : BOOLEAN,
            late : BOOLEAN, gaveUp : SUBSET Plans]

\* Every variable has its type; in particular no row passes MaxAttempts, as the
\* table's CHECK (max_attempts >= attempt) demands.
TypeOK ==
    /\ clock \in 0 .. MaxTime
    /\ row \in [Plans -> RowType]
    /\ run \in [Runners -> RunType]
    /\ crashes \in 0 .. MaxCrashes

\* r runs or has just run the handler under the lease the row records.
Holds(r, p) ==
    /\ Executing(r) /\ Plan(r) = p
    /\ row[p].status = "RUNNING" /\ row[p].token = run[r].token

\* At most one process owns a plan's lease, whatever was stolen, swept, retried
\* or lost in between (the table's unique key and lease_token).
OneHolder == \A p \in Plans : \A r, s \in Runners : Holds(r, p) /\ Holds(s, p) => r = s

\* A row turns SUCCESS only by the process that owns the current lease, when its
\* own handler returned without error, and never changes again: an ex-holder
\* cannot rewrite a newer attempt.
SuccessOnlyByHolder ==
    [][\A p \in Plans :
         "SUCCESS" \in {row[p].status, row'[p].status} /\ row'[p] # row[p] =>
           \E r \in Runners : Holds(r, p) /\ run[r].pc = "finish" /\ run[r].ok]_vars

\* Nobody but its holder ends a lease, except after stale_after passed on the
\* database clock, though sweeps and steals judge by the older clock of a tick.
LeaseRespected ==
    [][\A p \in Plans :
         row[p].status = "RUNNING" /\ (row'[p].status # "RUNNING" \/ row'[p].token # row[p].token) =>
           \/ \E r \in Runners : Holds(r, p) /\ run[r].pc = "finish"
           \/ row[p].staleAfter < clock]_vars

\* A failed plan runs again only with attempts left and its backoff over.
BackoffRespected ==
    [][\A p \in Plans : row[p].status = "FAILED" /\ row'[p] # row[p] =>
         /\ row[p].attempt < MaxAttempts
         /\ row[p].nextRetry <= clock]_vars

\* The oldest plan_time a tick still catches up, which plansForTick calls
\* oldestAllowed.
WindowStart(now) ==
    IF CatchUpWindow = 0 THEN FloorPlan(now - ScheduleDelay) ELSE now - CatchUpWindow

\* r's claim inserts the row of p.
Stores(r, p) == run'[r] # run[r] /\ row[p].status = "none" /\ row'[p].status # "none"

\* every_plan "claims every missed plan_time, oldest first" (CatchUpEveryPlan):
\* a row is never stored beyond one nobody stored, which no later tick would
\* return to, but where that one is older than the catch-up window, or this very
\* tick failed to claim it or began a scope without history after it.
NothingSkipped ==
    [][\A r \in Runners, p \in Plans :
         Stores(r, p) /\ Stored # {} =>
           \A t \in LatestTime + 1 .. p - 1 : t % Cadence = 0 =>
             t < WindowStart(run[r].now) \/ t \in run[r].gaveUp]_vars

\* A running handler owns its lease while its process lives and beats in time
\* ("runHeartbeats keeps the lease alive for the duration of the handler"),
\* unless the claim came so late in its tick that the lease, which counts from
\* the tick's clock, ends before the first heartbeat.
LiveHolderKeepsLease ==
    \A r \in Runners : Executing(r) /\ ~run[r].late => Holds(r, Plan(r))

\* The planner moves past the newest row only when that row is "SUCCESS,
\* RUNNING, or FAILED with no remaining retry budget" (plansForTick).
NoStrandedRetry ==
    [][\A r \in Runners :
         run[r].pc = "plan" /\ Stored # {} /\ run'[r].todo # <<>>
           /\ Head(run'[r].todo) > LatestTime =>
         LatestInfo.status # "FAILED" \/ LatestInfo.attempt = MaxAttempts]_vars

\* A lease whose holder is gone is closed or taken over once it is stale.
Abandoned(p) ==
    /\ row[p].status = "RUNNING" /\ row[p].staleAfter < clock
    /\ \A r \in Runners : ~Holds(r, p)
AbandonedIsClosed == \A p \in Plans : []<>~Abandoned(p)
=============================================================================
