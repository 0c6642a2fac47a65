---------------------------- MODULE CronPlanner ----------------------------
(***************************************************************************)
(* The planning arithmetic of the database-backed cron scheduler            *)
(* (server/internal/scheduler): which plan_times one tick attempts for one  *)
(* (job, scope), given the tick's clock reading and the newest stored row.  *)
(* Times are natural numbers.  NoTime is SQL NULL / Go's zero time.         *)
(***************************************************************************)
EXTENDS Integers, Sequences

CONSTANTS
    Mode,             \* "latest_only", "every_plan", or "autopilot" (the hook)
    Cadence,          \* JobSpec.Cadence
    ScheduleDelay,    \* JobSpec.ScheduleDelay
    CatchUpWindow,    \* JobSpec.CatchUpWindow (the hook's replayWindow)
    MaxPlansPerTick,  \* JobSpec.MaxPlansPerTick
    RetryBackoff,     \* JobSpec.RetryBackoff, a sequence of delays
    Occurrences,      \* the cron occurrences of the autopilot trigger
    FirstAnchor,      \* the trigger's last_fired_at, or created_at if it never fired
    MaxLateness       \* maxAutopilotScheduleLateness

ASSUME PlannerAssumption ==
    /\ Mode \in {"latest_only", "every_plan", "autopilot"}
    /\ Cadence \in Nat \ {0}
    /\ {ScheduleDelay, CatchUpWindow, MaxPlansPerTick, FirstAnchor, MaxLateness} \subseteq Nat
    /\ RetryBackoff \in Seq(Nat)
    /\ Occurrences \subseteq Nat

NoTime == -1

NoRow == [status |-> "none", attempt |-> 0, token |-> 0,
          staleAfter |-> NoTime, nextRetry |-> NoTime, error |-> "none"]

Least(a, b) == IF a <= b THEN a ELSE b
Greatest(a, b) == IF a >= b THEN a ELSE b

FloorPlan(eligible) == (eligible \div Cadence) * Cadence

\* Delay before the attempt after `attempt`; past its end the list repeats its
\* last entry, an empty list means at once.
RetryDelay(attempt) ==
    IF RetryBackoff = <<>> THEN 0
    ELSE RetryBackoff[Least(Greatest(attempt, 1), Len(RetryBackoff))]

\* LatestPlanInfo.RetryEligible.  A NULL next_retry_at is due at once.
RetryEligible(info, maxAttempts, now) ==
    /\ info.status = "FAILED"
    /\ info.attempt < maxAttempts
    /\ info.nextRetry = NoTime \/ info.nextRetry <= now

-----------------------------------------------------------------------------
(* plansForTick.  `latestTime` is the plan_time of the newest stored row,     *)
(* NoTime when there is none, and `info` is that row.                         *)

LatestOnlyPlans(now) == << FloorPlan(now - ScheduleDelay) >>

CursorAtLatest(latestTime, info, maxAttempts, now, latest) ==  \* mutant: skips ahead
    IF RetryEligible(info, maxAttempts, now) THEN latestTime ELSE latest
\* The first plan_time every_plan considers, before the catch-up window.
EveryPlanCursor(latestTime, info, maxAttempts, now, latest) ==
    IF latestTime = NoTime THEN latest
    ELSE IF RetryEligible(info, maxAttempts, now) THEN latestTime
    ELSE latestTime + Cadence

EveryPlanPlans(latestTime, info, maxAttempts, now) ==
    LET latest == FloorPlan(now - ScheduleDelay)
        oldestAllowed == IF CatchUpWindow = 0 THEN latest
                         ELSE Greatest(now - CatchUpWindow, 0)
        cursor == EveryPlanCursor(latestTime, info, maxAttempts, now, latest)
        floor == FloorPlan(oldestAllowed)
        start == IF cursor >= oldestAllowed THEN cursor
                 ELSE IF floor < oldestAllowed THEN floor + Cadence ELSE floor
        due == IF start > latest THEN 0 ELSE (latest - start) \div Cadence + 1
    IN [i \in 1 .. Least(due, MaxPlansPerTick) |-> start + (i - 1) * Cadence]

AutopilotOldest(latestTime, info, maxAttempts, now) ==  \* mutant: oldest missed fire
    IF latestTime # NoTime /\ RetryEligible(info, maxAttempts, now)
    THEN << latestTime >>
    ELSE LET anchor == IF latestTime # NoTime THEN latestTime ELSE FirstAnchor
             after == Greatest(anchor, now - CatchUpWindow)
             due == {t \in Occurrences : after < t /\ t <= now}
             fresh == {t \in due : /\ \A u \in due : t <= u
                                   /\ now - t <= MaxLateness}
         IN IF fresh = {} THEN <<>> ELSE << CHOOSE t \in fresh : TRUE >>
\* autopilotPlansForScope: a due retry keeps its plan_time; otherwise the
\* missed occurrences collapse to the newest one, dropped when it is too late.
AutopilotPlans(latestTime, info, maxAttempts, now) ==
    IF latestTime # NoTime /\ RetryEligible(info, maxAttempts, now)
    THEN << latestTime >>
    ELSE LET anchor == IF latestTime # NoTime THEN latestTime ELSE FirstAnchor
             after == Greatest(anchor, now - CatchUpWindow)
             due == {t \in Occurrences : after < t /\ t <= now}
             fresh == {t \in due : /\ \A u \in due : u <= t
                                   /\ now - t <= MaxLateness}
         IN IF fresh = {} THEN <<>>
            ELSE << CHOOSE t \in fresh : TRUE >>

PlansForTick(latestTime, info, maxAttempts, now) ==
    IF Mode = "latest_only" THEN LatestOnlyPlans(now)
    ELSE IF Mode = "every_plan" THEN EveryPlanPlans(latestTime, info, maxAttempts, now)
    ELSE AutopilotPlans(latestTime, info, maxAttempts, now)
=============================================================================
