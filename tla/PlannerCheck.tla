---------------------------- MODULE PlannerCheck ----------------------------
(* The planner checked against a set-based reference over bounded inputs: a   *)
(* state is one input (newest stored row, tick clock), and time passes.       *)
EXTENDS Integers, Sequences, FiniteSets

CONSTANTS
    PlanCadence, PlanDelay, PlanWindow, PlansPerTick,      \* of the JobSpec
    CronOccurrences, CronAnchor, CronLateness, PlanAttempts,
    MaxNow             \* bound

ASSUME PlannerInputs ==
    /\ PlanCadence \in Nat \ {0}
    /\ {PlanDelay, PlanWindow, PlansPerTick, CronAnchor, CronLateness, PlanAttempts, MaxNow}
         \subseteq Nat
    /\ CronOccurrences \subseteq Nat
    /\ PlanDelay <= MaxNow

P == INSTANCE CronPlanner WITH
         Mode <- "every_plan", Cadence <- PlanCadence, ScheduleDelay <- PlanDelay,
         CatchUpWindow <- PlanWindow, MaxPlansPerTick <- PlansPerTick,
         RetryBackoff <- << 1, 2 >>, Occurrences <- CronOccurrences,
         FirstAnchor <- CronAnchor, MaxLateness <- CronLateness

VARIABLES tick, latestTime, info

plannerVars == << tick, latestTime, info >>

StoredRows == {[P!NoRow EXCEPT !.status = s, !.attempt = a, !.nextRetry = n] :
                  s \in {"RUNNING", "SUCCESS", "FAILED"}, a \in 1 .. PlanAttempts,
                  n \in {P!NoTime} \cup 1 .. MaxNow}

\* next_retry_at is only set on FAILED rows with attempts left.
Storable(x) == x.nextRetry # P!NoTime => x.status = "FAILED" /\ x.attempt < PlanAttempts

PlannerInit ==
    /\ tick = PlanDelay
    /\ \/ latestTime = P!NoTime /\ info = P!NoRow
       \/ /\ latestTime \in {t \in 0 .. MaxNow : t % PlanCadence = 0}
          /\ info \in {x \in StoredRows : Storable(x)}

\* One input, for behaviours in which other components move.
PlannerIdle == tick = PlanDelay /\ latestTime = P!NoTime /\ info = P!NoRow

PlannerNext == tick < MaxNow /\ tick' = tick + 1 /\ UNCHANGED << latestTime, info >>

PlannerSpec == PlannerInit /\ [][PlannerNext]_plannerVars

-----------------------------------------------------------------------------

Elements(s) == {s[i] : i \in DOMAIN s}
RetryDue == P!RetryEligible(info, PlanAttempts, tick)

\* What every_plan owes at this tick: each grid plan that is eligible, inside
\* the catch-up window and not behind the newest stored row; with no history
\* only the newest eligible one.
Owed ==
    LET grid == {t \in 0 .. MaxNow : t % PlanCadence = 0 /\ t + PlanDelay <= tick}
        inWindow == {t \in grid : IF PlanWindow = 0 THEN \A u \in grid : u <= t
                                                       ELSE t >= tick - PlanWindow}
    IN {t \in inWindow : \/ t > latestTime /\ latestTime # P!NoTime
                         \/ t = latestTime /\ RetryDue
                         \/ latestTime = P!NoTime /\ \A u \in grid : u <= t}

\* every_plan returns the oldest PlansPerTick owed plans, oldest first.
EveryPlanIsOwedPrefix ==
    LET plans == P!EveryPlanPlans(latestTime, info, PlanAttempts, tick) IN
    /\ Elements(plans) \subseteq Owed
    /\ Len(plans) = P!Least(Cardinality(Owed), PlansPerTick)
    /\ \A i \in DOMAIN plans : Cardinality({t \in Owed : t < plans[i]}) = i - 1

\* The autopilot hook returns at most one plan: a due retry of the newest row,
\* or else an occurrence newer than it, not too late, with no newer one due.
AutopilotPlanIsNewestFresh ==
    LET plans == P!AutopilotPlans(latestTime, info, PlanAttempts, tick)
        due == {t \in CronOccurrences : t <= tick /\ t > latestTime /\ t > tick - PlanWindow
                                    /\ (latestTime = P!NoTime => t > CronAnchor)} IN
    IF latestTime # P!NoTime /\ RetryDue THEN plans = << latestTime >>
    ELSE /\ Len(plans) <= 1
         /\ Elements(plans) = {t \in due : tick - t <= CronLateness /\ \A u \in due : u <= t}
=============================================================================
