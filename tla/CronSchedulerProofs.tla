------------------------ MODULE CronSchedulerProofs ------------------------
(***************************************************************************)
(* Lease safety of CronScheduler for every number of instances, plan_times  *)
(* and attempts, with crashes, failing statements and ticks of any length;  *)
(* every_plan's order; and the planners against their references.          *)
(***************************************************************************)
EXTENDS CronScheduler, PlannerCheck, FiniteSetTheorems, FunctionTheorems,
        WellFoundedInduction, SequenceTheorems, TLAPS

-----------------------------------------------------------------------------
(* The planner only produces plan_times the clock has reached.                *)

\* A set of plan_times has a newest one.
LEMMA NewestOf ==
  ASSUME NEW S \in SUBSET Plans, S # {}
  PROVE  LET newest == CHOOSE p \in S : \A q \in S : q <= p
         IN newest \in S /\ \A q \in S : q <= newest
<1> DEFINE Back == {MaxTime - p : p \in S}
<1>1. S \subseteq Nat /\ \A p \in S : p <= MaxTime
  BY SchedulerAssumption DEF Plans
<1>2. Back \subseteq Nat /\ Back # {}
  <2>1. \A p \in S : MaxTime - p \in Nat
    BY <1>1, SchedulerAssumption
  <2> QED BY <2>1
<1>3. PICK b \in Back : \A c \in Back : b <= c
  <2> DEFINE Below == OpToRel(<, Nat)
  <2>1. IsWellFoundedOn(Below, Nat)
    BY NatLessThanWellFounded
  <2>2. \A x, y \in Nat : << y, x >> \in Below <=> y < x
    BY DEF OpToRel
  <2> HIDE DEF Back, Below
  <2>3. \E x \in Back : \A y \in Back : ~(<< y, x >> \in Below)
    BY <2>1, <1>2, WFMin
  <2>4. PICK x \in Back : \A y \in Back : ~(<< y, x >> \in Below)
    BY <2>3
  <2>5. ASSUME NEW y \in Back PROVE x <= y
    <3>1. x \in Nat /\ y \in Nat
      BY <1>2
    <3>2. ~(y < x)
      BY <3>1, <2>2, <2>4
    <3> QED BY <3>1, <3>2
  <2> QED BY <2>5
<1>4. PICK p \in S : b = MaxTime - p
  BY <1>3
<1>5. \A q \in S : q <= p
  <2> SUFFICES ASSUME NEW q \in S PROVE q <= p
    OBVIOUS
  <2>1. MaxTime - p <= MaxTime - q
    BY <1>3, <1>4
  <2> QED BY <2>1, <1>1, SchedulerAssumption
<1> QED BY <1>5

\* The newest stored plan_time is one of the stored ones, and none is newer.
LEMMA LatestIsNewest ==
  ASSUME Stored # {}
  PROVE  LatestTime \in Stored /\ \A q \in Stored : q <= LatestTime
<1>1. Stored \in SUBSET Plans
  BY DEF Stored
<1> QED BY <1>1, NewestOf DEF LatestTime

LEMMA LatestTimeType == LatestTime \in Plans \cup {NoTime}
BY LatestIsNewest DEF LatestTime, Stored

\* Rounding down to a multiple.
LEMMA MultipleBelow ==
  ASSUME NEW a \in Nat, NEW c \in Nat \ {0}
  PROVE  (a \div c) * c <= a /\ a \div c \in Nat /\ (a \div c) * c \in Nat
BY SMTT(30)

\* Multiples up to it.
LEMMA StepsBelow ==
  ASSUME NEW a \in Nat, NEW c \in Nat \ {0}, NEW i \in Nat, i <= a \div c
  PROVE  i * c <= a /\ i * c \in Nat
<1>1. (a \div c) * c <= a /\ a \div c \in Nat
  BY MultipleBelow
<1>2. i * c <= (a \div c) * c
  BY <1>1, SMTT(30)
<1> QED BY <1>1, <1>2

\* FloorPlan gives a time of the grid that is not in the future.
LEMMA FloorPlanType ==
  ASSUME NEW t \in Nat PROVE FloorPlan(t) \in 0 .. t
BY MultipleBelow, PlannerAssumption DEF FloorPlan

\* The newest eligible plan_time is one of the model's.
LEMMA EligibleType ==
  ASSUME NEW now \in Nat, ScheduleDelay <= now, now <= MaxTime
  PROVE  FloorPlan(now - ScheduleDelay) \in Plans
<1>1. now - ScheduleDelay \in Nat /\ now - ScheduleDelay <= MaxTime
  BY PlannerAssumption, SchedulerAssumption
<1>2. FloorPlan(now - ScheduleDelay) \in 0 .. (now - ScheduleDelay)
  BY <1>1, FloorPlanType
<1> QED BY <1>1, <1>2, SchedulerAssumption DEF Plans

\* every_plan attempts plan_times up to the tick's clock only.
LEMMA EveryPlanType ==
  ASSUME NEW newest \in Plans \cup {NoTime}, NEW x,
         NEW now \in Nat, ScheduleDelay <= now, now <= MaxTime
  PROVE  EveryPlanPlans(newest, x, MaxAttempts, now) \in Seq(Plans)
<1> DEFINE latest == FloorPlan(now - ScheduleDelay)
           oldestAllowed == IF CatchUpWindow = 0 THEN latest
                            ELSE Greatest(now - CatchUpWindow, 0)
           cursor == EveryPlanCursor(newest, x, MaxAttempts, now, latest)
           floor == FloorPlan(oldestAllowed)
           start == IF cursor >= oldestAllowed THEN cursor
                    ELSE IF floor < oldestAllowed THEN floor + Cadence ELSE floor
           due == IF start > latest THEN 0 ELSE (latest - start) \div Cadence + 1
           n == Least(due, MaxPlansPerTick)
<1>1. latest \in Plans
  BY EligibleType, PlannerAssumption, SchedulerAssumption
<1>2. oldestAllowed \in Nat
  BY <1>1, PlannerAssumption DEF Greatest, Plans
<1>3. cursor \in Nat
  BY <1>1, PlannerAssumption DEF EveryPlanCursor, Plans, NoTime
<1>4. floor \in Nat
  BY <1>2, FloorPlanType
<1>5. start \in Nat
  BY <1>2, <1>3, <1>4, PlannerAssumption
<1> HIDE DEF start, latest
<1>6. due \in Nat /\ (due # 0 => start <= latest /\ due - 1 = (latest - start) \div Cadence)
  BY <1>1, <1>5, MultipleBelow, PlannerAssumption DEF Plans
<1> HIDE DEF due
<1>7. n \in Nat /\ n <= due
  BY <1>6, PlannerAssumption DEF Least
<1>8. ASSUME NEW i \in 1 .. n PROVE start + (i - 1) * Cadence \in Plans
  <2>1. start <= latest /\ i - 1 \in Nat /\ i - 1 <= (latest - start) \div Cadence
    BY <1>6, <1>7, <1>8
  <2>2. latest - start \in Nat /\ Cadence \in Nat \ {0}
    BY <2>1, <1>1, <1>5, PlannerAssumption DEF Plans
  <2>3. (i - 1) * Cadence <= latest - start /\ (i - 1) * Cadence \in Nat
    <3> DEFINE a == latest - start
               k == i - 1
    <3> HIDE DEF a, k
    <3>1. k \in Nat /\ a \in Nat /\ k <= a \div Cadence
      BY <2>1, <2>2 DEF a, k
    <3>2. k * Cadence <= a /\ k * Cadence \in Nat
      BY <3>1, <2>2, StepsBelow
    <3> QED BY <3>2 DEF a, k
  <2> QED BY <2>3, <1>1, <1>5, SchedulerAssumption DEF Plans
<1> HIDE DEF n
<1>9. [i \in 1 .. n |-> start + (i - 1) * Cadence] \in Seq(Plans)
  BY <1>7, <1>8, IsASeq
<1> QED BY <1>9 DEF EveryPlanPlans, start, latest, due, n

\* Whatever the planner mode, a tick's plans are plan_times of the model.
LEMMA PlansForTickType ==
  ASSUME NEW newest \in Plans \cup {NoTime}, NEW x,
         NEW now \in Nat, ScheduleDelay <= now, now <= MaxTime
  PROVE  PlansForTick(newest, x, MaxAttempts, now) \in Seq(Plans)
<1>1. LatestOnlyPlans(now) \in Seq(Plans)
  <2>1. FloorPlan(now - ScheduleDelay) \in Plans
    BY EligibleType
  <2> QED BY <2>1 DEF LatestOnlyPlans
<1>2. EveryPlanPlans(newest, x, MaxAttempts, now) \in Seq(Plans)
  BY EveryPlanType
<1>3. AutopilotPlans(newest, x, MaxAttempts, now) \in Seq(Plans)
  <2> DEFINE anchor == IF newest # NoTime THEN newest ELSE FirstAnchor
             after == Greatest(anchor, now - CatchUpWindow)
             due == {t \in Occurrences : after < t /\ t <= now}
             fresh == {t \in due : (\A u \in due : u <= t) /\ now - t <= MaxLateness}
  <2>1. ASSUME NEW t \in fresh PROVE t \in Plans
    BY PlannerAssumption, SchedulerAssumption DEF Plans
  <2> HIDE DEF fresh
  <2>2. fresh # {} => (CHOOSE t \in fresh : TRUE) \in Plans
    BY <2>1
  <2>3. (IF fresh = {} THEN <<>> ELSE << CHOOSE t \in fresh : TRUE >>) \in Seq(Plans)
    BY <2>2
  <2>4. newest # NoTime => << newest >> \in Seq(Plans)
    OBVIOUS
  <2> QED BY <2>3, <2>4 DEF AutopilotPlans, fresh
<1> QED BY <1>1, <1>2, <1>3, PlannerAssumption DEF PlansForTick

-----------------------------------------------------------------------------
(* The inductive invariant.                                                   *)

\* A tick's clock reading is never ahead of the clock, nor before the start.
TicksNotAhead ==
    /\ ScheduleDelay <= clock
    /\ \A r \in Runners :
         /\ run[r].now <= clock
         /\ run[r].pc \notin {"idle", "down"} => ScheduleDelay <= run[r].now

\* A runner past its claim has the plan it works on.
BusyHasPlan ==
    \A r \in Runners : run[r].pc \in {"steal", "running", "finish"} => run[r].todo # <<>>

\* A row's token is the attempt that wrote it; an absent row has neither.
RowTokens ==
    \A p \in Plans : /\ row[p].token = row[p].attempt
                     /\ row[p].status = "none" => row[p].attempt = 0

\* A runner's token is one its row has had.
TokensIssued ==
    \A r \in Runners : Executing(r) =>
      1 <= run[r].token /\ run[r].token <= row[Plan(r)].token

\* No two runners were given the same token of a row.
TokensDistinct ==
    \A r, s \in Runners :
      Executing(r) /\ Executing(s) /\ r # s /\ Plan(r) = Plan(s) => run[r].token # run[s].token

\* What a step may do to the rows without breaking the last three: a token only
\* grows, and moves with its attempt.
TokensGrow ==
    \A p \in Plans :
      /\ row[p].token <= row'[p].token
      /\ row'[p].token = row'[p].attempt
      /\ row'[p].status = "none" => row'[p].attempt = 0

IInv == TypeOK /\ TicksNotAhead /\ BusyHasPlan /\ RowTokens /\ TokensIssued /\ TokensDistinct

\* The plan being processed is one of the model's.
LEMMA HeadType ==
  ASSUME TypeOK, NEW r \in Runners, run[r].todo # <<>>
  PROVE  Plan(r) \in Plans /\ Tail(run[r].todo) \in Seq(Plans)
BY HeadTailProperties DEF TypeOK, RunType, Plan

\* Tokens, attempts and clocks are numbers.
LEMMA Numbers ==
  ASSUME TypeOK
  PROVE  /\ \A p \in Plans : row[p].token \in Nat /\ row[p].attempt \in Nat
         /\ \A r \in Runners : run[r].token \in Nat /\ run[r].now \in Nat
<1>1. ASSUME NEW p \in Plans PROVE row[p].token \in Nat /\ row[p].attempt \in Nat
  <2>1. row[p] \in RowType
    BY DEF TypeOK
  <2> QED BY <2>1, SchedulerAssumption DEF RowType
<1>2. ASSUME NEW r \in Runners PROVE run[r].token \in Nat /\ run[r].now \in Nat
  <2>1. run[r] \in RunType
    BY DEF TypeOK
  <2> QED BY <2>1, SchedulerAssumption DEF RunType
<1> QED BY <1>1, <1>2

\* A runner outside processPlan is well typed.
LEMMA BetweenType ==
  ASSUME NEW pc \in {"idle", "sweep", "next", "down"}, NEW now \in Nat,
         NEW todo \in Seq(Plans), NEW gaveUp \in SUBSET Plans
  PROVE  Between(pc, now, todo, gaveUp) \in RunType
<1>1. 0 \in 0 .. MaxAttempts
  BY SchedulerAssumption
<1> QED BY <1>1 DEF Between, RunType

\* The empty table satisfies the invariant.
LEMMA InitIInv == Init => IInv
<1> SUFFICES ASSUME Init PROVE IInv
  OBVIOUS
<1> USE DEF Init
<1>1. Idle \in RunType
  <2>1. <<>> \in Seq(Plans) /\ 0 \in Nat
    OBVIOUS
  <2> QED BY <2>1, BetweenType DEF Idle
<1>2. NoRow \in RowType
  BY SchedulerAssumption DEF NoRow, RowType, NoTime
<1>3. TypeOK
  BY <1>1, <1>2, PlannerAssumption, SchedulerAssumption DEF TypeOK
<1>4. TicksNotAhead
  BY PlannerAssumption DEF TicksNotAhead, Idle, Between
<1>5. BusyHasPlan /\ TokensIssued /\ TokensDistinct
  BY DEF BusyHasPlan, TokensIssued, TokensDistinct, Executing, Idle, Between
<1>6. RowTokens
  BY DEF RowTokens, NoRow
<1> QED BY <1>3, <1>4, <1>5, <1>6 DEF IInv

\* Steps that leave the rows alone and touch one runner, not into execution.
LEMMA RunnerStep ==
  ASSUME IInv, NEW r \in Runners, NEW x \in RunType,
         run' = [run EXCEPT ![r] = x], UNCHANGED << row, clock >>,
         crashes' \in 0 .. MaxCrashes,
         x.now <= clock, x.pc \notin {"idle", "down"} => ScheduleDelay <= x.now,
         x.pc \in {"steal", "running", "finish"} => x.todo # <<>>,
         x.pc \in {"running", "finish"} =>
           run[r].pc \in {"running", "finish"} /\ x.todo = run[r].todo /\ x.token = run[r].token
  PROVE  IInv'
<1>1. TypeOK'
  BY DEF IInv, TypeOK
<1>2. TicksNotAhead'
  BY DEF IInv, TypeOK, TicksNotAhead
<1>3. BusyHasPlan'
  BY DEF IInv, TypeOK, BusyHasPlan
<1>4. RowTokens'
  BY DEF IInv, RowTokens
<1>5. ASSUME NEW s \in Runners, Executing(s)'
      PROVE  Executing(s) /\ Plan(s)' = Plan(s) /\ run'[s].token = run[s].token
  BY <1>5 DEF IInv, TypeOK, Executing, Plan
<1>6. TokensIssued'
  BY <1>5 DEF IInv, TokensIssued
<1>7. TokensDistinct'
  BY <1>5 DEF IInv, TokensDistinct
<1> QED BY <1>1, <1>2, <1>3, <1>4, <1>6, <1>7 DEF IInv

\* The same place in the same tick, with the same token.
SamePlace(x, y) == y.pc = x.pc /\ y.now = x.now /\ y.todo = x.todo /\ y.token = x.token

\* Steps that move only the clock and rows, each row keeping its token or being
\* leased anew, with every runner where it was.
LEMMA RowStep ==
  ASSUME IInv, row' \in [Plans -> RowType], run' \in [Runners -> RunType],
         \A r \in Runners : SamePlace(run[r], run'[r]),
         crashes' = crashes, clock' \in 0 .. MaxTime, clock <= clock',
         TokensGrow
  PROVE  IInv'
<1>1. TypeOK'
  BY DEF IInv, TypeOK
<1>2. TicksNotAhead'
  <2>1. clock \in Nat /\ clock' \in Nat /\ ScheduleDelay \in Nat
    BY PlannerAssumption, SchedulerAssumption DEF IInv, TypeOK
  <2>2. \A r \in Runners : run[r].now \in Nat
    BY DEF IInv, TypeOK, RunType
  <2> QED BY <2>1, <2>2 DEF IInv, TicksNotAhead, SamePlace
<1>3. BusyHasPlan' /\ RowTokens' /\ TokensDistinct'
  BY DEF IInv, BusyHasPlan, RowTokens, TokensDistinct, Executing, Plan, TokensGrow, SamePlace
<1>4. TokensIssued'
  <2> SUFFICES ASSUME NEW r \in Runners, Executing(r)
               PROVE  1 <= run[r].token /\ run[r].token <= row'[Plan(r)].token
    BY DEF TokensIssued, Executing, Plan, SamePlace
  <2>1. Plan(r) \in Plans
    BY HeadType DEF IInv, Executing, BusyHasPlan
  <2>2. 1 <= run[r].token /\ run[r].token <= row[Plan(r)].token
    BY DEF IInv, TokensIssued
  <2>3. run[r].token \in Nat /\ row[Plan(r)].token \in Nat
    BY <2>1, Numbers DEF IInv
  <2>5. row'[Plan(r)].token \in Nat
    <3>1. row'[Plan(r)] \in RowType
      BY <2>1
    <3> QED BY <3>1, SchedulerAssumption DEF RowType
  <2>4. row[Plan(r)].token <= row'[Plan(r)].token
    BY <2>1 DEF TokensGrow
  <2> QED BY <2>2, <2>3, <2>4, <2>5
<1> QED BY <1>1, <1>2, <1>3, <1>4 DEF IInv

\* A new lease on row p is a well-typed row with the next token.
LEMMA LeasedRow ==
  ASSUME IInv, NEW r \in Runners, NEW p \in Plans, row[p].attempt < MaxAttempts
  PROVE  LET x == Leased(r, row[p].attempt + 1) IN
         /\ x \in RowType
         /\ x.status = "RUNNING"
         /\ x.token = row[p].token + 1
         /\ x.attempt = x.token
<1>1. row[p].attempt \in Nat /\ row[p].attempt = row[p].token
  BY SchedulerAssumption DEF IInv, TypeOK, RowType, RowTokens
<1>2. run[r].now + StaleTimeout \in Int
  BY SchedulerAssumption DEF IInv, TypeOK, RunType
<1> QED BY <1>1, <1>2, SchedulerAssumption DEF Leased, RowType, NoTime

\* A claim hands the row's next token to one runner.
LEMMA TakeLeaseStep ==
  ASSUME IInv, NEW r \in Runners, run[r].pc \in {"next", "steal"}, run[r].todo # <<>>,
         row[Plan(r)].attempt < MaxAttempts,
         TakeLease(r, Leased(r, row[Plan(r)].attempt + 1)),
         UNCHANGED << clock, crashes >>
  PROVE  IInv'
<1> DEFINE p == Plan(r)
           x == Leased(r, row[p].attempt + 1)
<1>1. p \in Plans
  BY HeadType DEF IInv
<1>2. /\ x \in RowType /\ x.status = "RUNNING"
      /\ x.token = row[p].token + 1 /\ x.attempt = x.token
  BY <1>1, LeasedRow
<1>3. row[p].token \in Nat
  BY <1>1, SchedulerAssumption DEF IInv, TypeOK, RowType
<1>4. /\ row' = [row EXCEPT ![p] = x]
      /\ run' = [run EXCEPT ![r] = [@ EXCEPT !.pc = "running", !.attempt = x.attempt,
                                            !.token = x.token, !.beat = clock,
                                            !.late = x.staleAfter < clock + HeartbeatInterval]]
  BY DEF TakeLease
<1> HIDE DEF x, p
<1>5. TypeOK'
  <2>1. run' \in [Runners -> RunType]
    <3> DEFINE late == x.staleAfter < clock + HeartbeatInterval
    <3>1. x.attempt \in 0 .. MaxAttempts /\ x.token \in 0 .. MaxAttempts
      BY <1>2 DEF RowType
    <3>2. clock \in Nat /\ late \in BOOLEAN
      BY SchedulerAssumption DEF IInv, TypeOK
    <3>3. run' = [run EXCEPT ![r] = [@ EXCEPT !.pc = "running", !.attempt = x.attempt,
                                             !.token = x.token, !.beat = clock, !.late = late]]
      BY <1>4
    <3> HIDE DEF late
    <3>4. [run[r] EXCEPT !.pc = "running", !.attempt = x.attempt, !.token = x.token,
                         !.beat = clock, !.late = late] \in RunType
      BY <3>1, <3>2 DEF IInv, TypeOK, RunType
    <3> QED BY <3>3, <3>4 DEF IInv, TypeOK
  <2> QED BY <1>1, <1>2, <1>4, <2>1 DEF IInv, TypeOK
<1>6. /\ \A s \in Runners : run'[s].todo = run[s].todo /\ run'[s].now = run[s].now
      /\ \A s \in Runners \ {r} : run'[s] = run[s]
      /\ run'[r].token = x.token /\ run'[r].pc = "running"
  BY <1>4 DEF IInv, TypeOK, RunType
<1>7. TicksNotAhead'
  BY <1>6 DEF IInv, TicksNotAhead
<1>8. BusyHasPlan'
  BY <1>6 DEF IInv, BusyHasPlan
<1>9. RowTokens'
  BY <1>1, <1>2, <1>4 DEF IInv, TypeOK, RowTokens
<1>10. ASSUME NEW s \in Runners, s # r, Executing(s)'
       PROVE  /\ Executing(s) /\ Plan(s)' = Plan(s) /\ run'[s].token = run[s].token
              /\ Plan(s) \in Plans /\ run[s].token \in Nat /\ row[Plan(s)].token \in Nat
              /\ 1 <= run[s].token /\ run[s].token <= row[Plan(s)].token
  <2>1. Executing(s) /\ Plan(s)' = Plan(s) /\ run'[s].token = run[s].token
    BY <1>6, <1>10 DEF Executing, Plan
  <2>2. Plan(s) \in Plans
    BY <2>1, HeadType DEF IInv, BusyHasPlan, Executing
  <2> QED BY <2>1, <2>2, SchedulerAssumption DEF IInv, TokensIssued, TypeOK, RowType, RunType
<1>11. Plan(r)' = p
  BY <1>6 DEF Plan, p
<1>12. TokensIssued'
  <2> SUFFICES ASSUME NEW s \in Runners, Executing(s)'
               PROVE  1 <= run'[s].token /\ run'[s].token <= row'[Plan(s)'].token
    BY DEF TokensIssued
  <2>1. CASE s = r
    BY <2>1, <1>1, <1>2, <1>3, <1>4, <1>6, <1>11 DEF IInv, TypeOK
  <2>2. CASE s # r
    <3>1. row[Plan(s)].token <= row'[Plan(s)].token
      BY <2>2, <1>1, <1>2, <1>3, <1>4, <1>10 DEF IInv, TypeOK
    <3>2. row'[Plan(s)].token \in Nat
      BY <2>2, <1>5, <1>10, SchedulerAssumption DEF TypeOK, RowType
    <3> QED BY <2>2, <3>1, <3>2, <1>10
  <2> QED BY <2>1, <2>2
<1>13. TokensDistinct'
  <2>1. ASSUME NEW s \in Runners, s # r, Executing(s)', Plan(s)' = p
        PROVE  run'[s].token # x.token
    BY <2>1, <1>2, <1>3, <1>10
  <2>2. ASSUME NEW s \in Runners, NEW t \in Runners, s # r, t # r, s # t,
               Executing(s)', Executing(t)', Plan(s)' = Plan(t)'
        PROVE  run'[s].token # run'[t].token
    BY <2>2, <1>10 DEF IInv, TokensDistinct
  <2> QED BY <2>1, <2>2, <1>6, <1>11 DEF TokensDistinct
<1> QED BY <1>5, <1>7, <1>8, <1>9, <1>12, <1>13 DEF IInv

LEMMA NextPlanRecord ==
  ASSUME IInv, NEW r \in Runners, run[r].todo # <<>>, NEW gaveUp \in SUBSET Plans
  PROVE  LET x == Between("next", run[r].now, Tail(run[r].todo), gaveUp) IN
         x \in RunType /\ x.now = run[r].now /\ x.pc = "next"
<1>1. Tail(run[r].todo) \in Seq(Plans)
  BY HeadType DEF IInv
<1>2. run[r].now \in Nat
  BY Numbers DEF IInv
<1>3. "next" \in {"idle", "sweep", "next", "down"}
  OBVIOUS
<1>4. Between("next", run[r].now, Tail(run[r].todo), gaveUp) \in RunType
  BY <1>1, <1>2, <1>3, BetweenType
<1> QED BY <1>4 DEF Between

\* Rows change, each keeping its token or being leased anew, while one runner
\* that executes nothing afterwards moves.
LEMMA LeaveExecution ==
  ASSUME IInv, NEW r \in Runners, NEW x \in RunType, run' = [run EXCEPT ![r] = x],
         x.pc \notin {"steal", "running", "finish"}, x.now <= clock,
         x.pc \notin {"idle", "down"} => ScheduleDelay <= x.now,
         clock' = clock, crashes' \in 0 .. MaxCrashes, row' \in [Plans -> RowType],
         TokensGrow
  PROVE  IInv'
<1>1. TypeOK'
  BY DEF IInv, TypeOK
<1>2. run'[r] = x /\ \A s \in Runners \ {r} : run'[s] = run[s]
  BY DEF IInv, TypeOK
<1>3. TicksNotAhead' /\ BusyHasPlan'
  BY <1>2 DEF IInv, TicksNotAhead, BusyHasPlan
<1>4. RowTokens'
  BY DEF RowTokens, TokensGrow
<1>5. ASSUME NEW s \in Runners, Executing(s)'
      PROVE  /\ s # r /\ Executing(s) /\ Plan(s)' = Plan(s) /\ run'[s].token = run[s].token
             /\ Plan(s) \in Plans
  BY <1>2, <1>5, HeadType DEF IInv, Executing, Plan, BusyHasPlan
<1>6. TokensIssued'
  <2> SUFFICES ASSUME NEW s \in Runners, Executing(s)'
               PROVE  1 <= run[s].token /\ run[s].token <= row'[Plan(s)].token
    BY <1>5 DEF TokensIssued
  <2>1. 1 <= run[s].token /\ run[s].token <= row[Plan(s)].token
    BY <1>5 DEF IInv, TokensIssued
  <2>2. Plan(s) \in Plans
    BY <1>5
  <2>3. run[s].token \in Nat /\ row[Plan(s)].token \in Nat
    BY <2>2, Numbers DEF IInv
  <2>5. row'[Plan(s)].token \in Nat
    <3>1. row'[Plan(s)] \in RowType
      BY <2>2
    <3> QED BY <3>1, SchedulerAssumption DEF RowType
  <2>4. row[Plan(s)].token <= row'[Plan(s)].token
    BY <2>2 DEF TokensGrow
  <2> QED BY <2>1, <2>3, <2>4, <2>5
<1>7. TokensDistinct'
  BY <1>5 DEF IInv, TokensDistinct
<1> QED BY <1>1, <1>3, <1>4, <1>6, <1>7 DEF IInv

SameLease(x, y) ==
    /\ y.token = x.token
    /\ y.attempt = x.attempt
    /\ y.status = "none" => x.status = "none"

\* Rows that change without losing their token and attempt meet the
\* condition of RowStep and LeaveExecution.
LEMMA SameTokens ==
  ASSUME IInv, row' \in [Plans -> RowType],
         \A p \in Plans : SameLease(row[p], row'[p])
  PROVE  TokensGrow
<1>1. \A p \in Plans : row[p].token \in Nat
  BY SchedulerAssumption DEF IInv, TypeOK, RowType
<1> QED BY <1>1 DEF IInv, RowTokens, SameLease, TokensGrow

\* A leased row meets it too.
LEMMA LeasedTokens ==
  ASSUME IInv, NEW r \in Runners, NEW p \in Plans, row[p].attempt < MaxAttempts,
         row' = [row EXCEPT ![p] = Leased(r, row[p].attempt + 1)]
  PROVE  /\ row' \in [Plans -> RowType]
         /\ TokensGrow
<1>1. row' \in [Plans -> RowType]
  BY LeasedRow DEF IInv, TypeOK
<1>2. ASSUME NEW q \in Plans
      PROVE  /\ row[q].token <= row'[q].token
             /\ row'[q].token = row'[q].attempt
             /\ row'[q].status = "none" => row'[q].attempt = 0
  <2>1. row[q].token \in Nat /\ row[p].token \in Nat
    BY SchedulerAssumption DEF IInv, TypeOK, RowType
  <2>2. CASE q = p
    BY <2>1, <2>2, LeasedRow DEF IInv, TypeOK
  <2>3. CASE q # p
    BY <2>1, <2>3 DEF IInv, TypeOK, RowTokens
  <2> QED BY <2>2, <2>3
<1> QED BY <1>1, <1>2 DEF TokensGrow

\* A runner stops or goes idle.
LEMMA IdleStep ==
  ASSUME IInv, NEW r \in Runners,
         run' = [run EXCEPT ![r] = Idle] \/ run' = [run EXCEPT ![r] = Down],
         UNCHANGED << row, clock >>, crashes' \in 0 .. MaxCrashes
  PROVE  IInv'
<1>1. /\ <<>> \in Seq(Plans) /\ 0 \in Nat
      /\ "idle" \in {"idle", "sweep", "next", "down"} /\ "down" \in {"idle", "sweep", "next", "down"}
  OBVIOUS
<1>2. Idle \in RunType /\ Idle.pc = "idle" /\ Idle.now = 0
  <2>1. Idle \in RunType
    BY <1>1, BetweenType DEF Idle
  <2> QED BY <2>1 DEF Idle, Between
<1>3. Down \in RunType /\ Down.pc = "down" /\ Down.now = 0
  <2>1. Down \in RunType
    BY <1>1, BetweenType DEF Down
  <2> QED BY <2>1 DEF Down, Between
<1>4. 0 <= clock
  BY SchedulerAssumption DEF IInv, TypeOK
<1>5. CASE run' = [run EXCEPT ![r] = Idle]
  BY <1>2, <1>4, <1>5, RunnerStep
<1>6. CASE run' = [run EXCEPT ![r] = Down]
  BY <1>3, <1>4, <1>6, RunnerStep
<1> QED BY <1>5, <1>6

\* A runner leaves processPlan, whatever it did to the row.
LEMMA NextPlanStep ==
  ASSUME IInv, NEW r \in Runners, run[r].pc \notin {"idle", "down"}, run[r].todo # <<>>,
         NEW gaveUp \in SUBSET Plans, NextPlan(r, gaveUp), clock' = clock, crashes' = crashes,
         row' \in [Plans -> RowType], TokensGrow
  PROVE  IInv'
<1> DEFINE x == Between("next", run[r].now, Tail(run[r].todo), gaveUp)
<1>1. x \in RunType /\ x.now = run[r].now /\ x.pc = "next"
  BY NextPlanRecord
<1>2. run' = [run EXCEPT ![r] = x]
  BY DEF NextPlan
<1> HIDE DEF x
<1>3. x.now <= clock /\ ScheduleDelay <= x.now
  BY <1>1 DEF IInv, TicksNotAhead
<1>4. crashes' \in 0 .. MaxCrashes
  BY DEF IInv, TypeOK
<1> QED BY <1>1, <1>2, <1>3, <1>4, LeaveExecution

\* The same plan, token and tick, before and after a step of the handler.
SameWork(x, y) ==
    /\ x.pc = "running" /\ y.pc \in {"running", "finish"}
    /\ y.now = x.now /\ y.todo = x.todo /\ y.token = x.token

\* The handler beats or returns.
LEMMA WorkStep ==
  ASSUME IInv, NEW r \in Runners, NEW x \in RunType, run' = [run EXCEPT ![r] = x],
         SameWork(run[r], x), clock' = clock, crashes' = crashes,
         row' \in [Plans -> RowType], TokensGrow
  PROVE  IInv'
<1>1. TypeOK'
  BY DEF IInv, TypeOK
<1>2. run'[r] = x /\ \A s \in Runners \ {r} : run'[s] = run[s]
  BY DEF IInv, TypeOK
<1>3. TicksNotAhead' /\ BusyHasPlan'
  BY <1>2 DEF IInv, TicksNotAhead, BusyHasPlan, SameWork
<1>4. RowTokens'
  BY DEF RowTokens, TokensGrow
<1>5. ASSUME NEW s \in Runners, Executing(s)'
      PROVE  /\ Executing(s) /\ Plan(s)' = Plan(s) /\ run'[s].token = run[s].token
             /\ Plan(s) \in Plans
  <2>1. Executing(s) /\ run'[s].todo = run[s].todo /\ run'[s].token = run[s].token
    BY <1>2, <1>5 DEF Executing, SameWork
  <2> QED BY <2>1, HeadType DEF IInv, Executing, Plan, BusyHasPlan
<1>6. TokensIssued'
  <2> SUFFICES ASSUME NEW s \in Runners, Executing(s)'
               PROVE  1 <= run[s].token /\ run[s].token <= row'[Plan(s)].token
    BY <1>5 DEF TokensIssued
  <2>1. 1 <= run[s].token /\ run[s].token <= row[Plan(s)].token
    BY <1>5 DEF IInv, TokensIssued
  <2>2. Plan(s) \in Plans
    BY <1>5
  <2>3. run[s].token \in Nat /\ row[Plan(s)].token \in Nat
    BY <2>2, Numbers DEF IInv
  <2>4. row'[Plan(s)].token \in Nat
    <3>1. row'[Plan(s)] \in RowType
      BY <2>2
    <3> QED BY <3>1, SchedulerAssumption DEF RowType
  <2>5. row[Plan(s)].token <= row'[Plan(s)].token
    BY <2>2 DEF TokensGrow
  <2> QED BY <2>1, <2>3, <2>4, <2>5
<1>7. TokensDistinct'
  BY <1>5 DEF IInv, TokensDistinct
<1> QED BY <1>1, <1>3, <1>4, <1>6, <1>7 DEF IInv

\* next_retry_at is a time or NULL.
LEMMA RetryAtType ==
  ASSUME IInv, NEW r \in Runners PROVE NextRetryAt(r) \in Int
<1>1. run[r].attempt \in Nat /\ run[r].beat \in Nat
  BY SchedulerAssumption DEF IInv, TypeOK, RunType
<1>2. RetryDelay(run[r].attempt) \in Int
  <2> DEFINE i == Least(Greatest(run[r].attempt, 1), Len(RetryBackoff))
  <2>1. CASE RetryBackoff # <<>>
    <3>1. Len(RetryBackoff) \in Nat \ {0}
      BY <2>1, PlannerAssumption
    <3>2. i \in 1 .. Len(RetryBackoff)
      BY <1>1, <3>1 DEF Least, Greatest
    <3>3. RetryBackoff[i] \in Nat
      BY <3>2, PlannerAssumption
    <3> QED BY <2>1, <3>3 DEF RetryDelay
  <2> QED BY <2>1 DEF RetryDelay
<1> QED BY <1>1, <1>2 DEF NextRetryAt, NoTime

\* While time passes every runner stays where it is.
LEMMA Waiting ==
  ASSUME TypeOK, AdvanceClock
  PROVE  /\ run' \in [Runners -> RunType]
         /\ \A r \in Runners : SamePlace(run[r], run'[r])
         /\ \A r \in Runners : /\ run'[r].beat = run[r].beat
                               /\ run'[r].gaveUp = run[r].gaveUp
                               /\ ~run'[r].late => ~run[r].late /\ ~Overdue(r)
<1>1. run' = [r \in Runners |-> [run[r] EXCEPT !.late = @ \/ Overdue(r)]]
  BY DEF AdvanceClock
<1>2. ASSUME NEW r \in Runners
      PROVE  /\ run'[r] \in RunType /\ SamePlace(run[r], run'[r])
             /\ run'[r].beat = run[r].beat /\ run'[r].gaveUp = run[r].gaveUp
             /\ run'[r].late = (run[r].late \/ Overdue(r))
  <2>1. run[r] \in RunType /\ run'[r] = [run[r] EXCEPT !.late = run[r].late \/ Overdue(r)]
    BY <1>1 DEF TypeOK
  <2>2. Overdue(r) \in BOOLEAN
    BY DEF Overdue
  <2> HIDE DEF Overdue
  <2> QED BY <2>1, <2>2 DEF RunType, SamePlace
<1> QED BY <1>1, <1>2

\* Every step keeps the invariant.
LEMMA NextIInv == IInv /\ [Next]_vars => IInv'
<1> SUFFICES ASSUME IInv, [Next]_vars PROVE IInv'
  OBVIOUS
<1>a. /\ clock \in Nat /\ clock \in 0 .. MaxTime /\ crashes \in 0 .. MaxCrashes
      /\ row \in [Plans -> RowType] /\ run \in [Runners -> RunType]
  BY SchedulerAssumption DEF IInv, TypeOK
<1>1. CASE AdvanceClock
  <2>1. clock' \in 0 .. MaxTime /\ clock <= clock'
    BY <1>1, <1>a, SchedulerAssumption DEF AdvanceClock
  <2>2. UNCHANGED << row, crashes >>
    BY <1>1 DEF AdvanceClock
  <2>3. TokensGrow
    BY <1>a, <2>2, SameTokens DEF SameLease
  <2>4. run' \in [Runners -> RunType] /\ \A r \in Runners : SamePlace(run[r], run'[r])
    BY <1>1, Waiting DEF IInv
  <2> QED BY <1>a, <2>1, <2>2, <2>3, <2>4, RowStep
<1>2. ASSUME NEW r \in Runners, StartTick(r) PROVE IInv'
  <2> DEFINE x == Between("sweep", clock, <<>>, {})
  <2>1. run' = [run EXCEPT ![r] = x] /\ UNCHANGED << row, clock, crashes >>
    BY <1>2 DEF StartTick
  <2>2. <<>> \in Seq(Plans) /\ "sweep" \in {"idle", "sweep", "next", "down"}
    OBVIOUS
  <2>3. x \in RunType /\ x.now = clock /\ x.pc = "sweep"
    <3>1. x \in RunType
      BY <1>a, <2>2, BetweenType
    <3> QED BY <3>1 DEF Between
  <2> HIDE DEF x
  <2>4. x.now <= clock /\ ScheduleDelay <= x.now
    BY <1>a, <2>3 DEF IInv, TicksNotAhead
  <2> QED BY <1>a, <2>1, <2>3, <2>4, RunnerStep
<1>3. ASSUME NEW r \in Runners, MarkStaleAsFailed(r) PROVE IInv'
  <2> DEFINE x == [run[r] EXCEPT !.pc = "plan"]
  <2>1. /\ row' \in [Plans -> RowType]
        /\ \A p \in Plans : SameLease(row[p], row'[p])
    <3>1. CASE UNCHANGED row
      BY <3>1, <1>a DEF SameLease
    <3>2. CASE row' = [p \in Plans |-> IF Stale(p, run[r].now) THEN Closed(row[p]) ELSE row[p]]
      <4>1. \A p \in Plans : /\ Closed(row[p]) \in RowType
                             /\ Closed(row[p]).token = row[p].token
                             /\ Closed(row[p]).attempt = row[p].attempt
                             /\ Closed(row[p]).status = "FAILED"
        BY <1>a DEF Closed, RowType
      <4> QED BY <1>a, <3>2, <4>1 DEF SameLease
    <3> QED BY <1>3, <3>1, <3>2 DEF MarkStaleAsFailed
  <2>2. run' = [run EXCEPT ![r] = x] /\ UNCHANGED << clock, crashes >>
    BY <1>3, <1>a DEF MarkStaleAsFailed, Goto
  <2>3. x \in RunType /\ x.pc = "plan" /\ x.now = run[r].now
    BY <1>a DEF RunType
  <2>4. run[r].pc = "sweep"
    BY <1>3 DEF MarkStaleAsFailed
  <2> HIDE DEF x
  <2>5. x.now <= clock /\ ScheduleDelay <= x.now
    BY <2>3, <2>4 DEF IInv, TicksNotAhead
  <2>6. TokensGrow
    BY <2>1, SameTokens
  <2> QED BY <1>a, <2>1, <2>2, <2>3, <2>5, <2>6, LeaveExecution
<1>4. ASSUME NEW r \in Runners, PlanTick(r) PROVE IInv'
  <2>1. UNCHANGED << clock, row, crashes >> /\ run[r].pc = "plan" /\ run[r] \in RunType
    BY <1>4, <1>a DEF PlanTick
  <2>2. CASE run' = [run EXCEPT ![r] = Idle]
    BY <1>a, <2>1, <2>2, IdleStep
  <2> DEFINE plans == PlansForTick(LatestTime, LatestInfo, MaxAttempts, run[r].now)
  <2>3. CASE run' = [run EXCEPT ![r].pc = "next", ![r].todo = plans,
                                ![r].gaveUp = BeforeFirst(plans)]
    <3> DEFINE x == [run[r] EXCEPT !.pc = "next", !.todo = plans, !.gaveUp = BeforeFirst(plans)]
    <3>1. run[r].now \in Nat /\ run[r].now <= clock /\ ScheduleDelay <= run[r].now
      BY <2>1, Numbers DEF IInv, TicksNotAhead
    <3>2. run[r].now <= MaxTime
      BY <3>1, <1>a, SchedulerAssumption
    <3>3. plans \in Seq(Plans)
      BY <3>1, <3>2, LatestTimeType, PlansForTickType
    <3>4. run' = [run EXCEPT ![r] = x]
      BY <1>a, <2>3
    <3> HIDE DEF plans
    <3>6. BeforeFirst(plans) \in SUBSET Plans
      BY DEF BeforeFirst
    <3>5. x \in RunType /\ x.pc = "next" /\ x.now = run[r].now
      BY <2>1, <3>3, <3>6 DEF RunType
    <3> HIDE DEF x
    <3> QED BY <1>a, <2>1, <3>1, <3>4, <3>5, RunnerStep
  <2> QED BY <1>4, <2>2, <2>3 DEF PlanTick
<1>5. ASSUME NEW r \in Runners, EndTick(r) PROVE IInv'
  BY <1>a, <1>5, IdleStep DEF EndTick
<1>6. ASSUME NEW r \in Runners, ClaimInsert(r) PROVE IInv'
  <2>1. run[r].pc = "next" /\ run[r].todo # <<>> /\ UNCHANGED << clock, crashes >>
    BY <1>6 DEF ClaimInsert
  <2>2. Plan(r) \in Plans
    BY <2>1, HeadType DEF IInv
  <2>3. CASE row[Plan(r)].status = "none" /\ TakeLease(r, Leased(r, 1))
    <3>1. row[Plan(r)].attempt = 0 /\ 0 < MaxAttempts
      BY <2>2, <2>3, SchedulerAssumption DEF IInv, RowTokens
    <3>2. TakeLease(r, Leased(r, row[Plan(r)].attempt + 1))
      BY <2>3, <3>1
    <3> QED BY <2>1, <3>1, <3>2, TakeLeaseStep
  <2>4. CASE Goto(r, "steal") /\ UNCHANGED row
    <3> DEFINE x == [run[r] EXCEPT !.pc = "steal"]
    <3>1. run' = [run EXCEPT ![r] = x]
      BY <1>a, <2>4 DEF Goto
    <3>2. x \in RunType /\ x.pc = "steal" /\ x.now = run[r].now /\ x.todo = run[r].todo
      BY <1>a DEF RunType
    <3> HIDE DEF x
    <3>3. x.now <= clock /\ ScheduleDelay <= x.now
      BY <2>1, <3>2 DEF IInv, TicksNotAhead
    <3> QED BY <1>a, <2>1, <2>4, <3>1, <3>2, <3>3, RunnerStep
  <2> QED BY <1>6, <2>3, <2>4 DEF ClaimInsert
<1>7. ASSUME NEW r \in Runners, ClaimSteal(r) PROVE IInv'
  <2>1. run[r].pc = "steal" /\ run[r].todo # <<>> /\ UNCHANGED << clock, crashes >>
    BY <1>7 DEF ClaimSteal, IInv, BusyHasPlan
  <2>2. CASE Claimable(row[Plan(r)], run[r].now)
             /\ TakeLease(r, Leased(r, row[Plan(r)].attempt + 1))
    <3>1. row[Plan(r)].attempt < MaxAttempts
      BY <2>2 DEF Claimable
    <3> QED BY <2>1, <2>2, <3>1, TakeLeaseStep
  <2>3. CASE NextPlan(r, run[r].gaveUp) /\ UNCHANGED row
    <3>1. row' \in [Plans -> RowType] /\ TokensGrow
      BY <1>a, <2>3, SameTokens DEF SameLease
    <3> QED BY <1>a, <2>1, <2>3, <3>1, NextPlanStep DEF RunType
  <2> QED BY <1>7, <2>2, <2>3 DEF ClaimSteal
<1>8. ASSUME NEW r \in Runners, ClaimError(r) PROVE IInv'
  <2>1. /\ run[r].pc \in {"next", "steal"} /\ run[r].todo # <<>>
        /\ NextPlan(r, run[r].gaveUp \cup {Plan(r)}) /\ UNCHANGED << clock, crashes >>
    BY <1>8 DEF ClaimError, IInv, BusyHasPlan
  <2>2. Plan(r) \in Plans
    BY <2>1, HeadType DEF IInv
  <2>3. row' \in [Plans -> RowType] /\ TokensGrow
    <3>1. CASE UNCHANGED row
      BY <1>a, <3>1, SameTokens DEF SameLease
    <3>2. CASE /\ \/ row[Plan(r)].status = "none"
                  \/ Claimable(row[Plan(r)], run[r].now)
               /\ row' = [row EXCEPT ![Plan(r)] = Leased(r, row[Plan(r)].attempt + 1)]
      <4>1. row[Plan(r)].attempt < MaxAttempts
        BY <2>2, <3>2, SchedulerAssumption DEF Claimable, IInv, RowTokens
      <4> QED BY <2>2, <3>2, <4>1, LeasedTokens
    <3> QED BY <1>8, <3>1, <3>2 DEF ClaimError
  <2>4. run[r].gaveUp \cup {Plan(r)} \in SUBSET Plans
    BY <1>a, <2>2 DEF RunType
  <2> QED BY <1>a, <2>1, <2>3, <2>4, NextPlanStep
<1>9. ASSUME NEW r \in Runners, Heartbeat(r) PROVE IInv'
  <2> DEFINE x == [run[r] EXCEPT !.beat = clock]
             y == [row[Plan(r)] EXCEPT !.staleAfter = RenewedLease(r)]
  <2>1. run[r].pc = "running" /\ run[r].todo # <<>> /\ UNCHANGED << clock, crashes >>
    BY <1>9 DEF Heartbeat, IInv, BusyHasPlan
  <2>2. Plan(r) \in Plans
    BY <2>1, HeadType DEF IInv
  <2>3. row' \in [Plans -> RowType] /\ \A p \in Plans : SameLease(row[p], row'[p])
    <3>1. y \in RowType /\ SameLease(row[Plan(r)], y)
      BY <1>a, <2>2, SchedulerAssumption DEF RenewedLease, RowType, SameLease
    <3>2. row' = row \/ row' = [row EXCEPT ![Plan(r)] = y]
      BY <1>9, <1>a, <2>2 DEF Heartbeat
    <3> HIDE DEF y
    <3> QED BY <1>a, <2>2, <3>1, <3>2 DEF SameLease
  <2>4. TokensGrow
    BY <2>3, SameTokens
  <2>5. run' = [run EXCEPT ![r] = x]
    BY <1>9, <1>a DEF Heartbeat
  <2>6. x \in RunType /\ SameWork(run[r], x)
    BY <1>a, <2>1 DEF RunType, SameWork
  <2> HIDE DEF x
  <2> QED BY <2>1, <2>3, <2>4, <2>5, <2>6, WorkStep
<1>10. ASSUME NEW r \in Runners, HandlerReturns(r) PROVE IInv'
  <2>1. run[r].pc = "running" /\ UNCHANGED << clock, row, crashes >>
    BY <1>10 DEF HandlerReturns
  <2>2. PICK ok \in BOOLEAN :
          run' = [run EXCEPT ![r].pc = "finish", ![r].ok = ok, ![r].beat = clock]
    BY <1>10 DEF HandlerReturns
  <2> DEFINE x == [run[r] EXCEPT !.pc = "finish", !.ok = ok, !.beat = clock]
  <2>3. run' = [run EXCEPT ![r] = x]
    BY <1>a, <2>2
  <2>4. x \in RunType /\ SameWork(run[r], x)
    <3>1. run[r] \in RunType /\ clock \in Nat /\ ok \in BOOLEAN
      BY <1>a
    <3>2. x \in RunType
      <4>1. CASE ok = TRUE
        BY <3>1, <4>1 DEF RunType
      <4>2. CASE ok = FALSE
        BY <3>1, <4>2 DEF RunType
      <4> QED BY <4>1, <4>2
    <3>3. SameWork(run[r], x)
      BY <2>1, <3>1 DEF RunType, SameWork
    <3> QED BY <3>2, <3>3
  <2>5. TokensGrow
    BY <1>a, <2>1, SameTokens DEF SameLease
  <2> HIDE DEF x
  <2> QED BY <1>a, <2>1, <2>3, <2>4, <2>5, WorkStep
<1>11. ASSUME NEW r \in Runners, Finish(r) PROVE IInv'
  <2> DEFINE y == row[Plan(r)]
             won == [y EXCEPT !.status = "SUCCESS"]
             lost == [y EXCEPT !.status = "FAILED", !.nextRetry = NextRetryAt(r),
                               !.error = "handler_error"]
  <2>1. /\ run[r].pc = "finish" /\ run[r].todo # <<>>
        /\ NextPlan(r, run[r].gaveUp) /\ UNCHANGED << clock, crashes >>
    BY <1>11 DEF Finish, IInv, BusyHasPlan
  <2>2. Plan(r) \in Plans /\ y \in RowType
    BY <1>a, <2>1, HeadType DEF IInv
  <2>3. won \in RowType /\ SameLease(y, won)
    BY <2>2 DEF RowType, SameLease
  <2>4. lost \in RowType /\ SameLease(y, lost)
    <3>1. NextRetryAt(r) \in Int
      BY <1>a, <2>1, RetryAtType
    <3> QED BY <2>2, <3>1 DEF RowType, SameLease
  <2>5. row' = row \/ row' = [row EXCEPT ![Plan(r)] = won] \/ row' = [row EXCEPT ![Plan(r)] = lost]
    BY <1>11, <1>a, <2>2 DEF Finish
  <2> HIDE DEF won, lost
  <2>6. row' \in [Plans -> RowType] /\ \A p \in Plans : SameLease(row[p], row'[p])
    BY <1>a, <2>2, <2>3, <2>4, <2>5 DEF SameLease
  <2>7. TokensGrow
    BY <2>6, SameTokens
  <2> QED BY <1>a, <2>1, <2>6, <2>7, NextPlanStep DEF RunType
<1>12. ASSUME NEW r \in Runners, Crash(r) PROVE IInv'
  <2>1. /\ run' = [run EXCEPT ![r] = Down] /\ UNCHANGED << clock, row >>
        /\ crashes' \in 0 .. MaxCrashes
    BY <1>12, <1>a, SchedulerAssumption DEF Crash
  <2> QED BY <1>a, <2>1, IdleStep
<1>13. ASSUME NEW r \in Runners, Restart(r) PROVE IInv'
  BY <1>a, <1>13, IdleStep DEF Restart
<1>14. CASE UNCHANGED vars
  <2>1. UNCHANGED << clock, row, run, crashes >>
    BY <1>14 DEF vars
  <2>2. TokensGrow
    BY <1>a, <2>1, SameTokens DEF SameLease
  <2>3. \A r \in Runners : SamePlace(run[r], run'[r])
    BY <2>1 DEF SamePlace
  <2> QED BY <1>a, <2>1, <2>2, <2>3, RowStep
<1> QED
  BY <1>1, <1>2, <1>3, <1>4, <1>5, <1>6, <1>7, <1>8, <1>9, <1>10, <1>11, <1>12, <1>13, <1>14
  DEF Next, Proceed

\* The inductive invariant holds throughout.
LEMMA Invariance == Spec => []IInv
<1>1. Init => IInv
  BY InitIInv
<1>2. IInv /\ [Next]_vars => IInv'
  BY NextIInv
<1> QED BY <1>1, <1>2, PTL DEF Spec

\* The types hold; a row never passes MaxAttempts (the CHECK of migration 113).
THEOREM TypeCorrect == Spec => []TypeOK
<1>1. IInv => TypeOK
  BY DEF IInv
<1> QED BY <1>1, Invariance, PTL

\* At most one process owns a plan's lease.
THEOREM LeaseHasOneHolder == Spec => []OneHolder
<1>1. IInv => OneHolder
  BY DEF IInv, TokensDistinct, OneHolder, Holds
<1> QED BY <1>1, Invariance, PTL

-----------------------------------------------------------------------------
(* What a step may do to a row.                                               *)

\* How a row may change: closed by a sweep, inserted or stolen by a claim,
\* renewed or finished by its holder.
RowChange(r, p) ==
    \/ row[p].status = "RUNNING" /\ row[p].staleAfter < run[r].now /\ row'[p].status = "FAILED"
    \/ row[p].status = "none" /\ row'[p].status = "RUNNING"
    \/ Claimable(row[p], run[r].now) /\ row'[p].status = "RUNNING"
    \/ Holds(r, p) /\ row'[p].token = row[p].token /\ row'[p].status = "RUNNING"
    \/ Holds(r, p) /\ run[r].pc = "finish" /\ (row'[p].status = "SUCCESS" => run[r].ok)

LEMMA RowChanges ==
  ASSUME IInv, Next, NEW p \in Plans, row'[p] # row[p]
  PROVE  \E r \in Runners : RowChange(r, p)
<1>a. row \in [Plans -> RowType]
  BY DEF IInv, TypeOK
<1>1. row' # row
  OBVIOUS
<1>2. PICK r \in Runners :
        \/ MarkStaleAsFailed(r) \/ ClaimInsert(r) \/ ClaimSteal(r) \/ ClaimError(r)
        \/ Heartbeat(r) \/ Finish(r)
  BY <1>1 DEF Next, Proceed, AdvanceClock, StartTick, PlanTick, EndTick, HandlerReturns,
              Crash, Restart
<1>3. CASE MarkStaleAsFailed(r)
  <2>1. row' = [q \in Plans |-> IF Stale(q, run[r].now) THEN Closed(row[q]) ELSE row[q]]
    BY <1>1, <1>3 DEF MarkStaleAsFailed
  <2>2. Stale(p, run[r].now) /\ row'[p] = Closed(row[p])
    BY <2>1
  <2>3. Closed(row[p]).status = "FAILED"
    BY <1>a DEF Closed, RowType
  <2> QED BY <2>2, <2>3 DEF Stale, RowChange
<1>4. CASE ClaimInsert(r)
  <2>1. row[Plan(r)].status = "none" /\ row' = [row EXCEPT ![Plan(r)] = Leased(r, 1)]
    BY <1>1, <1>4 DEF ClaimInsert, TakeLease
  <2> QED BY <1>a, <2>1 DEF Leased, RowChange
<1>5. CASE ClaimSteal(r)
  <2>1. /\ Claimable(row[Plan(r)], run[r].now)
        /\ row' = [row EXCEPT ![Plan(r)] = Leased(r, row[Plan(r)].attempt + 1)]
    BY <1>1, <1>5 DEF ClaimSteal, TakeLease
  <2> QED BY <1>a, <2>1 DEF Leased, RowChange
<1>6. CASE ClaimError(r)
  <2>1. /\ row[Plan(r)].status = "none" \/ Claimable(row[Plan(r)], run[r].now)
        /\ row' = [row EXCEPT ![Plan(r)] = Leased(r, row[Plan(r)].attempt + 1)]
    BY <1>1, <1>6 DEF ClaimError
  <2> QED BY <1>a, <2>1 DEF Leased, RowChange
<1>7. CASE Heartbeat(r)
  <2>1. Owned(r) /\ row' = [row EXCEPT ![Plan(r)].staleAfter = RenewedLease(r)]
    BY <1>1, <1>7 DEF Heartbeat
  <2>2. p = Plan(r) /\ Holds(r, p)
    BY <1>a, <1>7, <2>1 DEF Heartbeat, Owned, Holds, Executing
  <2>3. row'[p].token = row[p].token /\ row'[p].status = "RUNNING"
    BY <1>a, <2>1, <2>2 DEF Owned, RowType
  <2> QED BY <2>2, <2>3 DEF RowChange
<1>8. CASE Finish(r)
  <2>1. Owned(r) /\ run[r].pc = "finish"
    BY <1>1, <1>8 DEF Finish
  <2>2. p = Plan(r) /\ Holds(r, p)
    BY <1>a, <1>8, <2>1 DEF Finish, Owned, Holds, Executing
  <2>3. ~run[r].ok => row'[p].status = "FAILED"
    BY <1>a, <1>1, <1>8, <2>1, <2>2 DEF Finish, RowType
  <2> QED BY <2>1, <2>2, <2>3 DEF RowChange
<1> QED BY <1>2, <1>3, <1>4, <1>5, <1>6, <1>7, <1>8

\* No tick's clock is ahead, so what it judged stale or due is.
LEMMA JudgedOnTime ==
  ASSUME IInv, NEW r \in Runners, NEW p \in Plans
  PROVE  /\ row[p].staleAfter < run[r].now => row[p].staleAfter < clock
         /\ row[p].nextRetry <= run[r].now => row[p].nextRetry <= clock
<1>1. row[p].staleAfter \in Int /\ row[p].nextRetry \in Int
  BY DEF IInv, TypeOK, RowType
<1>2. run[r].now \in Nat /\ clock \in Nat /\ run[r].now <= clock
  BY Numbers, SchedulerAssumption DEF IInv, TypeOK, TicksNotAhead
<1> QED BY <1>1, <1>2

\* Only the lease's owner makes a row SUCCESS, and no one changes it after.
THEOREM OnlyHolderSucceeds == Spec => SuccessOnlyByHolder
<1> DEFINE Step == \A p \in Plans :
             "SUCCESS" \in {row[p].status, row'[p].status} /\ row'[p] # row[p] =>
               \E r \in Runners : Holds(r, p) /\ run[r].pc = "finish" /\ run[r].ok
<1>1. IInv /\ [Next]_vars => [Step]_vars
  <2> SUFFICES ASSUME IInv, Next, NEW p \in Plans, row'[p] # row[p],
                      "SUCCESS" \in {row[p].status, row'[p].status}
               PROVE  \E r \in Runners : Holds(r, p) /\ run[r].pc = "finish" /\ run[r].ok
    OBVIOUS
  <2>1. PICK r \in Runners : RowChange(r, p)
    BY RowChanges
  <2> QED BY <2>1 DEF RowChange, Holds, Claimable
<1>2. Spec => [][Step]_vars
  BY <1>1, Invariance, PTL DEF Spec
<1> QED BY <1>2 DEF SuccessOnlyByHolder

\* A lease is ended by its holder, or after it ran out.
THEOREM LeasesAreRespected == Spec => LeaseRespected
<1> DEFINE Step == \A p \in Plans :
             row[p].status = "RUNNING"
               /\ (row'[p].status # "RUNNING" \/ row'[p].token # row[p].token) =>
                 \/ \E r \in Runners : Holds(r, p) /\ run[r].pc = "finish"
                 \/ row[p].staleAfter < clock
<1>1. IInv /\ [Next]_vars => [Step]_vars
  <2> SUFFICES ASSUME IInv, Next, NEW p \in Plans, row[p].status = "RUNNING",
                      row'[p].status # "RUNNING" \/ row'[p].token # row[p].token
               PROVE  \/ \E r \in Runners : Holds(r, p) /\ run[r].pc = "finish"
                      \/ row[p].staleAfter < clock
    OBVIOUS
  <2>1. PICK r \in Runners : RowChange(r, p)
    BY RowChanges
  <2> QED BY <2>1, JudgedOnTime DEF RowChange, Claimable
<1>2. Spec => [][Step]_vars
  BY <1>1, Invariance, PTL DEF Spec
<1> QED BY <1>2 DEF LeaseRespected

\* No retry before its backoff is over or past the last attempt.
THEOREM BackoffIsRespected == Spec => BackoffRespected
<1> DEFINE Step == \A p \in Plans : row[p].status = "FAILED" /\ row'[p] # row[p] =>
             /\ row[p].attempt < MaxAttempts
             /\ row[p].nextRetry <= clock
<1>1. IInv /\ [Next]_vars => [Step]_vars
  <2> SUFFICES ASSUME IInv, Next, NEW p \in Plans, row[p].status = "FAILED", row'[p] # row[p]
               PROVE  row[p].attempt < MaxAttempts /\ row[p].nextRetry <= clock
    OBVIOUS
  <2>1. PICK r \in Runners : RowChange(r, p)
    BY RowChanges
  <2>2. Claimable(row[p], run[r].now)
    BY <2>1 DEF RowChange, Holds
  <2>3. NoTime <= clock
    BY SchedulerAssumption DEF IInv, TypeOK, NoTime
  <2> QED BY <2>2, <2>3, JudgedOnTime DEF Claimable
<1>2. Spec => [][Step]_vars
  BY <1>1, Invariance, PTL DEF Spec
<1> QED BY <1>2 DEF BackoffRespected

-----------------------------------------------------------------------------
(* A live process that beats on time keeps its lease.                         *)

\* A handler that is not late has a lease that outlives its next heartbeat.
OnTime(r) ==
    Executing(r) /\ ~run[r].late =>
      /\ Holds(r, Plan(r)) /\ clock <= row[Plan(r)].staleAfter
      /\ run[r].pc = "running" =>
           /\ clock <= run[r].beat + HeartbeatInterval
           /\ run[r].beat + HeartbeatInterval <= row[Plan(r)].staleAfter

LiveInv == \A r \in Runners : OnTime(r)

\* The steps of one runner.
Step(r) == StartTick(r) \/ Proceed(r) \/ Heartbeat(r) \/ Crash(r) \/ Restart(r)

\* The row a runner executes under, if it is in time, is out of the others' reach.
LEMMA OthersKeepRow ==
  ASSUME IInv, LiveInv, NEW r \in Runners, NEW s \in Runners, r # s,
         Executing(s), ~run[s].late, Step(r)
  PROVE  row'[Plan(s)] = row[Plan(s)]
<1> DEFINE p == Plan(s)
<1>a. row \in [Plans -> RowType]
  BY DEF IInv, TypeOK
<1>1. /\ p \in Plans /\ Holds(s, p) /\ row[p].status = "RUNNING"
      /\ clock <= row[p].staleAfter
  BY HeadType DEF IInv, BusyHasPlan, Executing, LiveInv, OnTime, Holds
<1>2. ~(row[p].staleAfter < run[r].now)
  BY <1>1, JudgedOnTime, SchedulerAssumption DEF IInv, TypeOK, RowType
<1>3. ~Holds(r, p)
  BY <1>1 DEF IInv, TokensDistinct, Holds
<1>4. ~Stale(p, run[r].now) /\ ~Claimable(row[p], run[r].now) /\ row[p].status # "none"
  BY <1>1, <1>2 DEF Stale, Claimable
<1>5. Executing(r) /\ Owned(r) => Plan(r) # p
  BY <1>3 DEF Owned, Holds
<1> HIDE DEF p
<1>6. CASE MarkStaleAsFailed(r)
  BY <1>1, <1>4, <1>6 DEF MarkStaleAsFailed, p
<1>7. CASE ClaimInsert(r)
  BY <1>a, <1>1, <1>4, <1>7 DEF ClaimInsert, TakeLease, p
<1>8. CASE ClaimSteal(r)
  BY <1>a, <1>1, <1>4, <1>8 DEF ClaimSteal, TakeLease, p
<1>9. CASE ClaimError(r)
  BY <1>a, <1>1, <1>4, <1>9 DEF ClaimError, p
<1>10. CASE Heartbeat(r)
  BY <1>a, <1>1, <1>5, <1>10 DEF Heartbeat, Executing, p
<1>11. CASE Finish(r)
  BY <1>a, <1>1, <1>5, <1>11 DEF Finish, Executing, p
<1>12. CASE StartTick(r) \/ PlanTick(r) \/ EndTick(r) \/ HandlerReturns(r) \/ Crash(r) \/ Restart(r)
  BY <1>12 DEF StartTick, PlanTick, EndTick, HandlerReturns, Crash, Restart, p
<1> QED
  BY <1>6, <1>7, <1>8, <1>9, <1>10, <1>11, <1>12 DEF Step, Proceed

\* A step is one runner's, and leaves the clock and the other runners alone.
LEMMA StepIsLocal ==
  ASSUME IInv, NEW r \in Runners, Step(r)
  PROVE  clock' = clock /\ \A s \in Runners \ {r} : run'[s] = run[s]
BY DEF IInv, TypeOK, Step, Proceed, StartTick, MarkStaleAsFailed, PlanTick, EndTick, ClaimInsert,
       ClaimSteal, ClaimError, HandlerReturns, Finish, Heartbeat, Crash, Restart, TakeLease,
       Goto, NextPlan

\* A claim that is not late writes a lease up to its first heartbeat.
LEMMA TakenOnTime ==
  ASSUME IInv, NEW r \in Runners, run[r].todo # <<>>, NEW attempt \in Nat,
         TakeLease(r, Leased(r, attempt)), clock' = clock
  PROVE  OnTime(r)'
<1> DEFINE x == Leased(r, attempt)
<1>1. Plan(r) \in Plans
  BY HeadType DEF IInv
<1>2. clock \in Nat /\ run[r].now \in Nat
  BY SchedulerAssumption, Numbers DEF IInv, TypeOK
<1>3. /\ x.status = "RUNNING" /\ x.token = attempt
      /\ x.staleAfter = run[r].now + StaleTimeout /\ x.staleAfter \in Int
  BY <1>2, SchedulerAssumption DEF Leased
<1>4. /\ run'[r].pc = "running" /\ run'[r].todo = run[r].todo
      /\ run'[r].token = x.token /\ run'[r].beat = clock
      /\ run'[r].late = (x.staleAfter < clock + HeartbeatInterval)
  BY DEF TakeLease, IInv, TypeOK, RunType
<1>5. row'[Plan(r)] = x /\ Plan(r)' = Plan(r)
  BY <1>1, <1>4 DEF TakeLease, IInv, TypeOK, Plan
<1> HIDE DEF x
<1>6. Executing(r)' /\ Holds(r, Plan(r))'
  BY <1>3, <1>4, <1>5 DEF Executing, Holds, Plan
<1>7. ~run'[r].late => /\ clock' + HeartbeatInterval <= x.staleAfter
                       /\ clock' <= x.staleAfter
  <2>1. ~run'[r].late => ~(x.staleAfter < clock + HeartbeatInterval)
    BY <1>4
  <2>2. ~(x.staleAfter < clock + HeartbeatInterval) =>
          /\ clock' + HeartbeatInterval <= x.staleAfter /\ clock' <= x.staleAfter
    BY <1>2, <1>3, SchedulerAssumption
  <2> QED BY <2>1, <2>2
<1> QED BY <1>2, <1>4, <1>5, <1>6, <1>7, SchedulerAssumption DEF OnTime

\* A runner stays on time by its own steps.
LEMMA OwnStep ==
  ASSUME IInv, LiveInv, NEW r \in Runners, Step(r)
  PROVE  OnTime(r)'
<1>a. /\ clock \in Nat /\ clock' = clock /\ row \in [Plans -> RowType]
      /\ run \in [Runners -> RunType] /\ run[r] \in RunType
  BY StepIsLocal, SchedulerAssumption DEF IInv, TypeOK
<1>b. OnTime(r)
  BY DEF LiveInv
<1>1. ASSUME run'[r].pc \notin {"running", "finish"} PROVE OnTime(r)'
  BY <1>1 DEF OnTime, Executing
<1>2. CASE StartTick(r) \/ MarkStaleAsFailed(r) \/ EndTick(r) \/ Crash(r) \/ Restart(r)
  BY <1>a, <1>1, <1>2 DEF StartTick, MarkStaleAsFailed, EndTick, Crash, Restart, Goto, Idle,
                          Down, Between, RunType
<1>3. CASE PlanTick(r)
  BY <1>a, <1>1, <1>3 DEF PlanTick, Idle, Between, RunType
<1>4. ASSUME NEW gaveUp, NextPlan(r, gaveUp) PROVE OnTime(r)'
  BY <1>a, <1>1, <1>4 DEF NextPlan, Between
<1>5. CASE ClaimInsert(r)
  <2>1. CASE Goto(r, "steal")
    BY <1>a, <1>1, <2>1 DEF Goto, RunType
  <2> QED BY <1>a, <1>5, <2>1, TakenOnTime DEF ClaimInsert
<1>6. CASE ClaimSteal(r)
  <2>1. run[r].todo # <<>>
    BY <1>6 DEF ClaimSteal, IInv, BusyHasPlan
  <2>2. row[Plan(r)].attempt + 1 \in Nat
    BY <2>1, HeadType, Numbers DEF IInv
  <2> QED BY <1>a, <1>4, <1>6, <2>1, <2>2, TakenOnTime DEF ClaimSteal
<1>7. CASE ClaimError(r) \/ Finish(r)
  BY <1>4, <1>7 DEF ClaimError, Finish
<1>8. CASE Heartbeat(r) \/ HandlerReturns(r)
  <2>1. run[r].pc = "running" /\ Executing(r) /\ run[r].todo # <<>> /\ Plan(r) \in Plans
    BY <1>8, HeadType DEF Heartbeat, HandlerReturns, IInv, BusyHasPlan, Executing
  <2> SUFFICES ASSUME ~run'[r].late PROVE OnTime(r)'
    BY DEF OnTime
  <2>2. run'[r].late = run[r].late
    <3>1. CASE Heartbeat(r)
      BY <3>1, <1>a DEF Heartbeat, RunType
    <3>2. CASE HandlerReturns(r)
      <4>1. PICK ok \in BOOLEAN :
              run' = [run EXCEPT ![r].pc = "finish", ![r].ok = ok, ![r].beat = clock]
        BY <3>2 DEF HandlerReturns
      <4> QED BY <4>1, <1>a DEF RunType
    <3> QED BY <1>8, <3>1, <3>2
  <2>3. /\ Holds(r, Plan(r)) /\ Owned(r) /\ clock <= row[Plan(r)].staleAfter
    BY <1>b, <2>1, <2>2 DEF OnTime, Holds, Owned
  <2>4. CASE Heartbeat(r)
    <3>1. /\ run'[r].pc = "running" /\ run'[r].beat = clock
          /\ run'[r].todo = run[r].todo /\ run'[r].token = run[r].token
      BY <1>a, <2>1, <2>4 DEF Heartbeat, RunType
    <3>2. /\ row'[Plan(r)].staleAfter = clock + StaleTimeout
          /\ row'[Plan(r)].status = "RUNNING" /\ row'[Plan(r)].token = run[r].token
      BY <1>a, <2>1, <2>3, <2>4 DEF Heartbeat, Owned, RenewedLease, RowType
    <3>3. Plan(r)' = Plan(r)
      BY <3>1 DEF Plan
    <3> QED BY <1>a, <3>1, <3>2, <3>3, SchedulerAssumption DEF OnTime, Executing, Holds
  <2>5. CASE HandlerReturns(r)
    <3>1. /\ run'[r].pc = "finish" /\ row' = row
          /\ run'[r].todo = run[r].todo /\ run'[r].token = run[r].token
      BY <1>a, <2>1, <2>5 DEF HandlerReturns, RunType
    <3>2. Plan(r)' = Plan(r)
      BY <3>1 DEF Plan
    <3> QED BY <1>a, <2>3, <3>1, <3>2 DEF OnTime, Executing, Holds
  <2> QED BY <1>8, <2>4, <2>5
<1> QED
  BY <1>2, <1>3, <1>5, <1>6, <1>7, <1>8 DEF Step, Proceed

\* Nor does another runner's step make it late.
LEMMA OthersStep ==
  ASSUME IInv, LiveInv, NEW r \in Runners, NEW s \in Runners, r # s, Step(r)
  PROVE  OnTime(s)'
<1> SUFFICES ASSUME Executing(s)', ~run'[s].late PROVE OnTime(s)'
  BY DEF OnTime
<1>1. clock' = clock /\ run'[s] = run[s] /\ OnTime(s)
  BY StepIsLocal DEF LiveInv
<1>2. Plan(s)' = Plan(s) /\ Executing(s) /\ ~run[s].late
  BY <1>1 DEF Plan, Executing
<1>3. row'[Plan(s)] = row[Plan(s)]
  BY <1>2, OthersKeepRow
<1> QED BY <1>1, <1>2, <1>3 DEF OnTime, Executing, Holds

\* Nor does time, unless its heartbeat is overdue.
LEMMA ClockStep ==
  ASSUME IInv, LiveInv, AdvanceClock, NEW r \in Runners
  PROVE  OnTime(r)'
<1> SUFFICES ASSUME Executing(r)', ~run'[r].late PROVE OnTime(r)'
  BY DEF OnTime
<1>1. /\ clock' = clock + 1 /\ row' = row /\ OnTime(r)
      /\ clock \in Nat /\ run[r].beat \in Nat
  BY SchedulerAssumption DEF AdvanceClock, LiveInv, IInv, TypeOK, RunType
<1>2. /\ SamePlace(run[r], run'[r]) /\ run'[r].beat = run[r].beat
      /\ ~run[r].late /\ ~Overdue(r)
  BY Waiting DEF IInv
<1>3. Plan(r)' = Plan(r) /\ Executing(r) /\ run[r].pc = "running"
  BY <1>2 DEF Plan, Executing, SamePlace, Overdue
<1>4. /\ clock < run[r].beat + HeartbeatInterval
      /\ run[r].beat + HeartbeatInterval <= row[Plan(r)].staleAfter
  BY <1>1, <1>2, <1>3, SchedulerAssumption DEF Overdue, OnTime
<1>5. row[Plan(r)].staleAfter \in Int
  <2>1. row[Plan(r)] \in RowType
    BY <1>3, HeadType DEF IInv, TypeOK, BusyHasPlan
  <2> QED BY <2>1 DEF RowType
<1>6. clock' <= run[r].beat + HeartbeatInterval /\ clock' <= row[Plan(r)].staleAfter
  BY <1>1, <1>4, <1>5, SchedulerAssumption
<1>7. Holds(r, Plan(r))'
  BY <1>1, <1>2, <1>3 DEF OnTime, Executing, Holds, SamePlace
<1> QED BY <1>1, <1>2, <1>3, <1>4, <1>6, <1>7 DEF OnTime

\* Every runner is on time throughout.
LEMMA NextLiveInv == IInv /\ LiveInv /\ [Next]_vars => LiveInv'
<1> SUFFICES ASSUME IInv, LiveInv, [Next]_vars, NEW r \in Runners PROVE OnTime(r)'
  BY DEF LiveInv
<1>1. CASE AdvanceClock
  BY <1>1, ClockStep
<1>2. ASSUME NEW s \in Runners, Step(s) PROVE OnTime(r)'
  BY <1>2, OwnStep, OthersStep
<1>3. CASE UNCHANGED vars
  BY <1>3 DEF vars, LiveInv, OnTime, Executing, Holds, Plan
<1> QED BY <1>1, <1>2, <1>3 DEF Next, Step

\* A handler owns its lease while its process lives and beats in time
\* ("runHeartbeats keeps the lease alive"), for every schedule of the ticks, as
\* long or as crowded as they are, unless its claim was late in its own tick.
THEOREM LiveHolderKeeps == Spec => []LiveHolderKeepsLease
<1>1. Init => LiveInv
  BY DEF Init, LiveInv, OnTime, Executing, Idle, Between
<1>2. IInv /\ LiveInv /\ [Next]_vars => LiveInv'
  BY NextLiveInv
<1>3. LiveInv => LiveHolderKeepsLease
  BY DEF LiveInv, OnTime, LiveHolderKeepsLease
<1> QED BY <1>1, <1>2, <1>3, Invariance, PTL DEF Spec

-----------------------------------------------------------------------------
(* every_plan leaves no bucket out.                                           *)

\* The multiples of c, by their remainder.
LEMMA MultipleRemainder ==
  ASSUME NEW k \in Nat, NEW c \in Nat \ {0}
  PROVE  (k * c) % c = 0
<1> DEFINE a == k * c
           q == a \div c
           m == a % c
<1>1. a \in Nat
  BY SMTT(30)
<1>2. a = c * q + m /\ m \in 0 .. c - 1 /\ q \in Int
  BY <1>1, SMTT(30)
<1>3. c * (k - q) = m
  BY <1>2, SMTT(30)
<1>4. k - q \in Int /\ (k - q >= 1 => c * (k - q) >= c) /\ (k - q <= 0 => c * (k - q) <= 0)
  BY <1>2, SMTT(30)
<1> HIDE DEF q, m
<1> QED BY <1>2, <1>3, <1>4 DEF m

LEMMA RemainderMultiple ==
  ASSUME NEW a \in Nat, NEW c \in Nat \ {0}, a % c = 0
  PROVE  a \div c \in Nat /\ a = (a \div c) * c
BY SMTT(30)

\* No multiple lies strictly between two neighbours.
LEMMA NextMultiple ==
  ASSUME NEW a \in Nat, NEW b \in Nat, NEW c \in Nat \ {0},
         a % c = 0, b % c = 0, a < b, b <= a + c
  PROVE  b = a + c
<1> DEFINE i == a \div c
           j == b \div c
<1>1. i \in Nat /\ j \in Nat /\ a = i * c /\ b = j * c
  BY RemainderMultiple
<1> HIDE DEF i, j
<1>2. i < j
  <2>1. j <= i => j * c <= i * c
    BY <1>1, SMTT(30)
  <2> QED BY <1>1, <2>1
<1>3. j <= i + 1
  <2>1. j >= i + 2 => j * c >= (i + 2) * c
    BY <1>1, SMTT(30)
  <2>2. (i + 2) * c = i * c + 2 * c
    BY <1>1, SMTT(30)
  <2> QED BY <1>1, <2>1, <2>2
<1>4. j = i + 1
  BY <1>1, <1>2, <1>3
<1>5. (i + 1) * c = i * c + c
  BY <1>1, SMTT(30)
<1> QED BY <1>1, <1>4, <1>5

LEMMA StepRemainder ==
  ASSUME NEW a \in Nat, NEW c \in Nat \ {0}, a % c = 0
  PROVE  (a + c) % c = 0
<1> DEFINE i == a \div c
<1>1. i \in Nat /\ a = i * c
  BY RemainderMultiple
<1> HIDE DEF i
<1>2. (i + 1) * c = a + c /\ i + 1 \in Nat
  BY <1>1, SMTT(30)
<1>3. ((i + 1) * c) % c = 0
  BY <1>2, MultipleRemainder
<1> QED BY <1>2, <1>3

\* The grid that FloorPlan rounds to.
LEMMA FloorPlanOnGrid ==
  ASSUME NEW t \in Nat PROVE FloorPlan(t) % Cadence = 0
BY MultipleBelow, MultipleRemainder, PlannerAssumption DEF FloorPlan

\* A step adds at most the row of a plan being inserted.
LEMMA RowsAdded ==
  ASSUME IInv, NEW r \in Runners, Step(r)
  PROVE  \/ Stored' = Stored
         \/ /\ run[r].pc = "next" /\ run[r].todo # <<>>
            /\ Plan(r) \in Plans /\ Plan(r) \notin Stored
            /\ Stored' = Stored \cup {Plan(r)}
<1>a. row \in [Plans -> RowType]
  BY DEF IInv, TypeOK
<1>b. ASSUME Plan(r) \in Plans, NEW x, row' = [row EXCEPT ![Plan(r)] = x], x.status # "none"
      PROVE  Stored' = Stored \cup {Plan(r)}
  BY <1>a, <1>b DEF Stored
<1>c. ASSUME row' = row PROVE Stored' = Stored
  BY <1>c DEF Stored
<1>d. run[r].todo # <<>> => Plan(r) \in Plans
  BY HeadType DEF IInv
<1>e. ASSUME run[r].todo # <<>>, NEW attempt, row' = [row EXCEPT ![Plan(r)] = Leased(r, attempt)]
      PROVE  Stored' = Stored \cup {Plan(r)}
  <2>1. Leased(r, attempt).status # "none"
    BY DEF Leased
  <2> QED BY <1>b, <1>d, <1>e, <2>1
<1>f. ASSUME run[r].todo # <<>>, row[Plan(r)].status # "none"
      PROVE  Plan(r) \in Stored /\ Stored \cup {Plan(r)} = Stored
  BY <1>d, <1>f DEF Stored
<1>1. CASE StartTick(r) \/ PlanTick(r) \/ EndTick(r) \/ HandlerReturns(r) \/ Crash(r) \/ Restart(r)
  BY <1>1, <1>c DEF StartTick, PlanTick, EndTick, HandlerReturns, Crash, Restart
<1>2. CASE MarkStaleAsFailed(r)
  <2>1. CASE row' = [p \in Plans |-> IF Stale(p, run[r].now) THEN Closed(row[p]) ELSE row[p]]
    <3>1. \A p \in Plans : Closed(row[p]).status = "FAILED"
      BY <1>a DEF Closed, RowType
    <3>2. \A p \in Plans : row'[p].status = "none" <=> row[p].status = "none"
      BY <2>1, <3>1 DEF Stale
    <3> QED BY <3>2 DEF Stored
  <2> QED BY <1>2, <1>c, <2>1 DEF MarkStaleAsFailed
<1>3. CASE ClaimInsert(r)
  <2>1. run[r].pc = "next" /\ run[r].todo # <<>>
    BY <1>3 DEF ClaimInsert
  <2>2. CASE row[Plan(r)].status = "none" /\ TakeLease(r, Leased(r, 1))
    <3>1. Stored' = Stored \cup {Plan(r)}
      BY <1>e, <2>1, <2>2 DEF TakeLease
    <3> QED BY <1>d, <2>1, <2>2, <3>1 DEF Stored
  <2> QED BY <1>3, <1>c, <2>2 DEF ClaimInsert
<1>4. CASE ClaimSteal(r)
  <2>1. run[r].todo # <<>>
    BY <1>4 DEF ClaimSteal, IInv, BusyHasPlan
  <2>2. CASE /\ Claimable(row[Plan(r)], run[r].now)
             /\ TakeLease(r, Leased(r, row[Plan(r)].attempt + 1))
    <3>1. row[Plan(r)].status # "none"
      BY <2>2 DEF Claimable
    <3> QED BY <1>e, <1>f, <2>1, <2>2, <3>1 DEF TakeLease
  <2> QED BY <1>4, <1>c, <2>2 DEF ClaimSteal
<1>5. CASE ClaimError(r)
  <2>1. run[r].todo # <<>>
    BY <1>5 DEF ClaimError, IInv, BusyHasPlan
  <2>2. CASE /\ run[r].pc = "next" /\ row[Plan(r)].status = "none"
             /\ row' = [row EXCEPT ![Plan(r)] = Leased(r, row[Plan(r)].attempt + 1)]
    <3>1. Stored' = Stored \cup {Plan(r)}
      BY <1>e, <2>1, <2>2
    <3> QED BY <1>d, <2>1, <2>2, <3>1 DEF Stored
  <2>3. CASE /\ Claimable(row[Plan(r)], run[r].now)
             /\ row' = [row EXCEPT ![Plan(r)] = Leased(r, row[Plan(r)].attempt + 1)]
    <3>1. row[Plan(r)].status # "none"
      BY <2>3 DEF Claimable
    <3> QED BY <1>e, <1>f, <2>1, <2>3, <3>1
  <2> QED BY <1>5, <1>c, <2>2, <2>3 DEF ClaimError
<1>6. CASE Heartbeat(r)
  <2>1. run[r].todo # <<>>
    BY <1>6 DEF Heartbeat, IInv, BusyHasPlan
  <2>2. CASE Owned(r) /\ row' = [row EXCEPT ![Plan(r)].staleAfter = RenewedLease(r)]
    <3> DEFINE y == [row[Plan(r)] EXCEPT !.staleAfter = RenewedLease(r)]
    <3>1. row' = [row EXCEPT ![Plan(r)] = y] /\ y.status = "RUNNING"
      BY <1>a, <1>d, <2>1, <2>2 DEF Owned, RowType
    <3> HIDE DEF y
    <3>2. Stored' = Stored \cup {Plan(r)}
      BY <1>b, <1>d, <2>1, <3>1
    <3> QED BY <1>f, <2>1, <2>2, <3>2 DEF Owned
  <2> QED BY <1>6, <1>c, <2>2 DEF Heartbeat
<1>7. CASE Finish(r)
  <2>1. run[r].todo # <<>>
    BY <1>7 DEF Finish, IInv, BusyHasPlan
  <2>2. CASE Owned(r) /\ row' # row
    <3> DEFINE y == IF run[r].ok THEN [row[Plan(r)] EXCEPT !.status = "SUCCESS"]
                    ELSE [row[Plan(r)] EXCEPT !.status = "FAILED", !.nextRetry = NextRetryAt(r),
                                              !.error = "handler_error"]
    <3>1. row' = [row EXCEPT ![Plan(r)] = y] /\ y.status # "none"
      BY <1>7, <1>a, <1>d, <2>1, <2>2 DEF Finish, RowType
    <3> HIDE DEF y
    <3>2. Stored' = Stored \cup {Plan(r)}
      BY <1>b, <1>d, <2>1, <3>1
    <3> QED BY <1>f, <2>1, <2>2, <3>2 DEF Owned
  <2>3. CASE row' = row
    BY <1>c, <2>3
  <2> QED BY <1>7, <2>2, <2>3 DEF Finish
<1> QED
  BY <1>1, <1>2, <1>3, <1>4, <1>5, <1>6, <1>7 DEF Step, Proceed


\* The plans a tick still has to attempt are neighbours on the grid.
Regular(plans) ==
    \A i \in 1 .. Len(plans) :
      /\ plans[i] % Cadence = 0
      /\ i < Len(plans) => plans[i + 1] = plans[i] + Cadence

\* Every bucket between the newest row and the plan a tick is about to attempt
\* is behind its catch-up window, or the tick gave it up.
NoneBefore(r) ==
    run[r].todo # <<>> =>
      \A t \in Plans : t % Cadence = 0 /\ LatestTime < t /\ t < Plan(r) =>
        t < WindowStart(run[r].now) \/ t \in run[r].gaveUp

\* A tick past its INSERT finds the row of its plan.
PastInsert(r) == run[r].pc \in {"steal", "running", "finish"} => Plan(r) \in Stored

SkipInv ==
    /\ \A p \in Stored : p % Cadence = 0
    /\ \A r \in Runners : Regular(run[r].todo) /\ NoneBefore(r) /\ PastInsert(r)

LEMMA RegularTail ==
  ASSUME NEW plans \in Seq(Plans), Regular(plans), plans # <<>>
  PROVE  /\ Head(plans) \in Plans /\ Head(plans) % Cadence = 0
         /\ Regular(Tail(plans))
         /\ Tail(plans) # <<>> => Head(Tail(plans)) = Head(plans) + Cadence
<1> DEFINE n == Len(plans)
           tail == Tail(plans)
<1>1. n \in Nat \ {0} /\ Head(plans) = plans[1] /\ plans[1] \in Plans /\ 1 \in 1 .. n
  BY LenProperties, EmptySeq
<1>2. /\ tail \in Seq(Plans) /\ Len(tail) = n - 1
      /\ \A i \in 1 .. n - 1 : tail[i] = plans[i + 1]
  BY HeadTailProperties
<1> HIDE DEF n, tail
<1>3. Regular(tail)
  <2> SUFFICES ASSUME NEW i \in 1 .. n - 1
               PROVE  /\ tail[i] % Cadence = 0
                      /\ i < n - 1 => tail[i + 1] = tail[i] + Cadence
    BY <1>2 DEF Regular
  <2>1. i + 1 \in 1 .. n /\ (i < n - 1 => i + 1 < n /\ i + 1 \in 1 .. n - 1)
    BY <1>1
  <2> QED BY <1>2, <2>1 DEF Regular, n
<1>4. ASSUME tail # <<>> PROVE Head(tail) = plans[1] + Cadence
  <2>1. Len(tail) # 0 /\ Head(tail) = tail[1]
    BY <1>2, <1>4, EmptySeq
  <2>2. 1 \in 1 .. n - 1 /\ 1 < n
    BY <1>1, <1>2, <2>1
  <2> QED BY <1>1, <1>2, <2>1, <2>2 DEF Regular, n
<1> QED BY <1>1, <1>3, <1>4 DEF Regular, n, tail

\* What every_plan owes between the newest row and the first plan it returns.
LEMMA PlannedInOrder ==
  ASSUME Mode = "every_plan", NEW newest \in Plans \cup {NoTime},
         newest # NoTime => newest % Cadence = 0, NEW x,
         NEW now \in Nat, ScheduleDelay <= now, now <= MaxTime
  PROVE  LET plans == PlansForTick(newest, x, MaxAttempts, now) IN
         /\ Regular(plans)
         /\ plans # <<>> /\ newest # NoTime =>
              \A t \in Plans : t % Cadence = 0 /\ newest < t /\ t < Head(plans) =>
                t < WindowStart(now)
<1> DEFINE latest == FloorPlan(now - ScheduleDelay)
           oldestAllowed == IF CatchUpWindow = 0 THEN latest
                            ELSE Greatest(now - CatchUpWindow, 0)
           cursor == EveryPlanCursor(newest, x, MaxAttempts, now, latest)
           floor == FloorPlan(oldestAllowed)
           start == IF cursor >= oldestAllowed THEN cursor
                    ELSE IF floor < oldestAllowed THEN floor + Cadence ELSE floor
           due == IF start > latest THEN 0 ELSE (latest - start) \div Cadence + 1
           n == Least(due, MaxPlansPerTick)
           plans == PlansForTick(newest, x, MaxAttempts, now)
<1>a. Cadence \in Nat \ {0} /\ MaxPlansPerTick \in Nat /\ CatchUpWindow \in Nat
  BY PlannerAssumption
<1>1. plans = [i \in 1 .. n |-> start + (i - 1) * Cadence] /\ plans \in Seq(Plans)
  BY PlansForTickType DEF PlansForTick, EveryPlanPlans
<1>2. latest \in Nat /\ latest % Cadence = 0
  <2>1. now - ScheduleDelay \in Nat
    BY PlannerAssumption
  <2> QED BY <2>1, FloorPlanOnGrid, FloorPlanType
<1>3. oldestAllowed \in Nat /\ \A t \in Nat : t < oldestAllowed => t < WindowStart(now)
  BY <1>a, <1>2 DEF Greatest, WindowStart
<1>4. /\ cursor \in Nat /\ cursor % Cadence = 0
      /\ newest # NoTime => cursor \in {newest, newest + Cadence}
  <2>1. newest # NoTime => newest \in Nat /\ (newest + Cadence) % Cadence = 0
                           /\ newest + Cadence \in Nat
    BY <1>a, StepRemainder DEF Plans
  <2> QED BY <1>2, <2>1 DEF EveryPlanCursor
<1> HIDE DEF latest, oldestAllowed, cursor
<1>5. floor \in Nat /\ floor % Cadence = 0 /\ floor <= oldestAllowed
  BY <1>3, FloorPlanOnGrid, FloorPlanType
<1> HIDE DEF floor
<1>6. start \in Nat /\ start % Cadence = 0
  <2>1. (floor + Cadence) % Cadence = 0
    BY <1>a, <1>5, StepRemainder, Zenon
  <2>2. start \in {cursor, floor, floor + Cadence}
    OBVIOUS
  <2> HIDE DEF start
  <2> QED BY <1>a, <1>4, <1>5, <2>1, <2>2
<1>7. \A t \in Nat : newest # NoTime /\ t % Cadence = 0 /\ newest < t /\ t < start =>
        t < oldestAllowed
  <2> SUFFICES ASSUME NEW t \in Nat, newest # NoTime, t % Cadence = 0, newest < t, t < start,
                      oldestAllowed <= t
               PROVE  FALSE
    BY <1>3
  <2>1. newest \in Nat
    BY DEF Plans
  <2>2. CASE cursor >= oldestAllowed
    <3>1. t < newest + Cadence
      BY <1>a, <1>4, <2>1, <2>2
    <3> QED BY <1>a, <2>1, <3>1, NextMultiple
  <2>3. CASE ~(cursor >= oldestAllowed)
    <3>1. start = IF floor < oldestAllowed THEN floor + Cadence ELSE floor
      BY <2>3
    <3>2. floor < t /\ t < floor + Cadence
      BY <1>a, <1>3, <1>5, <3>1
    <3> QED BY <1>a, <1>5, <3>2, NextMultiple
  <2> QED BY <2>2, <2>3
<1> HIDE DEF start, plans
<1>8. n \in Nat
  <2>1. due \in Nat
    <3>1. start <= latest => latest - start \in Nat
      BY <1>2, <1>6
    <3>2. start <= latest => (latest - start) \div Cadence \in Nat
      BY <1>a, <3>1, MultipleBelow
    <3> QED BY <1>2, <1>6, <3>2
  <2> HIDE DEF due
  <2> QED BY <1>a, <2>1 DEF Least
<1> HIDE DEF n
<1>9. Len(plans) = n
  BY <1>1, <1>8
<1>10. \A i \in 1 .. n : (start + (i - 1) * Cadence) % Cadence = 0
  <2> SUFFICES ASSUME NEW i \in 1 .. n PROVE (start + (i - 1) * Cadence) % Cadence = 0
    OBVIOUS
  <2> DEFINE q == start \div Cadence
  <2>1. q \in Nat /\ start = q * Cadence
    BY <1>a, <1>6, RemainderMultiple
  <2> HIDE DEF q
  <2>2. i - 1 \in Nat
    BY <1>8
  <2>3. start + (i - 1) * Cadence = (q + (i - 1)) * Cadence
    BY <1>a, <2>1, <2>2, SMTT(30)
  <2>4. q + (i - 1) \in Nat
    BY <2>1, <2>2
  <2> QED BY <1>a, <2>3, <2>4, MultipleRemainder
<1>11. \A i \in 1 .. n : i < n => start + ((i + 1) - 1) * Cadence = (start + (i - 1) * Cadence) + Cadence
  <2> SUFFICES ASSUME NEW i \in 1 .. n, i < n
               PROVE  start + ((i + 1) - 1) * Cadence = (start + (i - 1) * Cadence) + Cadence
    OBVIOUS
  <2> DEFINE j == i - 1
  <2>1. j \in Nat /\ (i + 1) - 1 = j + 1
    BY <1>8
  <2> HIDE DEF j
  <2>2. (j + 1) * Cadence = j * Cadence + Cadence /\ j * Cadence \in Nat
    BY <1>a, <2>1, SMTT(30)
  <2>3. start + (j + 1) * Cadence = (start + j * Cadence) + Cadence
    BY <1>a, <1>6, <2>2
  <2> QED BY <2>1, <2>3 DEF j
<1>12. Regular(plans)
  <2>1. \A i \in 1 .. n : i < n => i + 1 \in 1 .. n
    BY <1>8
  <2> QED BY <1>1, <1>9, <1>10, <1>11, <2>1 DEF Regular
<1>13. ASSUME plans # <<>> PROVE Head(plans) = start
  <2>1. n # 0 /\ Head(plans) = plans[1]
    BY <1>1, <1>9, <1>13, EmptySeq
  <2>2. 1 \in 1 .. n /\ plans[1] = start + (1 - 1) * Cadence
    BY <1>1, <1>8, <2>1
  <2> QED BY <1>a, <1>6, <2>1, <2>2
<1> QED BY <1>3, <1>7, <1>12, <1>13 DEF plans, Plans

\* The newest row is never replaced by an older one.
LEMMA NewestGrows ==
  ASSUME IInv, NEW r \in Runners, Step(r)
  PROVE  /\ Stored \subseteq Stored' /\ Stored' \subseteq Plans
         /\ LatestTime <= LatestTime'
         /\ \A p \in Stored' : p <= LatestTime'
<1>1. Stored \subseteq Stored' /\ Stored' \subseteq Plans /\ Stored \subseteq Plans
  BY RowsAdded DEF Stored
<1>2. Stored' # {} => LatestTime' \in Stored' /\ \A p \in Stored' : p <= LatestTime'
  BY <1>1, NewestOf DEF LatestTime
<1>3. Stored # {} => LatestTime \in Stored
  BY LatestIsNewest
<1>4. CASE Stored = {} /\ Stored' = {}
  BY <1>1, <1>4 DEF LatestTime, NoTime
<1>5. CASE Stored = {} /\ Stored' # {}
  <2>1. LatestTime = NoTime /\ LatestTime' \in Plans
    BY <1>1, <1>2, <1>5 DEF LatestTime
  <2> QED BY <1>1, <1>2, <1>5, <2>1, SchedulerAssumption DEF NoTime, Plans
<1>6. CASE Stored # {}
  BY <1>1, <1>2, <1>3, <1>6
<1> QED BY <1>1, <1>2, <1>4, <1>5, <1>6

\* Newest rows are compared as integers.
LEMMA NewestType ==
  ASSUME IInv, NEW r \in Runners, Step(r)
  PROVE  LatestTime \in Int /\ LatestTime' \in Int
<1>1. Stored' # {} => LatestTime' \in Stored' /\ Stored' \subseteq Plans
  BY NewestGrows, NewestOf DEF LatestTime
<1>2. Stored' = {} => LatestTime' = NoTime
  BY DEF LatestTime
<1> QED BY <1>1, <1>2, LatestTimeType DEF Plans, NoTime

\* A runner that keeps its tick's place keeps what it has accounted for.
LEMMA SameTick ==
  ASSUME IInv, SkipInv, NEW r \in Runners, Step(r), NEW s \in Runners,
         run'[s].todo = run[s].todo, run'[s].now = run[s].now, run'[s].gaveUp = run[s].gaveUp
  PROVE  Regular(run'[s].todo) /\ NoneBefore(s)'
<1>1. Regular(run[s].todo) /\ NoneBefore(s) /\ Plan(s)' = Plan(s)
  BY DEF SkipInv, Plan
<1> SUFFICES ASSUME run[s].todo # <<>>, NEW t \in Plans, t % Cadence = 0,
                    LatestTime' < t, t < Plan(s)
             PROVE  t < WindowStart(run[s].now) \/ t \in run[s].gaveUp
  BY <1>1 DEF NoneBefore, WindowStart, FloorPlan
<1>2. LatestTime < t
  <2>1. LatestTime <= LatestTime' /\ LatestTime \in Int /\ LatestTime' \in Int /\ t \in Int
    BY NewestGrows, NewestType DEF Plans
  <2> QED BY <2>1
<1> QED BY <1>1, <1>2 DEF NoneBefore

\* On to the next plan, the last one stored or given up.
LEMMA NextInOrder ==
  ASSUME IInv, SkipInv, NEW r \in Runners, Step(r), run[r].todo # <<>>,
         NEW gaveUp, NextPlan(r, gaveUp), run[r].gaveUp \subseteq gaveUp,
         Plan(r) \in Stored \/ Plan(r) \in gaveUp
  PROVE  Regular(run'[r].todo) /\ NoneBefore(r)' /\ PastInsert(r)'
<1> DEFINE tail == Tail(run[r].todo)
<1>1. run'[r] = Between("next", run[r].now, tail, gaveUp)
  BY DEF NextPlan, IInv, TypeOK
<1>2. /\ run'[r].todo = tail /\ run'[r].now = run[r].now /\ run'[r].gaveUp = gaveUp
      /\ run'[r].pc = "next"
  BY <1>1 DEF Between
<1>3. /\ Plan(r) \in Plans /\ Plan(r) % Cadence = 0 /\ Regular(tail)
      /\ tail # <<>> => Head(tail) = Plan(r) + Cadence
  <2>1. run[r].todo \in Seq(Plans) /\ Regular(run[r].todo)
    BY DEF IInv, TypeOK, RunType, SkipInv
  <2> QED BY <2>1, RegularTail DEF Plan
<1>4. NoneBefore(r)'
  <2> HIDE DEF tail
  <2> SUFFICES ASSUME tail # <<>>, NEW t \in Plans, t % Cadence = 0,
                      LatestTime' < t, t < Plan(r) + Cadence
               PROVE  t < WindowStart(run[r].now) \/ t \in gaveUp
    BY <1>2, <1>3 DEF NoneBefore, Plan, WindowStart, FloorPlan
  <2>1. Cadence \in Nat \ {0} /\ t \in Nat /\ Plan(r) \in Nat
    BY <1>3, PlannerAssumption DEF Plans
  <2>2. t <= Plan(r)
    BY <1>3, <2>1, NextMultiple
  <2>3. CASE t = Plan(r)
    <3>1. t \in Stored => t <= LatestTime'
      BY NewestGrows
    <3>2. LatestTime' \in Int
      BY NewestType
    <3> QED BY <2>1, <2>3, <3>1, <3>2
  <2>4. CASE t < Plan(r)
    <3>1. LatestTime <= LatestTime' /\ LatestTime \in Int /\ LatestTime' \in Int
      BY NewestGrows, NewestType
    <3>2. LatestTime < t
      BY <2>1, <3>1
    <3> QED BY <2>4, <3>2 DEF SkipInv, NoneBefore
  <2> QED BY <2>1, <2>2, <2>3, <2>4
<1> QED BY <1>2, <1>3, <1>4 DEF PastInsert

\* A tick plans from the newest row on, and gives up what lies before the first.
LEMMA PlansInOrder ==
  ASSUME Mode = "every_plan", IInv, SkipInv, NEW r \in Runners, PlanTick(r)
  PROVE  Regular(run'[r].todo) /\ NoneBefore(r)' /\ PastInsert(r)'
<1> DEFINE plans == PlansForTick(LatestTime, LatestInfo, MaxAttempts, run[r].now)
<1>a. run \in [Runners -> RunType] /\ run[r] \in RunType
  BY DEF IInv, TypeOK
<1>1. CASE run' = [run EXCEPT ![r] = Idle]
  <2>1. run'[r].todo = <<>> /\ run'[r].pc = "idle"
    BY <1>a, <1>1 DEF Idle, Between
  <2>2. Len(<<>>) = 0
    OBVIOUS
  <2> QED BY <2>1, <2>2 DEF Regular, NoneBefore, PastInsert
<1>2. CASE run' = [run EXCEPT ![r].pc = "next", ![r].todo = plans,
                              ![r].gaveUp = BeforeFirst(plans)]
  <2> HIDE DEF plans
  <2>1. /\ run'[r].pc = "next" /\ run'[r].todo = plans /\ run'[r].now = run[r].now
        /\ run'[r].gaveUp = BeforeFirst(plans)
    BY <1>a, <1>2 DEF RunType
  <2>2. run[r].now \in Nat /\ ScheduleDelay <= run[r].now /\ run[r].now <= MaxTime
    <3>1. run[r].pc = "plan" /\ run[r].now \in Nat /\ run[r].now <= clock
      BY <1>a DEF PlanTick, RunType, IInv, TicksNotAhead
    <3>2. ScheduleDelay <= run[r].now
      BY <3>1 DEF IInv, TicksNotAhead
    <3>3. clock \in Nat /\ clock <= MaxTime
      BY SchedulerAssumption DEF IInv, TypeOK
    <3> QED BY <3>1, <3>2, <3>3, SchedulerAssumption
  <2>3. /\ LatestTime \in Plans \cup {NoTime}
        /\ Stored # {} => LatestTime \in Stored /\ LatestTime # NoTime
    BY LatestIsNewest, LatestTimeType, SchedulerAssumption DEF Stored, Plans, NoTime
  <2>4. LatestTime # NoTime => LatestTime % Cadence = 0
    BY <2>3 DEF SkipInv, LatestTime
  <2>5. /\ Regular(plans)
        /\ plans # <<>> /\ LatestTime # NoTime =>
             \A t \in Plans : t % Cadence = 0 /\ LatestTime < t /\ t < Head(plans) =>
               t < WindowStart(run[r].now)
    BY <2>2, <2>3, <2>4, PlannedInOrder DEF plans
  <2>6. row' = row /\ LatestTime' = LatestTime
    <3>1. row' = row /\ Stored' = Stored
      BY DEF PlanTick, Stored
    <3> QED BY <3>1 DEF LatestTime
  <2>7. NoneBefore(r)'
    <3> SUFFICES ASSUME plans # <<>>, NEW t \in Plans, t % Cadence = 0,
                        LatestTime < t, t < Head(plans)
                 PROVE  t < WindowStart(run[r].now) \/ t \in BeforeFirst(plans)
      BY <2>1, <2>6 DEF NoneBefore, Plan, WindowStart, FloorPlan
    <3> QED BY <2>3, <2>5 DEF BeforeFirst
  <2> QED BY <2>1, <2>5, <2>7 DEF PastInsert
<1> QED BY <1>1, <1>2 DEF PlanTick

\* What a runner's own steps do to its tick.
LEMMA OwnOrder ==
  ASSUME Mode = "every_plan", IInv, SkipInv, NEW r \in Runners, Step(r)
  PROVE  Regular(run'[r].todo) /\ NoneBefore(r)' /\ PastInsert(r)'
<1>a. /\ row \in [Plans -> RowType]
      /\ run \in [Runners -> RunType] /\ run[r] \in RunType
      /\ Stored \subseteq Stored' /\ PastInsert(r)
      /\ run[r].todo # <<>> => Plan(r) \in Plans
  BY NewestGrows, HeadType DEF IInv, TypeOK, SkipInv
<1>1. CASE StartTick(r) \/ EndTick(r) \/ Crash(r) \/ Restart(r)
  <2>1. run'[r].todo = <<>> /\ run'[r].pc \in {"sweep", "idle", "down"}
    BY <1>a, <1>1 DEF StartTick, EndTick, Crash, Restart, Idle, Down, Between
  <2>2. Len(<<>>) = 0
    OBVIOUS
  <2> QED BY <2>1, <2>2 DEF Regular, NoneBefore, PastInsert
<1>2. CASE PlanTick(r)
  BY <1>2, PlansInOrder
<1>3. ASSUME run'[r].todo = run[r].todo, run'[r].now = run[r].now, run'[r].gaveUp = run[r].gaveUp,
             PastInsert(r)'
      PROVE  Regular(run'[r].todo) /\ NoneBefore(r)' /\ PastInsert(r)'
  BY <1>3, SameTick
<1>4. CASE MarkStaleAsFailed(r)
  <2>1. /\ run'[r].todo = run[r].todo /\ run'[r].now = run[r].now
        /\ run'[r].gaveUp = run[r].gaveUp /\ run'[r].pc = "plan"
    BY <1>a, <1>4 DEF MarkStaleAsFailed, Goto, RunType
  <2> QED BY <1>3, <2>1 DEF PastInsert
<1>5. CASE Heartbeat(r) \/ HandlerReturns(r)
  <2>1. /\ run'[r].todo = run[r].todo /\ run'[r].now = run[r].now
        /\ run'[r].gaveUp = run[r].gaveUp /\ run[r].pc = "running"
    <3>1. CASE Heartbeat(r)
      BY <1>a, <3>1 DEF Heartbeat, RunType
    <3>2. CASE HandlerReturns(r)
      <4>1. PICK ok \in BOOLEAN :
              run' = [run EXCEPT ![r].pc = "finish", ![r].ok = ok, ![r].beat = clock]
        BY <3>2 DEF HandlerReturns
      <4> QED BY <1>a, <3>2, <4>1 DEF HandlerReturns, RunType
    <3> QED BY <1>5, <3>1, <3>2
  <2>2. Plan(r)' \in Stored'
    BY <1>a, <2>1 DEF PastInsert, Plan
  <2> QED BY <1>3, <2>1, <2>2 DEF PastInsert
<1>6. ASSUME run[r].todo # <<>>, NEW attempt, TakeLease(r, Leased(r, attempt))
      PROVE  Regular(run'[r].todo) /\ NoneBefore(r)' /\ PastInsert(r)'
  <2>1. /\ run'[r].todo = run[r].todo /\ run'[r].now = run[r].now
        /\ run'[r].gaveUp = run[r].gaveUp
    BY <1>a, <1>6 DEF TakeLease, RunType
  <2>2. row'[Plan(r)].status # "none"
    BY <1>a, <1>6 DEF TakeLease, Leased
  <2>3. Plan(r)' = Plan(r) /\ Plan(r) \in Plans
    BY <1>a, <1>6, <2>1 DEF Plan
  <2>4. Plan(r)' \in Stored'
    BY <2>2, <2>3 DEF Stored
  <2> QED BY <1>3, <2>1, <2>4 DEF PastInsert
<1>7. CASE ClaimInsert(r)
  <2>1. CASE row[Plan(r)].status # "none" /\ Goto(r, "steal") /\ UNCHANGED row
    <3>1. /\ run'[r].todo = run[r].todo /\ run'[r].now = run[r].now
          /\ run'[r].gaveUp = run[r].gaveUp
      BY <1>a, <2>1 DEF Goto, RunType
    <3>2. Plan(r)' = Plan(r) /\ Plan(r) \in Plans
      BY <1>7, <1>a, <3>1 DEF Plan, ClaimInsert
    <3>3. Plan(r)' \in Stored'
      BY <2>1, <3>2 DEF Stored
    <3> QED BY <1>3, <3>1, <3>3 DEF PastInsert
  <2> QED BY <1>6, <1>7, <2>1 DEF ClaimInsert
<1>8. CASE ClaimSteal(r)
  <2>1. run[r].pc = "steal" /\ run[r].todo # <<>> /\ Plan(r) \in Stored
    BY <1>8, <1>a DEF ClaimSteal, IInv, BusyHasPlan, PastInsert
  <2>2. CASE NextPlan(r, run[r].gaveUp)
    BY <2>1, <2>2, NextInOrder
  <2> QED BY <1>6, <1>8, <2>1, <2>2 DEF ClaimSteal
<1>9. CASE ClaimError(r)
  <2>1. run[r].todo # <<>> /\ NextPlan(r, run[r].gaveUp \cup {Plan(r)})
    BY <1>9 DEF ClaimError, IInv, BusyHasPlan
  <2> QED BY <2>1, NextInOrder
<1>10. CASE Finish(r)
  <2>1. run[r].todo # <<>> /\ Plan(r) \in Stored /\ NextPlan(r, run[r].gaveUp)
    BY <1>10, <1>a DEF Finish, IInv, BusyHasPlan, PastInsert
  <2> QED BY <2>1, NextInOrder
<1> QED
  BY <1>1, <1>2, <1>4, <1>5, <1>7, <1>8, <1>9, <1>10 DEF Step, Proceed

LEMMA NextSkipInv ==
  ASSUME Mode = "every_plan"
  PROVE  IInv /\ SkipInv /\ [Next]_vars => SkipInv'
<1> SUFFICES ASSUME IInv, SkipInv, [Next]_vars PROVE SkipInv'
  OBVIOUS
<1>1. CASE AdvanceClock
  <2>1. row' = row /\ Stored' = Stored /\ LatestTime' = LatestTime
    BY <1>1 DEF AdvanceClock, Stored, LatestTime
  <2>2. ASSUME NEW r \in Runners
        PROVE  Regular(run'[r].todo) /\ NoneBefore(r)' /\ PastInsert(r)'
    <3>1. SamePlace(run[r], run'[r]) /\ run'[r].gaveUp = run[r].gaveUp
      BY <1>1, Waiting DEF IInv
    <3>2. Regular(run[r].todo) /\ NoneBefore(r) /\ PastInsert(r)
      BY DEF SkipInv
    <3> QED BY <2>1, <3>1, <3>2
        DEF NoneBefore, PastInsert, SamePlace, Plan, WindowStart, FloorPlan
  <2> QED BY <2>1, <2>2 DEF SkipInv
<1>2. ASSUME NEW r \in Runners, Step(r) PROVE SkipInv'
  <2>1. ASSUME NEW s \in Runners
        PROVE  Regular(run'[s].todo) /\ NoneBefore(s)' /\ PastInsert(s)'
    <3>1. CASE s = r
      BY <1>2, <3>1, OwnOrder
    <3>2. CASE s # r
      <4>1. run'[s] = run[s] /\ Stored \subseteq Stored' /\ PastInsert(s)
        BY <1>2, <3>2, StepIsLocal, NewestGrows DEF SkipInv
      <4> QED BY <1>2, <4>1, SameTick DEF PastInsert, Plan
    <3> QED BY <3>1, <3>2
  <2>2. \A p \in Stored' : p % Cadence = 0
    <3>1. ASSUME run[r].todo # <<>> PROVE Plan(r) % Cadence = 0
      <4>1. run[r].todo \in Seq(Plans) /\ Regular(run[r].todo)
        BY DEF IInv, TypeOK, RunType, SkipInv
      <4> QED BY <3>1, <4>1, RegularTail DEF Plan
    <3> QED BY <1>2, <3>1, RowsAdded DEF SkipInv
  <2> QED BY <2>1, <2>2 DEF SkipInv
<1>3. CASE UNCHANGED vars
  <2>1. Stored' = Stored /\ LatestTime' = LatestTime
    BY <1>3 DEF vars, Stored, LatestTime
  <2> QED BY <1>3, <2>1
      DEF vars, SkipInv, NoneBefore, PastInsert, Plan, WindowStart, FloorPlan
<1> QED BY <1>1, <1>2, <1>3 DEF Next, Step

\* every_plan never stores a row beyond a bucket that has none, for every number
\* of plans a tick, window, fault and crash, unless that bucket is behind the
\* window or the tick that stores the row gave it up.
THEOREM NoBucketIsSkipped ==
  ASSUME Mode = "every_plan"
  PROVE  Spec => NothingSkipped
<1>1. Init => SkipInv
  <2>1. Init => Stored = {}
    BY DEF Init, Stored, NoRow
  <2>2. Len(<<>>) = 0
    OBVIOUS
  <2> QED BY <2>1, <2>2 DEF Init, SkipInv, Regular, NoneBefore, PastInsert, Idle, Between
<1>2. IInv /\ SkipInv /\ [Next]_vars => SkipInv'
  BY NextSkipInv
<1> DEFINE InOrder(r, p) ==
      Stores(r, p) /\ Stored # {} =>
        \A t \in LatestTime + 1 .. p - 1 : t % Cadence = 0 =>
          t < WindowStart(run[r].now) \/ t \in run[r].gaveUp
<1>3. IInv /\ SkipInv /\ [Next]_vars => [\A r \in Runners, p \in Plans : InOrder(r, p)]_vars
  <2> SUFFICES ASSUME IInv, SkipInv, [Next]_vars, NEW r \in Runners, NEW p \in Plans,
                      Stores(r, p), Stored # {}, NEW t \in LatestTime + 1 .. p - 1,
                      t % Cadence = 0
               PROVE  t < WindowStart(run[r].now) \/ t \in run[r].gaveUp
    OBVIOUS
  <2>1. p \notin Stored /\ p \in Stored' /\ run'[r] # run[r] /\ row' # row
    BY DEF Stores, Stored
  <2>2. PICK s \in Runners : Step(s)
    BY <2>1 DEF Next, Step, AdvanceClock, vars
  <2>3. s = r
    BY <2>1, <2>2, StepIsLocal
  <2>4. p = Plan(r) /\ run[r].todo # <<>>
    BY <2>1, <2>2, <2>3, RowsAdded
  <2>5. LatestTime \in Nat /\ p \in Nat /\ p <= MaxTime
    BY LatestIsNewest, SchedulerAssumption DEF Stored, Plans
  <2>6. t \in Plans /\ LatestTime < t /\ t < p
    BY <2>5, SchedulerAssumption DEF Plans
  <2> QED BY <2>4, <2>6 DEF SkipInv, NoneBefore
<1> QED BY <1>1, <1>2, <1>3, Invariance, PTL DEF Spec, NothingSkipped

-----------------------------------------------------------------------------
(* The planner against its reference, for every cadence, delay, window, newest *)
(* row and clock reading.                                                     *)

\* The multiples of c from a to b.
Multiples(a, b, c) == {t \in Nat : t % c = 0 /\ a <= t /\ t <= b}

\* How many there are, from a multiple to a multiple.
Count(a, b, c) == IF a > b THEN 0 ELSE (b - a) \div c + 1

\* Multiples in order: the k-th one lies k - 1 steps above the first.
LEMMA Progression ==
  ASSUME NEW c \in Nat \ {0}, NEW a \in Nat, NEW b \in Nat, a % c = 0, b % c = 0
  PROVE  /\ Count(a, b, c) \in Nat
         /\ \A k \in 1 .. Count(a, b, c) : a + (k - 1) * c \in Multiples(a, b, c)
         /\ \A t \in Multiples(a, b, c) :
              \E k \in 1 .. Count(a, b, c) : t = a + (k - 1) * c
<1> DEFINE n == Count(a, b, c)
<1>1. CASE a > b
  BY <1>1 DEF Count, Multiples
<1>2. CASE a <= b
  <2>0. b - a \in Nat
    BY <1>2
  <2> DEFINE m == (b - a) \div c
             i == a \div c
  <2>1. n = m + 1 /\ m \in Nat
    BY <1>2, <2>0, MultipleBelow DEF Count
  <2>2. i \in Nat /\ a = i * c
    BY RemainderMultiple
  <2> HIDE DEF i
  <2>3. ASSUME NEW k \in 1 .. n
        PROVE  a + (k - 1) * c \in Multiples(a, b, c)
    <3> DEFINE l == k - 1
    <3>1. l \in Nat /\ l <= m
      BY <2>1
    <3> HIDE DEF l
    <3>2. l * c <= b - a /\ l * c \in Nat
      BY <2>0, <3>1, StepsBelow
    <3>3. (i + l) * c = i * c + l * c
      BY <2>2, <3>1, SMTT(30)
    <3>4. ((i + l) * c) % c = 0
      BY <2>2, <3>1, MultipleRemainder
    <3>5. a + l * c \in Multiples(a, b, c)
      BY <1>2, <2>2, <3>2, <3>3, <3>4 DEF Multiples
    <3> QED BY <3>5 DEF l
  <2>4. ASSUME NEW t \in Multiples(a, b, c)
        PROVE  \E k \in 1 .. n : t = a + (k - 1) * c
    <3>1. t \in Nat /\ t % c = 0 /\ a <= t /\ t <= b
      BY DEF Multiples
    <3> DEFINE j == t \div c
               l == j - i
    <3>2. j \in Nat /\ t = j * c
      BY <3>1, RemainderMultiple
    <3> HIDE DEF j
    <3>3. i <= j
      <4>1. j < i => j * c < i * c
        BY <2>2, <3>2, SMTT(30)
      <4> QED BY <2>2, <3>1, <3>2, <4>1
    <3>4. l \in Nat /\ j = i + l
      BY <2>2, <3>2, <3>3
    <3> HIDE DEF l
    <3>5. t = a + l * c
      <4>1. (i + l) * c = i * c + l * c
        BY <2>2, <3>4, SMTT(30)
      <4> QED BY <2>2, <3>2, <3>4, <4>1
    <3>6. l <= m
      <4> DEFINE d == b - a
      <4>1. d \in Nat /\ l * c <= d
        <5>1. l * c \in Nat
          BY <3>4, SMTT(30)
        <5> QED BY <2>0, <3>1, <3>5, <5>1
      <4> HIDE DEF d
      <4>2. d < ((d \div c) + 1) * c /\ d \div c \in Nat
        BY <4>1, SMTT(30)
      <4>3. l > d \div c => l * c >= ((d \div c) + 1) * c
        BY <3>4, <4>2, SMTT(30)
      <4>4. l * c \in Nat /\ ((d \div c) + 1) * c \in Nat
        BY <3>4, <4>2, SMTT(30)
      <4>5. l <= d \div c
        BY <3>4, <4>1, <4>2, <4>3, <4>4
      <4> QED BY <4>5 DEF d
    <3>7. l + 1 \in 1 .. n /\ (l + 1) - 1 = l
      BY <2>1, <3>4, <3>6
    <3> QED BY <3>5, <3>7
  <2> QED BY <2>1, <2>3, <2>4
<1> QED BY <1>1, <1>2

\* They increase.
LEMMA Increasing ==
  ASSUME NEW c \in Nat \ {0}, NEW a \in Nat, NEW j \in Nat, NEW k \in Nat, j < k
  PROVE  a + j * c < a + k * c
<1>1. j * c < k * c /\ j * c \in Nat /\ k * c \in Nat
  BY SMTT(30)
<1> QED BY <1>1

\* So the first m of them are m in number,
LEMMA FirstMultiples ==
  ASSUME NEW c \in Nat \ {0}, NEW a \in Nat, NEW m \in Nat
  PROVE  Cardinality({a + (k - 1) * c : k \in 1 .. m}) = m
<1> DEFINE S == {a + (k - 1) * c : k \in 1 .. m}
           f == [k \in 1 .. m |-> a + (k - 1) * c]
<1>1. f \in [1 .. m -> S] /\ \A t \in S : \E k \in 1 .. m : f[k] = t
  OBVIOUS
<1>2. ASSUME NEW j \in 1 .. m, NEW k \in 1 .. m, j < k
      PROVE  f[j] < f[k]
  <2>1. j - 1 \in Nat /\ k - 1 \in Nat /\ j - 1 < k - 1
    BY <1>2
  <2> QED BY <2>1, Increasing
<1>3. \A k \in 1 .. m : f[k] \in Nat
  <2>1. ASSUME NEW k \in 1 .. m PROVE a + (k - 1) * c \in Nat
    <3>1. k - 1 \in Nat
      OBVIOUS
    <3> QED BY <3>1, SMTT(30)
  <2> QED BY <2>1
<1> HIDE DEF f, S
<1>4. \A j, k \in 1 .. m : f[j] = f[k] => j = k
  BY <1>2, <1>3
<1>5. f \in Bijection(1 .. m, S)
  BY <1>1, <1>4, Fun_IsBij
<1>6. ExistsBijection(1 .. m, S)
  BY <1>5, Fun_ExistsBij
<1> QED BY <1>6, FS_CountingElements DEF S

\* and as many lie below the one after.
LEMMA MultiplesCounted ==
  ASSUME NEW c \in Nat \ {0}, NEW a \in Nat, NEW b \in Nat, a % c = 0, b % c = 0
  PROVE  /\ Cardinality(Multiples(a, b, c)) = Count(a, b, c)
         /\ \A i \in 1 .. Count(a, b, c) :
              Cardinality({t \in Multiples(a, b, c) : t < a + (i - 1) * c}) = i - 1
<1> DEFINE n == Count(a, b, c)
           M == Multiples(a, b, c)
<1>0. n \in Nat
  BY Progression
<1>1. M = {a + (k - 1) * c : k \in 1 .. n}
  <2>1. \A k \in 1 .. n : a + (k - 1) * c \in M
    BY Progression
  <2>2. \A t \in M : \E k \in 1 .. n : t = a + (k - 1) * c
    BY Progression
  <2> HIDE DEF n, M
  <2> QED BY <2>1, <2>2
<1> HIDE DEF n, M
<1>2. ASSUME NEW i \in 1 .. n
      PROVE  {t \in M : t < a + (i - 1) * c} = {a + (k - 1) * c : k \in 1 .. (i - 1)}
  <2>1. ASSUME NEW j \in 1 .. n, NEW k \in 1 .. n
        PROVE  /\ j < k => a + (j - 1) * c < a + (k - 1) * c
               /\ a + (j - 1) * c \in Nat
    <3>1. j - 1 \in Nat /\ k - 1 \in Nat /\ (j < k => j - 1 < k - 1)
      BY <1>0
    <3>2. (j - 1) * c \in Nat
      BY <3>1, SMTT(30)
    <3> QED BY <3>1, <3>2, Increasing
  <2>2. ASSUME NEW k \in 1 .. n
        PROVE  a + (k - 1) * c < a + (i - 1) * c <=> k \in 1 .. (i - 1)
    <3>1. k < i => a + (k - 1) * c < a + (i - 1) * c
      BY <2>1
    <3>2. i < k => a + (i - 1) * c < a + (k - 1) * c
      BY <2>1
    <3>3. a + (k - 1) * c \in Nat /\ a + (i - 1) * c \in Nat
      BY <2>1
    <3>4. k = i => ~(a + (k - 1) * c < a + (i - 1) * c)
      BY <3>3
    <3>5. k \in 1 .. (i - 1) <=> k < i
      BY <1>0
    <3>6. k < i \/ i < k \/ k = i
      BY <1>0
    <3> HIDE <2>1, <1>1
    <3> QED BY <3>1, <3>2, <3>3, <3>4, <3>5, <3>6
  <2>3. 1 .. (i - 1) \subseteq 1 .. n
    BY <1>0
  <2> QED BY <1>1, <2>2, <2>3
<1>3. Cardinality(M) = n
  BY <1>0, <1>1, FirstMultiples
<1>4. ASSUME NEW i \in 1 .. n
      PROVE  Cardinality({t \in M : t < a + (i - 1) * c}) = i - 1
  <2> DEFINE m == i - 1
             S == {a + (k - 1) * c : k \in 1 .. m}
  <2>1. m \in Nat
    BY <1>0
  <2>2. Cardinality(S) = m
    <3> HIDE DEF m
    <3> QED BY <2>1, FirstMultiples
  <2> HIDE DEF S
  <2>3. {t \in M : t < a + (i - 1) * c} = S
    BY <1>2 DEF S
  <2> QED BY <2>2, <2>3
<1> QED BY <1>3, <1>4 DEF n, M

\* The multiples of c up to e end in its rounding down.
LEMMA RoundedDown ==
  ASSUME NEW c \in Nat \ {0}, NEW e \in Nat
  PROVE  /\ (e \div c) * c \in Nat /\ ((e \div c) * c) % c = 0 /\ (e \div c) * c <= e
         /\ e < (e \div c) * c + c
         /\ \A t \in Nat : t % c = 0 => (t <= e <=> t <= (e \div c) * c)
<1> DEFINE q == e \div c
           r == q * c
<1>1. q \in Nat /\ r \in Nat /\ r <= e
  BY MultipleBelow
<1>2. r % c = 0
  BY <1>1, MultipleRemainder
<1>3. e < r + c
  <2>1. e < (q + 1) * c
    BY SMTT(30)
  <2>2. (q + 1) * c = r + c
    BY <1>1, SMTT(30)
  <2> HIDE DEF q, r
  <2> QED BY <2>1, <2>2
<1> HIDE DEF q, r
<1>4. ASSUME NEW t \in Nat, t % c = 0, t <= e
      PROVE  t <= r
  <2>1. CASE r < t
    <3>1. t <= r + c
      BY <1>1, <1>3, <1>4
    <3>2. t = r + c
      BY <1>1, <1>2, <1>4, <2>1, <3>1, NextMultiple
    <3> QED BY <1>1, <1>3, <1>4, <3>2
  <2> QED BY <1>1, <2>1
<1>5. ASSUME NEW t \in Nat, t % c = 0
      PROVE  t <= e <=> t <= r
  <2>1. t <= r => t <= e
    BY <1>1
  <2> QED BY <1>4, <1>5, <2>1
<1> QED BY <1>1, <1>2, <1>3, <1>5 DEF q, r

\* Inputs: the clock has passed the delay, the newest row is on the grid.
PlannerInput ==
    /\ tick \in PlanDelay .. MaxNow
    /\ \/ latestTime = P!NoTime
       \/ latestTime \in Nat /\ latestTime % PlanCadence = 0

\* The bounds EveryPlanPlans computes.
Newest == P!FloorPlan(tick - PlanDelay)
Oldest == IF PlanWindow = 0 THEN Newest ELSE P!Greatest(tick - PlanWindow, 0)
Cursor == P!EveryPlanCursor(latestTime, info, PlanAttempts, tick, Newest)
First == IF Cursor >= Oldest THEN Cursor
         ELSE IF P!FloorPlan(Oldest) < Oldest THEN P!FloorPlan(Oldest) + PlanCadence
         ELSE P!FloorPlan(Oldest)

\* The grid ends in Newest; the cursor and the window begin on times of their own,
\* the cursor on the grid.
LEMMA PlannerBounds ==
  ASSUME PlannerInput
  PROVE  /\ Newest \in Nat /\ Newest % PlanCadence = 0
         /\ \A t \in Nat : t % PlanCadence = 0 => (t + PlanDelay <= tick <=> t <= Newest)
         /\ Newest <= MaxNow
         /\ Oldest \in Nat
         /\ Cursor \in Nat /\ Cursor % PlanCadence = 0
<1> DEFINE c == PlanCadence
           e == tick - PlanDelay
<1>1. c \in Nat \ {0} /\ e \in Nat /\ tick \in Nat /\ PlanDelay \in Nat /\ MaxNow \in Nat
      /\ PlanWindow \in Nat /\ tick <= MaxNow /\ e <= tick
  BY PlannerInputs DEF PlannerInput
<1>2. Newest = (e \div c) * c
  BY DEF Newest, P!FloorPlan
<1>3. \A t \in Nat : t + PlanDelay <= tick <=> t <= e
  BY <1>1
<1> HIDE DEF c, e
<1>4. /\ Newest \in Nat /\ Newest % c = 0 /\ Newest <= e
      /\ \A t \in Nat : t % c = 0 => (t <= e <=> t <= Newest)
  BY <1>1, <1>2, RoundedDown
<1>5. Oldest \in Nat
  BY <1>1, <1>4 DEF Oldest, P!Greatest
<1>6. Cursor \in Nat /\ Cursor % c = 0
  <2>1. CASE latestTime = P!NoTime
    BY <1>4, <2>1 DEF Cursor, P!EveryPlanCursor
  <2>2. CASE latestTime # P!NoTime
    <3>1. latestTime \in Nat /\ latestTime % c = 0
      BY <2>2 DEF PlannerInput, c
    <3>2. (latestTime + c) % c = 0
      BY <1>1, <3>1, StepRemainder
    <3>3. latestTime + c \in Nat
      BY <1>1, <3>1
    <3>4. Cursor = latestTime \/ Cursor = latestTime + c
      BY <2>2 DEF Cursor, P!EveryPlanCursor, c
    <3> QED BY <3>1, <3>2, <3>3, <3>4
  <2> QED BY <2>1, <2>2
<1>7. Newest <= MaxNow
  BY <1>1, <1>4
<1>8. \A t \in Nat : t % c = 0 => (t + PlanDelay <= tick <=> t <= Newest)
  BY <1>3, <1>4
<1> QED BY <1>4, <1>5, <1>6, <1>7, <1>8 DEF c

\* The first plan_time is the first of the grid past both the cursor and the window.
LEMMA FirstIsFirst ==
  ASSUME PlannerInput
  PROVE  /\ First \in Nat /\ First % PlanCadence = 0
         /\ \A t \in Nat : t % PlanCadence = 0 => (t >= First <=> t >= Cursor /\ t >= Oldest)
<1> DEFINE c == PlanCadence
           f == P!FloorPlan(Oldest)
<1>0. c \in Nat \ {0}
  BY PlannerInputs
<1>1. Oldest \in Nat /\ Cursor \in Nat /\ Cursor % c = 0
  BY PlannerBounds
<1>2. f = (Oldest \div c) * c
  BY DEF P!FloorPlan
<1> HIDE DEF c, f
<1>3. /\ f \in Nat /\ f % c = 0 /\ f <= Oldest /\ Oldest < f + c
      /\ \A t \in Nat : t % c = 0 => (t <= Oldest <=> t <= f)
  BY <1>0, <1>1, <1>2, RoundedDown
<1>4. (f + c) % c = 0 /\ f + c \in Nat
  <2>1. (f + c) % c = 0
    BY <1>0, <1>3, StepRemainder
  <2>2. f + c \in Nat
    BY <1>0, <1>3
  <2> QED BY <2>1, <2>2
<1>5. First = IF Cursor >= Oldest THEN Cursor ELSE IF f < Oldest THEN f + c ELSE f
  BY DEF First, f, c
<1>6. First \in Nat /\ First % c = 0
  BY <1>1, <1>3, <1>4, <1>5
<1>7. ASSUME NEW t \in Nat, t % c = 0
      PROVE  t >= First <=> t >= Cursor /\ t >= Oldest
  <2>1. CASE Cursor >= Oldest
    BY <1>1, <1>5, <2>1
  <2>2. CASE Cursor < Oldest /\ f < Oldest
    <3>1. First = f + c
      BY <1>1, <1>5, <2>2
    <3>2. t >= f + c => t >= Oldest
      BY <1>0, <1>1, <1>3
    <3>3. t >= Oldest => t > f
      BY <1>1, <1>3, <2>2
    <3>4. t > f => t >= f + c
      <4>1. CASE t > f /\ t <= f + c
        BY <1>0, <1>3, <1>7, <4>1, NextMultiple
      <4> QED BY <1>0, <1>3, <4>1
    <3> QED BY <1>1, <2>2, <3>1, <3>2, <3>3, <3>4
  <2>3. CASE Cursor < Oldest /\ f = Oldest
    BY <1>1, <1>5, <2>3
  <2> QED BY <1>1, <1>3, <2>1, <2>2, <2>3
<1> QED BY <1>6, <1>7 DEF c

\* What is owed is the grid from there to its end.
LEMMA OwedIsRun ==
  ASSUME PlannerInput
  PROVE  Owed = Multiples(First, Newest, PlanCadence)
<1> DEFINE c == PlanCadence
           grid == {t \in 0 .. MaxNow : t % c = 0 /\ t + PlanDelay <= tick}
           inWindow == {t \in grid : IF PlanWindow = 0 THEN \A u \in grid : u <= t
                                                      ELSE t >= tick - PlanWindow}
           owes(t) == \/ t > latestTime /\ latestTime # P!NoTime
                      \/ t = latestTime /\ RetryDue
                      \/ latestTime = P!NoTime /\ \A u \in grid : u <= t
<1>1. Owed = {t \in inWindow : owes(t)}
  BY DEF Owed
<1>2. /\ c \in Nat \ {0} /\ PlanWindow \in Nat /\ tick \in Nat /\ MaxNow \in Nat
      /\ PlanDelay \in Nat
  BY PlannerInputs DEF PlannerInput
<1>3. /\ Newest \in Nat /\ Newest % c = 0 /\ Newest <= MaxNow
      /\ \A t \in Nat : t % c = 0 => (t + PlanDelay <= tick <=> t <= Newest)
      /\ Oldest \in Nat /\ Cursor \in Nat /\ Cursor % c = 0
  BY PlannerBounds
<1>4. grid = {t \in Nat : t % c = 0 /\ t <= Newest}
  BY <1>2, <1>3
<1> HIDE DEF grid
<1>5. \A t \in grid : (\A u \in grid : u <= t) <=> t >= Newest
  BY <1>3, <1>4
<1>6. ASSUME NEW t \in grid
      PROVE  t \in inWindow <=> t >= Oldest
  BY <1>2, <1>3, <1>4, <1>5 DEF Oldest, P!Greatest
<1>7. ASSUME NEW t \in grid
      PROVE  owes(t) <=> t >= Cursor
  <2>0. t \in Nat /\ t % c = 0
    BY <1>4
  <2>1. CASE latestTime = P!NoTime
    <3>1. Cursor = Newest
      BY <2>1 DEF Cursor, P!EveryPlanCursor
    <3>2. t # latestTime
      BY <2>0, <2>1 DEF P!NoTime
    <3> QED BY <1>5, <2>1, <3>1, <3>2
  <2>2. CASE latestTime # P!NoTime
    <3>1. latestTime \in Nat /\ latestTime % c = 0
      BY <2>2 DEF PlannerInput
    <3>2. Cursor = IF RetryDue THEN latestTime ELSE latestTime + c
      BY <2>2 DEF Cursor, P!EveryPlanCursor, RetryDue
    <3> HIDE DEF c
    <3>3. t > latestTime => t >= latestTime + c
      <4>1. CASE t > latestTime /\ t <= latestTime + c
        BY <1>2, <2>0, <3>1, <4>1, NextMultiple
      <4> QED BY <1>2, <2>0, <3>1, <4>1
    <3>4. t >= latestTime + c => t > latestTime
      BY <1>2, <2>0, <3>1
    <3>5. t >= latestTime <=> t > latestTime \/ t = latestTime
      BY <2>0, <3>1
    <3> QED BY <2>2, <3>2, <3>3, <3>4, <3>5
  <2> QED BY <2>1, <2>2
<1>8. \A t \in Nat : t % c = 0 => (t >= First <=> t >= Cursor /\ t >= Oldest)
  BY FirstIsFirst
<1>9. First \in Nat
  BY FirstIsFirst
<1>10. \A t : t \in Owed <=> t \in grid /\ t >= Cursor /\ t >= Oldest
  <2>1. inWindow \subseteq grid
    OBVIOUS
  <2> HIDE DEF inWindow, owes
  <2> QED BY <1>1, <1>6, <1>7, <2>1
<1> HIDE DEF inWindow, owes
<1>11. \A t : t \in Owed <=> t \in Nat /\ t % c = 0 /\ First <= t /\ t <= Newest
  BY <1>4, <1>8, <1>9, <1>10
<1> QED BY <1>11 DEF Multiples

\* What every_plan returns.
LEMMA EveryPlanIsRun ==
  ASSUME PlannerInput
  PROVE  LET n == P!Least(Count(First, Newest, PlanCadence), PlansPerTick) IN
         P!EveryPlanPlans(latestTime, info, PlanAttempts, tick) =
           [i \in 1 .. n |-> First + (i - 1) * PlanCadence]
BY DEF P!EveryPlanPlans, First, Cursor, Oldest, Newest, Count

\* Every input the runs enumerate is one.
LEMMA InputsLast == PlannerSpec => []PlannerInput
<1>1. ASSUME PlannerInit
      PROVE  PlannerInput
  <2>1. tick \in PlanDelay .. MaxNow
    BY <1>1, PlannerInputs DEF PlannerInit
  <2>2. latestTime = P!NoTime \/ latestTime \in {t \in 0 .. MaxNow : t % PlanCadence = 0}
    BY <1>1 DEF PlannerInit
  <2>3. \/ latestTime = P!NoTime
        \/ latestTime \in Nat /\ latestTime % PlanCadence = 0
    BY <2>2, PlannerInputs
  <2> QED BY <2>1, <2>3 DEF PlannerInput
<1>2. PlannerInput /\ [PlannerNext]_plannerVars => PlannerInput'
  BY PlannerInputs DEF PlannerInput, PlannerNext, plannerVars, P!NoTime
<1> QED BY <1>1, <1>2, PTL DEF PlannerSpec

\* every_plan attempts the oldest plan_times it owes, in order, and as many as one
\* tick may: none behind the newest row or the window is attempted, none that is
\* owed is left out before a later one.
THEOREM EveryPlanOwed == PlannerSpec => []EveryPlanIsOwedPrefix
<1>1. ASSUME PlannerInput
      PROVE  EveryPlanIsOwedPrefix
  <2> DEFINE c == PlanCadence
             m == Count(First, Newest, c)
             n == P!Least(m, PlansPerTick)
             plans == P!EveryPlanPlans(latestTime, info, PlanAttempts, tick)
  <2>1. c \in Nat \ {0} /\ PlansPerTick \in Nat
    BY PlannerInputs
  <2>2. First \in Nat /\ First % c = 0 /\ Newest \in Nat /\ Newest % c = 0
    BY <1>1, FirstIsFirst, PlannerBounds
  <2>3. Owed = Multiples(First, Newest, c)
    BY <1>1, OwedIsRun
  <2>4. plans = [i \in 1 .. n |-> First + (i - 1) * c]
    BY <1>1, EveryPlanIsRun
  <2> HIDE DEF c, plans
  <2>5. /\ m \in Nat
        /\ \A k \in 1 .. m : First + (k - 1) * c \in Owed
        /\ Cardinality(Owed) = m
        /\ \A i \in 1 .. m : Cardinality({t \in Owed : t < First + (i - 1) * c}) = i - 1
    <3>1. m \in Nat /\ \A k \in 1 .. m : First + (k - 1) * c \in Multiples(First, Newest, c)
      BY <2>1, <2>2, Progression
    <3>2. /\ Cardinality(Multiples(First, Newest, c)) = m
          /\ \A i \in 1 .. m : Cardinality({t \in Multiples(First, Newest, c) :
                                             t < First + (i - 1) * c}) = i - 1
      BY <2>1, <2>2, MultiplesCounted
    <3> QED BY <2>3, <3>1, <3>2
  <2> HIDE DEF m
  <2>6. n \in Nat /\ n <= m
    BY <2>1, <2>5 DEF P!Least
  <2> HIDE DEF n
  <2>7. DOMAIN plans = 1 .. n /\ \A i \in 1 .. n : plans[i] = First + (i - 1) * c /\ i \in 1 .. m
    BY <2>4, <2>5, <2>6
  <2>8. Elements(plans) \subseteq Owed
    BY <2>5, <2>7 DEF Elements
  <2>9. Len(plans) = n
    <3>1. \A i \in 1 .. n : First + (i - 1) * c \in Owed
      BY <2>5, <2>7
    <3>2. plans \in [1 .. n -> Owed]
      BY <2>4, <3>1
    <3> QED BY <2>6, <3>2
  <2>10. n = P!Least(Cardinality(Owed), PlansPerTick)
    BY <2>5 DEF n
  <2>11. \A i \in DOMAIN plans : Cardinality({t \in Owed : t < plans[i]}) = i - 1
    BY <2>5, <2>7
  <2> QED BY <2>8, <2>9, <2>10, <2>11 DEF EveryPlanIsOwedPrefix, plans
<1> QED BY <1>1, InputsLast, PTL

\* The autopilot hook attempts the due retry of the newest row, or the newest missed
\* occurrence unless it is too late; older ones are dropped, never replayed.
THEOREM AutopilotNewestFresh == PlannerSpec => []AutopilotPlanIsNewestFresh
<1>1. ASSUME PlannerInput
      PROVE  AutopilotPlanIsNewestFresh
  <2> DEFINE plans == P!AutopilotPlans(latestTime, info, PlanAttempts, tick)
             due == {t \in CronOccurrences :
                       /\ t <= tick /\ t > latestTime /\ t > tick - PlanWindow
                       /\ latestTime = P!NoTime => t > CronAnchor}
             fresh == {t \in due : tick - t <= CronLateness /\ \A u \in due : u <= t}
             anchor == IF latestTime # P!NoTime THEN latestTime ELSE CronAnchor
             after == P!Greatest(anchor, tick - PlanWindow)
  <2>1. CASE latestTime # P!NoTime /\ RetryDue
    BY <2>1 DEF AutopilotPlanIsNewestFresh, P!AutopilotPlans, RetryDue
  <2>2. CASE ~(latestTime # P!NoTime /\ RetryDue)
    <3>1. /\ CronOccurrences \subseteq Nat /\ tick \in Nat /\ tick - PlanWindow \in Int
          /\ anchor \in Nat
      BY <1>1, PlannerInputs DEF PlannerInput
    <3>2. {t \in CronOccurrences : after < t /\ t <= tick} = due
      <4>1. \A t \in CronOccurrences : t > latestTime \/ latestTime # P!NoTime
        BY <3>1 DEF P!NoTime
      <4>2. \A t \in CronOccurrences : after < t <=> anchor < t /\ tick - PlanWindow < t
        BY <3>1 DEF P!Greatest
      <4> HIDE DEF after
      <4> QED BY <4>1, <4>2, <3>1, <1>1 DEF PlannerInput
    <3> HIDE DEF due
    <3>3. plans = IF fresh = {} THEN << >> ELSE << CHOOSE t \in fresh : TRUE >>
      <4> DEFINE D == {t \in CronOccurrences : after < t /\ t <= tick}
                 F == {t \in D : (\A u \in D : u <= t) /\ tick - t <= CronLateness}
      <4>1. plans = IF F = {} THEN << >> ELSE << CHOOSE t \in F : TRUE >>
        BY <2>2 DEF P!AutopilotPlans, RetryDue
      <4>2. D = due
        BY <3>2
      <4> HIDE DEF D
      <4>3. F = fresh
        BY <4>2
      <4> HIDE DEF F, fresh
      <4> QED BY <4>1, <4>3
    <3>4. \A t, u \in fresh : t = u
      BY <3>1 DEF due
    <3> HIDE DEF fresh, plans
    <3>5. Len(plans) <= 1 /\ Elements(plans) = fresh
      <4>1. CASE fresh = {}
        BY <3>3, <4>1 DEF Elements
      <4>2. CASE fresh # {}
        <5> DEFINE x == CHOOSE t \in fresh : TRUE
        <5>1. x \in fresh
          BY <4>2
        <5> HIDE DEF x
        <5>2. fresh = {x}
          BY <3>4, <5>1
        <5>3. plans = << x >>
          BY <3>3, <4>2 DEF x
        <5> QED BY <5>2, <5>3 DEF Elements
      <4> QED BY <4>1, <4>2
    <3> QED BY <2>2, <3>5 DEF AutopilotPlanIsNewestFresh, fresh, plans, due
  <2> QED BY <2>1, <2>2
<1> QED BY <1>1, InputsLast, PTL
=============================================================================
