------------------------ MODULE CommentCoverageProofs ------------------------
(***************************************************************************)
(* Proofs about CommentCoverage, for any comments, rows, attempts and       *)
(* disturbances.                                                            *)
(***************************************************************************)
EXTENDS CommentCoverage, WellFoundedInduction, TLAPS

SomeComment == Comments \cup {NoComment}
SampleType == [taken : BOOLEAN, trigger : SomeComment, plan : SUBSET Comments]
Statuses == {"none", "deferred", "queued", "dispatched", "running", "completed", "over"}
RunType == [status : Statuses, trigger : SomeComment, plan : SUBSET Comments,
            delivered : SUBSET Comments, sample : SampleType, handed : BOOLEAN,
            headSha : Nat, at : Nat]
Settling == {"merge", "active", "register", "enqueue", "handRegister", "handMerge", "handEnqueue"}
ResolverType == [pc : Settling \cup {"idle", "compute", "list", "delete"}, comment : SomeComment,
                 lostRace : BOOLEAN, headSha : Nat, attempt : Nat, todo : SUBSET Comments,
                 handsOn : BOOLEAN]

CoverageTyped ==
    /\ postedAt \in [Comments -> Nat] /\ moment \in Nat /\ headNow \in Nat /\ disturbances \in Nat
    /\ runs \in [TaskRows -> RunType] /\ resolver \in [Workers -> ResolverType]
    /\ promised \subseteq Comments /\ deleted \subseteq Comments /\ answered \subseteq Comments
    /\ excused \subseteq Comments /\ unfounded \subseteq Comments

\* A comment being settled is one of those to do, a request's only one is its own, and a
\* row's completion is resolved by nobody else before it and while the row stands.
Resolves(w) ==
    /\ R(w).pc = "idle" => R(w).todo = {}
    /\ R(w).pc \in Settling => R(w).comment \in R(w).todo
    /\ R(w).pc = "compute" => R(w).todo # {}
    /\ w \in Comments => R(w).todo \subseteq {w} /\ R(w).pc \notin {"list", "delete"}
    /\ R(w).pc = "list" => w \in TaskRows /\ runs[w].status = "completed"
    /\ R(w).pc = "delete" => w = Deletion /\ R(w).comment \in Comments
Unresolved(t) == ~Is(t, {"completed", "over"}) => R(t).pc = "idle"
DeliveredPlanned(t) == /\ runs[t].delivered \subseteq runs[t].plan \cup deleted
                       /\ runs[t].sample.plan \subseteq runs[t].plan \cup deleted
CoverageShape == /\ \A w \in Workers : Resolves(w)
                 /\ \A t \in TaskRows : Unresolved(t) /\ DeliveredPlanned(t)

CoverageInv == CoverageTyped /\ CoverageShape /\ KeptUnlessUnfounded

LEMMA Disjoint ==
  /\ TaskRows \subseteq Workers /\ Comments \subseteq Workers /\ Deletion \in Workers
  /\ Deletion \notin Comments /\ Deletion \notin TaskRows /\ TaskRows \cap Comments = {}
  /\ NoComment \notin Comments /\ TaskRows \subseteq Nat
BY CoverageAssumption DEF TaskRows, Workers

LEMMA DisturbanceType ==
  ASSUME CoverageTyped, Disturbed \/ UNCHANGED disturbances PROVE disturbances' \in Nat
BY DEF CoverageTyped, Disturbed

LEMMA OldestIn ==
  ASSUME CoverageTyped, NEW C \in SUBSET Comments, C # {}
  PROVE  Oldest(C) \in C
<1> DEFINE T == {postedAt[c] : c \in C}
<1>1. T \subseteq Nat /\ T # {}
  BY DEF CoverageTyped
<1>2. PICK x \in T : \A y \in T : ~ (<< y, x >> \in OpToRel(<, Nat))
  BY <1>1, NatLessThanWellFounded, WFMin
<1>3. \A y \in T : x <= y
  <2>1. ASSUME NEW y \in T, y < x PROVE FALSE
    <3>1. << y, x >> \in OpToRel(<, Nat)
      BY <1>1, <2>1 DEF OpToRel
    <3> QED BY <1>2, <3>1
  <2>2. x \in Nat /\ \A y \in T : y \in Nat
    BY <1>1
  <2> QED BY <2>1, <2>2
<1>4. PICK c \in C : postedAt[c] = x
  BY <1>2
<1>5. \A d \in C : postedAt[c] <= postedAt[d]
  BY <1>3, <1>4
<1> QED BY <1>5 DEF Oldest

-----------------------------------------------------------------------------
(* What the steps write into a row and into a resolver.                       *)

LEMMA ResolvingType ==
  ASSUME NEW todo \in SUBSET Comments, NEW handsOn \in BOOLEAN
  PROVE  /\ Resolving(todo, handsOn) \in ResolverType /\ Resolving(todo, handsOn).todo = todo
         /\ Resolving(todo, handsOn).pc = IF todo = {} THEN "idle" ELSE "compute"
         /\ Quiet \in ResolverType /\ Quiet.pc = "idle" /\ Quiet.todo = {}
BY DEF Resolving, Quiet, ResolverType, SomeComment

LEMMA NoRunType ==
  /\ NoRun \in RunType /\ Over \in RunType /\ Over.status = "over" /\ Over.delivered = {}
  /\ Over.sample.plan = {} /\ NoRun.delivered = {} /\ NoRun.sample.plan = {}
  /\ NoSample \in SampleType /\ NoSample.plan = {}
BY DEF NoRun, Over, NoSample, RunType, SampleType, SomeComment, Statuses

\* A row that keeps its place and its plan, but for what is deleted of it.
SamePlan(t) == runs'[t].at = runs[t].at /\ runs[t].plan \ deleted' \subseteq runs'[t].plan
Steady(t) == /\ SamePlan(t) /\ runs'[t].status = runs[t].status
             /\ runs'[t].delivered = runs[t].delivered /\ runs'[t].sample = runs[t].sample

LEMMA PlanGrows ==
  ASSUME CoverageTyped, NEW t \in TaskRows, NEW c \in Comments,
         \/ runs' = [runs EXCEPT ![t].trigger = c, ![t].plan = @ \cup {c}]
         \/ runs' = [runs EXCEPT ![t].plan = @ \cup {c}]
  PROVE  /\ runs' \in [TaskRows -> RunType] /\ c \in runs'[t].plan
         /\ \A u \in TaskRows : Steady(u)
<1>1. runs[t] \in RunType /\ runs[t].plan \cup {c} \in SUBSET Comments /\ c \in SomeComment
  BY DEF CoverageTyped, RunType, SomeComment
<1>2. PICK q \in RunType : /\ runs' = [runs EXCEPT ![t] = q] /\ q.plan = runs[t].plan \cup {c}
                           /\ q.status = runs[t].status /\ q.at = runs[t].at
                           /\ q.delivered = runs[t].delivered /\ q.sample = runs[t].sample
  <2>1. CASE runs' = [runs EXCEPT ![t].trigger = c, ![t].plan = @ \cup {c}]
    <3> DEFINE q == [runs[t] EXCEPT !.trigger = c, !.plan = runs[t].plan \cup {c}]
    <3>1. runs' = [runs EXCEPT ![t] = q]
      BY <1>1, <2>1 DEF CoverageTyped, RunType
    <3>2. q \in RunType /\ q.plan = runs[t].plan \cup {c} /\ q.status = runs[t].status
          /\ q.at = runs[t].at /\ q.delivered = runs[t].delivered /\ q.sample = runs[t].sample
      BY <1>1 DEF RunType
    <3> QED BY <3>1, <3>2
  <2>2. CASE runs' = [runs EXCEPT ![t].plan = @ \cup {c}]
    <3> DEFINE q == [runs[t] EXCEPT !.plan = runs[t].plan \cup {c}]
    <3>1. runs' = [runs EXCEPT ![t] = q]
      BY <2>2
    <3>2. q \in RunType /\ q.plan = runs[t].plan \cup {c} /\ q.status = runs[t].status
          /\ q.at = runs[t].at /\ q.delivered = runs[t].delivered /\ q.sample = runs[t].sample
      BY <1>1 DEF RunType
    <3> QED BY <3>1, <3>2
  <2> QED BY <2>1, <2>2
<1> QED BY <1>1, <1>2 DEF CoverageTyped, Steady, SamePlan

LEMMA RunBegins ==
  ASSUME CoverageTyped, NEW t \in Fresh, NEW c \in SomeComment, NEW h \in Nat, NewRun(t, c, h)
  PROVE  /\ runs' \in [TaskRows -> RunType] /\ moment' \in Nat
         /\ t \in TaskRows /\ Is(t, {"none"}) /\ runs'[t].status = "queued"
         /\ runs'[t].plan = {c} \cap Comments /\ runs'[t].delivered = {}
         /\ runs'[t].sample.plan = {}
         /\ \A u \in TaskRows \ {t} : runs'[u] = runs[u]
<1>1. t \in TaskRows /\ Is(t, {"none"})
  BY DEF Fresh, Unborn
<1>2. {c} \ {NoComment} = {c} \cap Comments /\ moment + 1 \in Nat
  BY Disjoint DEF SomeComment, CoverageTyped
<1> DEFINE q == [NoRun EXCEPT !.status = "queued", !.trigger = c, !.plan = {c} \ {NoComment},
                              !.headSha = h, !.at = moment + 1]
<1>3. q \in RunType /\ q.status = "queued" /\ q.plan = {c} \cap Comments /\ q.delivered = {}
      /\ q.sample.plan = {}
  BY <1>2 DEF NoRun, NoSample, RunType, SampleType, SomeComment, Statuses
<1>4. runs' = [runs EXCEPT ![t] = q] /\ moment' = moment + 1
  BY DEF NewRun
<1> HIDE DEF q
<1> QED BY <1>1, <1>2, <1>3, <1>4 DEF CoverageTyped

\* What a resolver that settles its comment writes.
SettledBy(w) ==
    /\ resolver'[w].pc = IF resolver'[w].todo = {} THEN "idle" ELSE "compute"
    /\ IsReplay(w) => /\ resolver'[w].todo = R(w).todo \ {R(w).comment}
                      /\ promised' = promised
    /\ ~IsReplay(w) => resolver'[w].todo = {} /\ promised' \subseteq promised \cup {w}

LEMMA SettlesWrites ==
  ASSUME CoverageTyped, NEW w \in Workers, NEW outcome, Settles(w, outcome)
  PROVE  /\ resolver' \in [Workers -> ResolverType]
         /\ \A v \in Workers \ {w} : resolver'[v] = resolver[v]
         /\ SettledBy(w) /\ promised' \subseteq Comments
         /\ outcome = "blocked" => promised' = promised
<1>1. R(w) \in ResolverType
  BY DEF CoverageTyped, R
<1>2. CASE IsReplay(w)
  <2>1. R(w).todo \ {R(w).comment} \in SUBSET Comments /\ R(w).handsOn \in BOOLEAN
    BY <1>1 DEF ResolverType
  <2> DEFINE q == Resolving(R(w).todo \ {R(w).comment}, R(w).handsOn)
  <2>2. q \in ResolverType /\ q.todo = R(w).todo \ {R(w).comment}
        /\ q.pc = IF q.todo = {} THEN "idle" ELSE "compute"
    BY <2>1, ResolvingType
  <2>3. resolver' = [resolver EXCEPT ![w] = q] /\ promised' = promised
    BY <1>2 DEF Settles
  <2> HIDE DEF q
  <2> QED BY <1>2, <2>2, <2>3 DEF CoverageTyped, SettledBy
<1>3. CASE ~IsReplay(w)
  <2>1. resolver' = [resolver EXCEPT ![w] = Quiet]
        /\ promised' = IF outcome = "blocked" THEN promised ELSE promised \cup {w}
    BY <1>3 DEF Settles
  <2> QED BY <1>3, <2>1, ResolvingType DEF CoverageTyped, SettledBy, IsReplay
<1> QED BY <1>2, <1>3

-----------------------------------------------------------------------------
(* What covers a comment.                                                     *)

Replays(w, c) == IF R(w).pc = "list" THEN c \in Undelivered(w) ELSE c \in R(w).todo

LEMMA ReconcilableStays ==
  ASSUME CoverageTyped, CoverageTyped', \A d \in Comments : postedAt[d] <= postedAt'[d],
         NEW t \in TaskRows, NEW c \in Comments \ deleted', SamePlan(t), c \in Reconcilable(t)
  PROVE  c \in Reconcilable(t)'
<1>1. runs[t].at \in Nat /\ postedAt[c] \in Nat /\ postedAt'[c] \in Nat
  BY DEF CoverageTyped, RunType
<1>2. CASE c \in runs[t].plan
  BY <1>2 DEF SamePlan, Reconcilable
<1>3. CASE postedAt[c] > runs[t].at
  BY <1>1, <1>3 DEF SamePlan, Reconcilable, InWindow
<1> QED BY <1>2, <1>3 DEF Reconcilable, InWindow

\* A comment stays covered when each row that covers it keeps it or hands it on, and
\* each replay too.
LEMMA Carried ==
  ASSUME CoverageInv, CoverageTyped', \A d \in Comments : postedAt[d] <= postedAt'[d],
         answered \subseteq answered', excused \subseteq excused',
         NEW c \in Comments \ deleted', Covered(c),
         \A t \in TaskRows : Stands(t) /\ c \in Reconcilable(t)
                                => Covered(c)' \/ (Stands(t)' /\ SamePlan(t)),
         \A w \in Workers \ Comments : Replays(w, c)
             => \/ Covered(c)'
                \/ /\ R(w)'.pc = "list" <=> R(w).pc = "list"
                   /\ R(w)'.todo = R(w).todo
                   /\ R(w).pc = "list" => SamePlan(w) /\ runs'[w].delivered = runs[w].delivered
  PROVE  Covered(c)'
<1>0. CoverageTyped
  BY DEF CoverageInv
<1>1. ASSUME NEW t \in TaskRows, Stands(t), c \in Reconcilable(t) PROVE Covered(c)'
  BY <1>0, <1>1, ReconcilableStays DEF Covered
<1>2. ASSUME NEW w \in Workers \ Comments, Replays(w, c) PROVE Covered(c)'
  <2>1. CASE Covered(c)'
    BY <2>1
  <2>2. CASE R(w).pc = "list" /\ SamePlan(w) /\ runs'[w].delivered = runs[w].delivered
             /\ R(w)'.pc = "list"
    <3>1. w \in TaskRows /\ c \in Reconcilable(w) /\ c \notin runs[w].delivered
      BY <1>2, <2>2 DEF CoverageInv, CoverageShape, Resolves, Replays, Undelivered
    <3>2. c \in Reconcilable(w)'
      BY <1>0, <2>2, <3>1, ReconcilableStays
    <3>3. Replays(w, c)'
      BY <2>2, <3>1, <3>2 DEF Replays, Undelivered, R
    <3>4. Replaying(c)'
      BY <3>3 DEF Replaying, Replays, R, Workers, TaskRows
    <3> QED BY <3>4 DEF Covered
  <2>3. CASE R(w).pc # "list" /\ R(w)'.pc # "list" /\ R(w)'.todo = R(w).todo
    <3>1. Replays(w, c)'
      BY <1>2, <2>3 DEF Replays, R
    <3>2. Replaying(c)'
      BY <3>1 DEF Replaying, Replays, R, Workers, TaskRows
    <3> QED BY <3>2 DEF Covered
  <2> QED BY <1>2, <2>1, <2>2, <2>3
<1>3. Replaying(c) => \E w \in Workers \ Comments : Replays(w, c)
  BY DEF Replaying, Replays
<1> QED BY <1>1, <1>2, <1>3 DEF Covered

-----------------------------------------------------------------------------
(* A resolver's step.                                                         *)

\* What it leaves of the rows: a new one may begin.
RowsKeep ==
    \A t \in TaskRows :
       \/ Steady(t)
       \/ Is(t, {"none"}) /\ runs'[t].status = "queued" /\ runs'[t].delivered = {}
          /\ runs'[t].sample.plan = {}

\* It goes on with its comment, or settles it.
GoesOn(w) == /\ R(w)'.pc \in Settling /\ R(w)'.todo = R(w).todo
             /\ R(w)'.comment \in R(w).todo /\ promised' = promised
Settled(w) ==
    /\ SettledBy(w) /\ R(w).pc \in Settling
    /\ \/ \A c \in Comments : c = R(w).comment
                              => c \in deleted' \cup unfounded' \/ Covered(c)'
       \/ ~IsReplay(w) /\ promised' = promised

LEMMA ResolverMoves ==
  ASSUME CoverageInv, CoverageTyped', NEW w \in Workers, R(w).pc \in Settling \cup {"compute"},
         \A v \in Workers \ {w} : resolver'[v] = resolver[v],
         UNCHANGED << postedAt, deleted, answered >>, excused \subseteq excused',
         unfounded \subseteq unfounded', RowsKeep, GoesOn(w) \/ Settled(w)
  PROVE  CoverageInv'
<1>1. /\ CoverageTyped /\ \A v \in Workers : Resolves(v)
      /\ \A t \in TaskRows : Unresolved(t) /\ DeliveredPlanned(t)
  BY DEF CoverageInv, CoverageShape
<1>2. \A v \in Workers \ {w} : R(v)' = R(v)
  BY DEF R
<1>3. ASSUME NEW t \in TaskRows, runs[t].status # "none" PROVE Steady(t)
  BY <1>3 DEF RowsKeep, Is
<1>4. \A v \in Workers : Resolves(v)'
  <2>1. ASSUME NEW v \in Workers \ {w} PROVE Resolves(v)'
    <3>1. R(v).pc = "list" => v \in TaskRows /\ runs'[v].status = "completed"
      BY <1>1, <1>3 DEF Resolves, Steady
    <3> QED BY <1>1, <1>2, <3>1 DEF Resolves
  <2>2. Resolves(w)'
    <3>1. R(w)'.pc \in Settling \cup {"idle", "compute"} /\ "list" \notin Settling
          /\ "delete" \notin Settling /\ "idle" \notin Settling /\ "compute" \notin Settling
      BY DEF GoesOn, Settled, SettledBy, R, Settling
    <3>2. R(w).todo \subseteq Comments
      BY <1>1 DEF CoverageTyped, R, ResolverType
    <3>3. CASE GoesOn(w)
      BY <1>1, <3>1, <3>3 DEF GoesOn, Resolves
    <3>4. CASE Settled(w)
      BY <1>1, <3>1, <3>4 DEF Settled, SettledBy, Resolves, R, IsReplay
    <3> QED BY <3>3, <3>4
  <2> QED BY <2>1, <2>2
<1>5. ASSUME NEW t \in TaskRows PROVE Unresolved(t)' /\ DeliveredPlanned(t)'
  <2>1. DeliveredPlanned(t)'
    BY <1>1, <1>5 DEF RowsKeep, Steady, SamePlan, DeliveredPlanned
  <2>2. CASE t # w
    <3>1. R(t)' = R(t)
      BY <1>2, <2>2, Disjoint
    <3> QED BY <1>1, <2>1, <3>1 DEF RowsKeep, Steady, Unresolved, Is
  <2>3. CASE t = w
    <3>1. runs[t].status \in {"completed", "over"}
      BY <1>1, <2>3 DEF Unresolved, Is, Settling
    <3> QED BY <1>3, <2>1, <3>1 DEF Unresolved, Is, Steady
  <2> QED BY <2>2, <2>3
<1>6. ASSUME NEW c \in Comments \ deleted', Covered(c), IsReplay(w) => c # R(w).comment \/ GoesOn(w)
      PROVE  Covered(c)'
  <2>1. ASSUME NEW t \in TaskRows, Stands(t) PROVE Stands(t)' /\ SamePlan(t)
    BY <1>3, <2>1 DEF Stands, Live, Is, Steady
  <2>2. ASSUME NEW v \in Workers \ Comments, Replays(v, c), v # w
        PROVE  /\ R(v)' = R(v)
               /\ R(v).pc = "list" => SamePlan(v) /\ runs'[v].delivered = runs[v].delivered
    BY <1>1, <1>2, <1>3, <2>2 DEF Resolves, Steady
  <2>3. ASSUME w \notin Comments, Replays(w, c) PROVE Covered(c)'
    <3>1. R(w).pc # "list" /\ c \in R(w).todo
      BY <2>3 DEF Replays, Settling
    <3>2. c \in R(w)'.todo /\ R(w)'.pc # "list"
      BY <1>6, <2>3, <3>1 DEF GoesOn, Settled, SettledBy, IsReplay, R, Settling
    <3>3. Replaying(c)'
      BY <2>3, <3>2 DEF Replaying, R, Workers, TaskRows
    <3> QED BY <3>3 DEF Covered
  <2>4. \A d \in Comments : postedAt[d] <= postedAt'[d]
    BY <1>1 DEF CoverageTyped
  <2> QED BY <1>6, <2>1, <2>2, <2>3, <2>4, Carried
<1>7. ASSUME NEW c \in promised' \ (unfounded' \cup deleted') PROVE Covered(c)'
  <2>1. c \in Comments \ deleted'
    BY DEF CoverageTyped
  <2>2. CASE c \in promised
    <3>1. Covered(c)
      BY <2>2 DEF CoverageInv, KeptUnlessUnfounded
    <3>2. CASE IsReplay(w) /\ c = R(w).comment /\ ~GoesOn(w)
      BY <1>7, <2>1, <3>2 DEF Settled, IsReplay
    <3> QED BY <1>6, <2>1, <3>1, <3>2
  <2>3. CASE c \notin promised
    <3>1. w \in Comments /\ c = w /\ R(w).pc \in Settling /\ Settled(w)
      BY <2>3 DEF GoesOn, Settled, SettledBy, IsReplay
    <3>2. R(w).comment = c
      BY <1>1, <3>1 DEF Resolves
    <3> QED BY <1>7, <2>3, <3>1, <3>2 DEF Settled
  <2> QED BY <2>2, <2>3
<1> QED BY <1>4, <1>5, <1>7 DEF CoverageInv, CoverageShape, KeptUnlessUnfounded

LEMMA ResolverGoes ==
  ASSUME CoverageTyped, NEW w \in Workers, NEW pc \in Settling, Goes(w, pc)
  PROVE  /\ resolver' \in [Workers -> ResolverType]
         /\ \A v \in Workers \ {w} : resolver'[v] = resolver[v]
         /\ R(w)'.pc = pc /\ R(w)'.todo = R(w).todo /\ R(w)'.comment = R(w).comment
<1> DEFINE q == [resolver[w] EXCEPT !.pc = pc]
<1>1. resolver' = [resolver EXCEPT ![w] = q] /\ resolver[w] \in ResolverType
  BY DEF Goes, CoverageTyped
<1>2. q \in ResolverType /\ q.pc = pc /\ q.todo = resolver[w].todo
      /\ q.comment = resolver[w].comment
  BY <1>1 DEF ResolverType
<1> HIDE DEF q
<1> QED BY <1>1, <1>2 DEF CoverageTyped, R

LEMMA BlockedWrites ==
  ASSUME CoverageInv, NEW w \in Workers, R(w).pc \in Settling, Blocked(w),
         deleted' \subseteq Comments
  PROVE  /\ resolver' \in [Workers -> ResolverType] /\ promised' = promised
         /\ \A v \in Workers \ {w} : resolver'[v] = resolver[v]
         /\ excused \subseteq excused' /\ excused' \subseteq Comments
         /\ GoesOn(w) \/ Settled(w)
<1>0. CoverageTyped /\ Resolves(w)
  BY DEF CoverageInv, CoverageShape
<1>1. R(w).comment \in R(w).todo /\ R(w).todo \subseteq Comments /\ R(w) \in ResolverType
  BY <1>0 DEF Resolves, CoverageTyped, R, ResolverType
<1>2. CASE Settles(w, "blocked")
           /\ excused' = IF IsReplay(w) THEN excused \cup {R(w).comment} ELSE excused
  <2>1. SettledBy(w) /\ promised' = promised /\ resolver' \in [Workers -> ResolverType]
        /\ \A v \in Workers \ {w} : resolver'[v] = resolver[v]
    BY <1>0, <1>2, SettlesWrites
  <2>2. ASSUME IsReplay(w), NEW c \in Comments, c = R(w).comment PROVE Covered(c)'
    BY <1>2, <2>2 DEF Covered
  <2> QED BY <1>0, <1>1, <1>2, <2>1, <2>2 DEF Settled, CoverageTyped
<1>3. CASE /\ resolver' = [resolver EXCEPT ![w].pc = "handRegister", ![w].attempt = 0,
                                           ![w].headSha = headNow]
           /\ UNCHANGED << promised, excused >>
  <2> DEFINE q == [[[resolver[w] EXCEPT !.pc = "handRegister"] EXCEPT !.attempt = 0]
                      EXCEPT !.headSha = headNow]
  <2>1. resolver' = [resolver EXCEPT ![w] = q] /\ resolver[w] \in ResolverType
    BY <1>0, <1>3 DEF CoverageTyped
  <2>2. q \in ResolverType /\ q.pc = "handRegister" /\ q.todo = resolver[w].todo
        /\ q.comment = resolver[w].comment
    BY <1>0, <2>1 DEF ResolverType, CoverageTyped, Settling
  <2> HIDE DEF q
  <2>3. /\ resolver' \in [Workers -> ResolverType] /\ R(w)'.pc = "handRegister"
        /\ \A v \in Workers \ {w} : resolver'[v] = resolver[v]
        /\ R(w)'.todo = R(w).todo /\ R(w)'.comment = R(w).comment
    BY <1>0, <2>1, <2>2 DEF CoverageTyped, R
  <2> QED BY <1>0, <1>1, <1>3, <2>3 DEF GoesOn, Settling, CoverageTyped
<1> QED BY <1>2, <1>3 DEF Blocked

LEMMA ComputeStep ==
  ASSUME CoverageInv, NEW w \in Workers, ComputeTrigger(w) PROVE CoverageInv'
<1>0. CoverageTyped /\ Resolves(w) /\ R(w).pc = "compute" /\ R(w) \in ResolverType
  BY DEF CoverageInv, CoverageShape, ComputeTrigger, CoverageTyped, R
<1>1. Oldest(R(w).todo) \in R(w).todo /\ R(w).todo \subseteq Comments
  BY <1>0, OldestIn DEF Resolves, ResolverType
<1> DEFINE c == Oldest(R(w).todo)
           pc == IF AlreadyPending(w, c) THEN "merge" ELSE "enqueue"
           q == [[resolver[w] EXCEPT !.comment = c] EXCEPT !.pc = pc]
<1>2. resolver' = [resolver EXCEPT ![w] = q]
  BY DEF ComputeTrigger
<1>3. pc \in Settling /\ c \in SomeComment /\ resolver[w] \in ResolverType
  BY <1>0, <1>1 DEF Settling, SomeComment, R
<1> HIDE DEF pc
<1>4. q \in ResolverType /\ q.pc = pc /\ q.todo = resolver[w].todo /\ q.comment = c
  <2> HIDE DEF c
  <2> QED BY <1>3 DEF ResolverType
<1> HIDE DEF q
<1>5. /\ resolver' \in [Workers -> ResolverType] /\ R(w)' = q
      /\ \A v \in Workers \ {w} : resolver'[v] = resolver[v]
  BY <1>0, <1>2, <1>4 DEF CoverageTyped, R
<1>6. CoverageTyped'
  BY <1>0, <1>5 DEF ComputeTrigger, CoverageTyped, pasts
<1>7. RowsKeep
  BY DEF ComputeTrigger, RowsKeep, Steady, SamePlan
<1>8. GoesOn(w)
  <2>1. promised' = promised
    BY DEF ComputeTrigger
  <2> QED BY <1>1, <1>3, <1>4, <1>5, <2>1 DEF GoesOn, R
<1> QED BY <1>0, <1>5, <1>6, <1>7, <1>8, ResolverMoves DEF ComputeTrigger, pasts

\* The comment gets into a row that lives, or into a new one.
LEMMA Attached ==
  ASSUME CoverageInv, NEW w \in Workers, R(w).pc \in Settling, NEW outcome, Settles(w, outcome),
         UNCHANGED << postedAt, headNow, deleted, pasts >>, disturbances' \in Nat,
         \/ \E t \in TaskRows : Stands(t) /\ (Merged(w, t) \/ Registered(w, t)) /\ moment' = moment
         \/ \E t \in Fresh : NewRun(t, R(w).comment, headNow)
  PROVE  CoverageInv'
<1>0. CoverageTyped /\ Resolves(w)
  BY DEF CoverageInv, CoverageShape
<1>1. R(w).comment \in Comments /\ R(w).comment \in SomeComment /\ headNow \in Nat
  BY <1>0 DEF Resolves, CoverageTyped, R, ResolverType, SomeComment
<1>2. /\ resolver' \in [Workers -> ResolverType] /\ SettledBy(w) /\ promised' \subseteq Comments
      /\ \A v \in Workers \ {w} : resolver'[v] = resolver[v]
  BY <1>0, SettlesWrites
<1>3. PICK t \in TaskRows : /\ runs' \in [TaskRows -> RunType] /\ moment' \in Nat /\ RowsKeep
                            /\ Stands(t)' /\ R(w).comment \in runs'[t].plan
  <2>1. ASSUME NEW t \in TaskRows, Stands(t), Merged(w, t) \/ Registered(w, t), moment' = moment
        PROVE  /\ runs' \in [TaskRows -> RunType] /\ moment' \in Nat /\ RowsKeep
               /\ Stands(t)' /\ R(w).comment \in runs'[t].plan
    <3>1. /\ runs' \in [TaskRows -> RunType] /\ R(w).comment \in runs'[t].plan
          /\ \A u \in TaskRows : Steady(u)
      BY <1>0, <1>1, <2>1, PlanGrows DEF Merged, Registered
    <3> QED BY <1>0, <2>1, <3>1 DEF RowsKeep, Steady, Stands, Live, Is, CoverageTyped
  <2>2. ASSUME NEW t \in Fresh, NewRun(t, R(w).comment, headNow)
        PROVE  /\ t \in TaskRows
               /\ runs' \in [TaskRows -> RunType] /\ moment' \in Nat /\ RowsKeep
               /\ Stands(t)' /\ R(w).comment \in runs'[t].plan
    <3>1. /\ runs' \in [TaskRows -> RunType] /\ moment' \in Nat
          /\ t \in TaskRows /\ Is(t, {"none"}) /\ runs'[t].status = "queued"
          /\ runs'[t].plan = {R(w).comment} \cap Comments /\ runs'[t].delivered = {}
          /\ runs'[t].sample.plan = {}
          /\ \A u \in TaskRows \ {t} : runs'[u] = runs[u]
      BY <1>0, <1>1, <2>2, RunBegins
    <3> QED BY <1>1, <3>1 DEF RowsKeep, Steady, SamePlan, Stands, Live, Is
  <2> QED BY <2>1, <2>2
<1>4. CoverageTyped'
  BY <1>0, <1>2, <1>3 DEF CoverageTyped, pasts
<1>5. ASSUME NEW c \in Comments, c = R(w).comment, c \notin deleted' PROVE Covered(c)'
  BY <1>3, <1>5 DEF Covered, Reconcilable
<1>6. Settled(w)
  BY <1>2, <1>5 DEF Settled
<1> QED BY <1>2, <1>3, <1>4, <1>6, ResolverMoves DEF pasts

\* Only the resolver moves, to another statement about its comment.
LEMMA MovesOn ==
  ASSUME CoverageInv, NEW w \in Workers, R(w).pc \in Settling, NEW pc \in Settling,
         resolver' \in [Workers -> ResolverType], R(w)'.pc = pc, R(w)'.todo = R(w).todo,
         R(w)'.comment = R(w).comment, \A v \in Workers \ {w} : resolver'[v] = resolver[v],
         UNCHANGED << postedAt, promised, runs, moment, headNow, deleted, pasts >>,
         disturbances' \in Nat
  PROVE  CoverageInv'
<1>0. CoverageTyped /\ Resolves(w)
  BY DEF CoverageInv, CoverageShape
<1>1. CoverageTyped'
  BY <1>0 DEF CoverageTyped, pasts
<1>2. RowsKeep
  BY DEF RowsKeep, Steady, SamePlan
<1>3. GoesOn(w)
  BY <1>0 DEF GoesOn, Resolves
<1> QED BY <1>1, <1>2, <1>3, ResolverMoves DEF pasts

LEMMA BlockedKeeps ==
  ASSUME CoverageInv, NEW w \in Workers, R(w).pc \in Settling, Blocked(w),
         UNCHANGED << postedAt, runs, moment, headNow, deleted, answered, unfounded >>,
         disturbances' \in Nat
  PROVE  CoverageInv'
<1>0. CoverageTyped
  BY DEF CoverageInv
<1>1. deleted' \subseteq Comments
  BY <1>0 DEF CoverageTyped
<1>2. /\ resolver' \in [Workers -> ResolverType] /\ promised' = promised
      /\ \A v \in Workers \ {w} : resolver'[v] = resolver[v]
      /\ excused \subseteq excused' /\ excused' \subseteq Comments
      /\ GoesOn(w) \/ Settled(w)
  BY <1>1, BlockedWrites
<1>3. CoverageTyped'
  BY <1>0, <1>2 DEF CoverageTyped
<1>4. RowsKeep
  BY DEF RowsKeep, Steady, SamePlan
<1> QED BY <1>2, <1>3, <1>4, ResolverMoves

LEMMA MergeStep == ASSUME CoverageInv, NEW w \in Workers, MergeIntoPending(w) PROVE CoverageInv'
<1>0. CoverageTyped /\ R(w).pc \in Settling /\ R(w).pc = "merge"
  BY DEF CoverageInv, MergeIntoPending, Settling
<1>1. CASE (\E t \in Newest(Mergeable(w)) : Merged(w, t)) /\ Settles(w, "coalesced")
           /\ UNCHANGED << excused, disturbances >>
  <2>1. \A t \in Newest(Mergeable(w)) : t \in TaskRows /\ Stands(t)
    BY DEF Newest, Mergeable, Stands, Live, Is
  <2> QED BY <1>0, <1>1, <2>1, Attached DEF MergeIntoPending, CoverageTyped, pasts
<1>2. CASE /\ UNCHANGED << runs, promised, excused, disturbances >>
           /\ resolver' = [resolver EXCEPT ![w].headSha = HeadOf(w),
                             ![w].pc = IF R(w).lostRace THEN "register" ELSE "active"]
  <2> DEFINE pc == IF R(w).lostRace THEN "register" ELSE "active"
             q == [[resolver[w] EXCEPT !.headSha = HeadOf(w)] EXCEPT !.pc = pc]
  <2>1. resolver' = [resolver EXCEPT ![w] = q] /\ resolver[w] \in ResolverType
        /\ pc \in Settling /\ HeadOf(w) \in Nat
    BY <1>0, <1>2 DEF CoverageTyped, Settling, HeadOf, R, ResolverType
  <2> HIDE DEF pc
  <2>2. q \in ResolverType /\ q.pc = pc /\ q.todo = resolver[w].todo
        /\ q.comment = resolver[w].comment
    BY <2>1 DEF ResolverType
  <2> HIDE DEF q
  <2>3. /\ resolver' \in [Workers -> ResolverType] /\ R(w)'.pc = pc
        /\ \A v \in Workers \ {w} : resolver'[v] = resolver[v]
        /\ R(w)'.todo = R(w).todo /\ R(w)'.comment = R(w).comment
    BY <1>0, <2>1, <2>2 DEF CoverageTyped, R
  <2> QED BY <1>0, <1>2, <2>1, <2>3, MovesOn DEF MergeIntoPending, CoverageTyped, pasts
<1>3. CASE Blocked(w) /\ UNCHANGED runs /\ (UNCHANGED disturbances \/ Disturbed)
  BY <1>0, <1>3, BlockedKeeps, DisturbanceType DEF MergeIntoPending
<1> QED BY <1>1, <1>2, <1>3 DEF MergeIntoPending

LEMMA GoesKeeps ==
  ASSUME CoverageInv, NEW w \in Workers, R(w).pc \in Settling, NEW pc \in Settling, Goes(w, pc),
         UNCHANGED << postedAt, promised, runs, moment, headNow, deleted, pasts, disturbances >>
  PROVE  CoverageInv'
<1>0. CoverageTyped
  BY DEF CoverageInv
<1> QED BY <1>0, ResolverGoes, MovesOn DEF CoverageTyped

LEMMA DeferStep == ASSUME CoverageInv, NEW w \in Workers, DeferToActive(w) PROVE CoverageInv'
<1>0. CoverageTyped /\ R(w).pc \in Settling /\ Resolves(w)
  BY DEF CoverageInv, CoverageShape, DeferToActive, Settling
<1>1. CASE /\ Settles(w, "deferred")
           /\ unfounded' = IF \E t \in TaskRows : Live(t) /\ R(w).comment \in Reconcilable(t)
                           THEN unfounded ELSE unfounded \cup {R(w).comment}
  <2>1. /\ resolver' \in [Workers -> ResolverType] /\ SettledBy(w) /\ promised' \subseteq Comments
        /\ \A v \in Workers \ {w} : resolver'[v] = resolver[v]
    BY <1>0, <1>1, SettlesWrites
  <2>2. R(w).comment \in Comments
    BY <1>0 DEF Resolves, CoverageTyped, R, ResolverType
  <2>3. unfounded \subseteq unfounded' /\ unfounded' \subseteq Comments
    BY <1>0, <1>1, <2>2 DEF CoverageTyped
  <2>4. CoverageTyped'
    BY <1>0, <2>1, <2>3 DEF DeferToActive, CoverageTyped
  <2>5. RowsKeep
    BY DEF DeferToActive, RowsKeep, Steady, SamePlan
  <2>6. Settled(w)
    <3> SUFFICES ASSUME NEW c \in Comments, c = R(w).comment, c \notin deleted' \cup unfounded'
                 PROVE  Covered(c)'
      BY <1>0, <2>1 DEF Settled
    <3>1. PICK t \in TaskRows : Live(t) /\ c \in Reconcilable(t)
      BY <1>1
    <3>2. Stands(t)' /\ c \in Reconcilable(t)'
      BY <3>1 DEF DeferToActive, Stands, Live, Is, Reconcilable, InWindow
    <3> QED BY <3>2 DEF Covered
  <2> QED BY <1>0, <2>1, <2>3, <2>4, <2>5, <2>6, ResolverMoves DEF DeferToActive
<1>2. CASE Goes(w, "enqueue") /\ UNCHANGED << promised, unfounded >>
  BY <1>0, <1>2, GoesKeeps DEF DeferToActive, Settling, pasts
<1> QED BY <1>1, <1>2 DEF DeferToActive

LEMMA RegisterStep ==
  ASSUME CoverageInv, NEW w \in Workers, RegisterPlanned(w) \/ HandRegister(w) PROVE CoverageInv'
<1>0. /\ CoverageTyped /\ R(w).pc \in Settling /\ "enqueue" \in Settling /\ "handMerge" \in Settling
      /\ UNCHANGED << postedAt, moment, headNow, deleted, pasts, disturbances >>
  BY DEF CoverageInv, RegisterPlanned, HandRegister, Settling
<1>1. ASSUME NEW t \in TaskRows, Claimed(t), Registered(w, t), Settles(w, "registered")
      PROVE  CoverageInv'
  <2>1. Stands(t)
    BY <1>1 DEF Claimed, Stands, Live, Is
  <2> QED BY <1>0, <1>1, <2>1, Attached DEF CoverageTyped
<1>2. ASSUME NEW pc \in Settling, Goes(w, pc), UNCHANGED << runs, promised >> PROVE CoverageInv'
  BY <1>0, <1>2, GoesKeeps
<1> QED BY <1>0, <1>1, <1>2 DEF RegisterPlanned, HandRegister, Newest

LEMMA EnqueueStep ==
  ASSUME CoverageInv, NEW w \in Workers, EnqueueTrigger(w) \/ HandEnqueue(w) PROVE CoverageInv'
<1>0. /\ CoverageTyped /\ R(w).pc \in Settling
      /\ UNCHANGED << postedAt, headNow, deleted, answered, unfounded, disturbances >>
  BY DEF CoverageInv, EnqueueTrigger, HandEnqueue, Settling
<1>1. CASE (\E t \in Fresh : NewRun(t, R(w).comment, headNow)) /\ Settles(w, "queued")
           /\ UNCHANGED excused
  BY <1>0, <1>1, Attached DEF CoverageTyped, pasts
<1>2. ASSUME NEW pc \in {"merge", "handRegister"}, NEW race \in BOOLEAN,
             resolver' = [resolver EXCEPT ![w].pc = pc, ![w].lostRace = race,
                                          ![w].attempt = @ + 1],
             UNCHANGED << runs, moment, promised, excused >>
      PROVE  CoverageInv'
  <2> DEFINE p == [[resolver[w] EXCEPT !.pc = pc] EXCEPT !.lostRace = race]
             q == [p EXCEPT !.attempt = @ + 1]
  <2>1. resolver' = [resolver EXCEPT ![w] = q] /\ resolver[w] \in ResolverType
    BY <1>0, <1>2 DEF CoverageTyped, ResolverType
  <2>2. p \in ResolverType /\ p.pc = pc /\ p.todo = resolver[w].todo
        /\ p.comment = resolver[w].comment
    BY <2>1 DEF ResolverType, Settling
  <2> HIDE DEF p
  <2>4. q \in ResolverType /\ q.pc = p.pc /\ q.todo = p.todo /\ q.comment = p.comment
    BY <2>2 DEF ResolverType
  <2> HIDE DEF q
  <2>3. /\ resolver' \in [Workers -> ResolverType] /\ R(w)'.pc = pc /\ pc \in Settling
        /\ \A v \in Workers \ {w} : resolver'[v] = resolver[v]
        /\ R(w)'.todo = R(w).todo /\ R(w)'.comment = R(w).comment
    BY <1>0, <2>1, <2>2, <2>4 DEF CoverageTyped, R, Settling
  <2> QED BY <1>0, <1>2, <2>3, MovesOn DEF CoverageTyped, pasts
<1>3. CASE Blocked(w) /\ UNCHANGED << runs, moment >>
  BY <1>0, <1>3, BlockedKeeps DEF CoverageTyped
<1>4. CASE EnqueueTrigger(w)
  BY <1>1, <1>2, <1>3, <1>4 DEF EnqueueTrigger
<1>5. CASE HandEnqueue(w)
  <2>1. CASE /\ resolver' = [resolver EXCEPT ![w].pc = "handRegister", ![w].attempt = @ + 1]
             /\ UNCHANGED << runs, moment, promised, excused >>
    <3>1. resolver[w] \in ResolverType /\ resolver[w].lostRace \in BOOLEAN
      BY <1>0 DEF CoverageTyped, ResolverType
    <3>2. resolver' = [resolver EXCEPT ![w].pc = "handRegister", ![w].lostRace = resolver[w].lostRace,
                                       ![w].attempt = @ + 1]
      BY <1>0, <2>1, <3>1 DEF CoverageTyped, ResolverType
    <3> QED BY <1>2, <2>1, <3>1, <3>2
  <2> QED BY <1>1, <1>3, <1>5, <2>1 DEF HandEnqueue
<1> QED BY <1>4, <1>5

LEMMA HandMergeStep == ASSUME CoverageInv, NEW w \in Workers, HandMerge(w) PROVE CoverageInv'
<1>0. /\ CoverageTyped /\ R(w).pc \in Settling /\ "handEnqueue" \in Settling
      /\ UNCHANGED << postedAt, moment, headNow, deleted, pasts, disturbances >>
  BY DEF CoverageInv, HandMerge, Settling
<1>1. CASE (\E t \in Newest(Mergeable(w)) : Merged(w, t)) /\ Settles(w, "coalesced")
  <2>1. \A t \in Newest(Mergeable(w)) : t \in TaskRows /\ Stands(t)
    BY DEF Newest, Mergeable, Stands, Live, Is
  <2> QED BY <1>0, <1>1, <2>1, Attached DEF CoverageTyped
<1>2. CASE Goes(w, "handEnqueue") /\ UNCHANGED << runs, promised >>
  BY <1>0, <1>2, GoesKeeps
<1> QED BY <1>1, <1>2 DEF HandMerge

LEMMA ResolveSteps == ASSUME CoverageInv, NEW w \in Workers, ResolveStep(w) PROVE CoverageInv'
BY ComputeStep, MergeStep, DeferStep, RegisterStep, EnqueueStep, HandMergeStep DEF ResolveStep

-----------------------------------------------------------------------------
(* The task's steps.                                                          *)

\* What each covered comment needs of a step that promises nothing.
LEMMA NothingLost ==
  ASSUME CoverageInv, CoverageTyped', CoverageShape', UNCHANGED << promised, unfounded >>,
         \A d \in Comments : postedAt[d] <= postedAt'[d],
         deleted \subseteq deleted', answered \subseteq answered', excused \subseteq excused',
         \A c \in Comments \ deleted', t \in TaskRows :
             Stands(t) /\ c \in Reconcilable(t) => Covered(c)' \/ (Stands(t)' /\ SamePlan(t)),
         \A c \in Comments \ deleted', w \in Workers \ Comments : Replays(w, c)
             => \/ Covered(c)'
                \/ /\ R(w)'.pc = "list" <=> R(w).pc = "list"
                   /\ R(w)'.todo = R(w).todo
                   /\ R(w).pc = "list" => SamePlan(w) /\ runs'[w].delivered = runs[w].delivered
  PROVE  CoverageInv'
<1>1. ASSUME NEW c \in promised' \ (unfounded' \cup deleted') PROVE Covered(c)'
  <2>1. c \in Comments \ deleted' /\ c \in promised \ (unfounded \cup deleted)
    BY DEF CoverageTyped
  <2>2. Covered(c)
    BY <2>1 DEF CoverageInv, KeptUnlessUnfounded
  <2> QED BY <2>1, <2>2, Carried
<1> QED BY <1>1 DEF CoverageInv, KeptUnlessUnfounded

LEMMA PostedStays ==
  ASSUME CoverageTyped, UNCHANGED postedAt PROVE \A d \in Comments : postedAt[d] <= postedAt'[d]
BY DEF CoverageTyped

LEMMA PostStep == ASSUME CoverageInv, NEW c \in Comments, PostComment(c) PROVE CoverageInv'
<1>0. CoverageTyped /\ CoverageShape /\ c \in Workers /\ c \notin TaskRows
  BY Disjoint DEF CoverageInv
<1> DEFINE q == Resolving({c}, FALSE)
<1>1. q \in ResolverType /\ q.todo = {c} /\ q.pc = "compute"
  BY ResolvingType
<1>2. resolver' = [resolver EXCEPT ![c] = q]
  BY DEF PostComment
<1> HIDE DEF q
<1>3. /\ resolver' \in [Workers -> ResolverType] /\ R(c)' = q
      /\ \A w \in Workers \ {c} : R(w)' = R(w)
  BY <1>0, <1>1, <1>2 DEF CoverageTyped, R
<1>4. postedAt' \in [Comments -> Nat] /\ moment' \in Nat
      /\ \A d \in Comments : postedAt[d] <= postedAt'[d]
  BY <1>0 DEF PostComment, CoverageTyped
<1>5. CoverageTyped'
  BY <1>0, <1>3, <1>4 DEF PostComment, CoverageTyped, pasts
<1>6. CoverageShape'
  <2>1. \A w \in Workers : Resolves(w)'
    BY <1>0, <1>1, <1>3 DEF PostComment, CoverageShape, Resolves, Settling
  <2>2. \A t \in TaskRows : t \in Workers \ {c}
    BY <1>0, Disjoint
  <2> QED BY <1>0, <1>3, <2>1, <2>2
      DEF PostComment, CoverageShape, Unresolved, DeliveredPlanned, Is
<1>7. \A t \in TaskRows : (Stands(t)' <=> Stands(t)) /\ SamePlan(t)
  BY DEF PostComment, Stands, Live, Is, SamePlan
<1>8. \A w \in Workers \ Comments : /\ R(w)' = R(w) /\ SamePlan(w)
                                    /\ runs'[w].delivered = runs[w].delivered
  BY <1>3 DEF PostComment, SamePlan
<1> QED BY <1>4, <1>5, <1>6, <1>7, <1>8, NothingLost DEF PostComment, pasts

\* A row that lives on with its plan.
LEMMA RowLivesOn ==
  ASSUME CoverageInv, NEW t \in TaskRows, NEW r \in RunType, runs' = [runs EXCEPT ![t] = r],
         Stands(t), r.status \in {"queued", "dispatched", "running"}, r.plan = runs[t].plan,
         r.at = runs[t].at, r.delivered \subseteq r.plan \cup deleted,
         r.sample.plan \subseteq r.plan \cup deleted, disturbances' \in Nat,
         UNCHANGED << postedAt, promised, resolver, moment, headNow, deleted, pasts >>
  PROVE  CoverageInv'
<1>0. CoverageTyped /\ CoverageShape
  BY DEF CoverageInv
<1>1. runs' \in [TaskRows -> RunType] /\ runs'[t] = r
      /\ \A u \in TaskRows \ {t} : runs'[u] = runs[u]
  BY <1>0 DEF CoverageTyped
<1>2. CoverageTyped'
  BY <1>0, <1>1 DEF CoverageTyped, pasts
<1>3. runs[t].status # "completed" /\ \A w \in Workers : R(w).pc = "list" => w \in TaskRows \ {t}
  BY <1>0 DEF CoverageShape, Resolves, Stands, Live, Is
<1>4. CoverageShape'
  <2>1. \A w \in Workers : Resolves(w)'
    BY <1>0, <1>1, <1>3 DEF CoverageShape, Resolves, R
  <2>2. R(t).pc = "idle" /\ R(t)' = R(t)
    BY <1>0 DEF CoverageShape, Unresolved, Stands, Live, Is, R
  <2>3. \A u \in TaskRows : Unresolved(u)' /\ DeliveredPlanned(u)'
    BY <1>0, <1>1, <2>2 DEF CoverageShape, Unresolved, DeliveredPlanned, R, Is
  <2> QED BY <2>1, <2>3 DEF CoverageShape
<1>5. \A u \in TaskRows : SamePlan(u) /\ (Stands(u) => Stands(u)')
  BY <1>1 DEF SamePlan, Stands, Live, Is
<1>6. \A w \in Workers \ Comments :
          R(w)' = R(w) /\ (R(w).pc = "list" => SamePlan(w) /\ runs'[w].delivered = runs[w].delivered)
  BY <1>1, <1>3, <1>5 DEF R
<1> QED BY <1>0, <1>2, <1>4, <1>5, <1>6, NothingLost, PostedStays DEF pasts

LEMMA FinalizeStep == ASSUME CoverageInv, NEW t \in TaskRows, FinalizeClaim(t) PROVE CoverageInv'
<1>0. CoverageTyped /\ DeliveredPlanned(t) /\ Stands(t) /\ disturbances \in Nat
  BY DEF CoverageInv, CoverageShape, FinalizeClaim, Stands, Live, Is, CoverageTyped
<1>1. disturbances' \in Nat
  BY <1>0, DisturbanceType DEF FinalizeClaim
<1>2. runs[t] \in RunType /\ NoSample \in SampleType /\ NoSample.plan = {}
      /\ runs[t].status = "dispatched"
  BY <1>0, NoRunType DEF CoverageTyped, FinalizeClaim, Is
<1>3. runs[t].sample.plan \subseteq Comments
  BY <1>2 DEF RunType, SampleType
<1>4. ASSUME NEW embedded \in {runs[t].sample.plan, runs[t].sample.plan \cap {runs[t].sample.trigger}},
             runs' = [runs EXCEPT ![t].delivered = embedded, ![t].sample = NoSample,
                                  ![t].handed = TRUE]
      PROVE  CoverageInv'
  <2>1. embedded \in SUBSET Comments /\ embedded \subseteq runs[t].sample.plan
    BY <1>3, <1>4
  <2> DEFINE p == [[runs[t] EXCEPT !.delivered = embedded] EXCEPT !.sample = NoSample]
             q == [p EXCEPT !.handed = TRUE]
  <2>2. runs' = [runs EXCEPT ![t] = q]
    BY <1>0, <1>2, <1>4 DEF CoverageTyped, RunType
  <2>3. p \in RunType /\ p.status = "dispatched" /\ p.plan = runs[t].plan /\ p.at = runs[t].at
        /\ p.delivered = embedded /\ p.sample = NoSample
    BY <1>2, <2>1 DEF RunType
  <2> HIDE DEF p
  <2>4. q \in RunType /\ q.status = p.status /\ q.plan = p.plan /\ q.at = p.at
        /\ q.delivered = p.delivered /\ q.sample = p.sample
    BY <2>3 DEF RunType
  <2> HIDE DEF q
  <2>5. q.delivered \subseteq q.plan \cup deleted /\ q.sample.plan \subseteq q.plan \cup deleted
    BY <1>0, <1>2, <2>1, <2>3, <2>4 DEF DeliveredPlanned
  <2> QED BY <1>0, <1>1, <2>2, <2>3, <2>4, <2>5, RowLivesOn DEF FinalizeClaim
<1>5. ASSUME runs' = [runs EXCEPT ![t].delivered = {}, ![t].sample = NoSample,
                                  ![t].status = "queued"]
      PROVE  CoverageInv'
  <2> DEFINE p == [[runs[t] EXCEPT !.delivered = {}] EXCEPT !.sample = NoSample]
             q == [p EXCEPT !.status = "queued"]
  <2>2. runs' = [runs EXCEPT ![t] = q]
    BY <1>0, <1>2, <1>5 DEF CoverageTyped, RunType
  <2>3. p \in RunType /\ p.plan = runs[t].plan /\ p.at = runs[t].at
        /\ p.delivered = {} /\ p.sample = NoSample
    BY <1>2 DEF RunType
  <2> HIDE DEF p
  <2>4. q \in RunType /\ q.status = "queued" /\ q.plan = p.plan /\ q.at = p.at
        /\ q.delivered = p.delivered /\ q.sample = p.sample
    BY <2>3 DEF RunType, Statuses
  <2> HIDE DEF q
  <2>5. q.delivered \subseteq q.plan \cup deleted /\ q.sample.plan \subseteq q.plan \cup deleted
    BY <1>2, <2>3, <2>4
  <2> QED BY <1>0, <1>1, <2>2, <2>3, <2>4, <2>5, RowLivesOn DEF FinalizeClaim
<1> QED BY <1>4, <1>5 DEF FinalizeClaim

LEMMA StartStep == ASSUME CoverageInv, NEW t \in TaskRows, StartRun(t) PROVE CoverageInv'
<1>0. CoverageTyped /\ DeliveredPlanned(t) /\ Stands(t) /\ disturbances' \in Nat
  BY DEF CoverageInv, CoverageShape, StartRun, Stands, Live, Is, CoverageTyped
<1>2. runs[t] \in RunType /\ NoSample \in SampleType /\ NoSample.plan = {}
  BY <1>0, NoRunType DEF CoverageTyped
<1> DEFINE p == [[runs[t] EXCEPT !.status = "running"] EXCEPT !.sample = NoSample]
           q == [p EXCEPT !.handed = FALSE]
<1>3. runs' = [runs EXCEPT ![t] = q]
  BY <1>0, <1>2 DEF StartRun, CoverageTyped, RunType
<1>4. p \in RunType /\ p.status = "running" /\ p.plan = runs[t].plan /\ p.at = runs[t].at
      /\ p.delivered = runs[t].delivered /\ p.sample = NoSample
  BY <1>2 DEF RunType, Statuses
<1> HIDE DEF p
<1>5. q \in RunType /\ q.status = p.status /\ q.plan = p.plan /\ q.at = p.at
      /\ q.delivered = p.delivered /\ q.sample = p.sample
  BY <1>4 DEF RunType
<1> HIDE DEF q
<1>6. q.delivered \subseteq q.plan \cup deleted /\ q.sample.plan \subseteq q.plan \cup deleted
  BY <1>0, <1>2, <1>4, <1>5 DEF DeliveredPlanned
<1> QED BY <1>0, <1>3, <1>4, <1>5, <1>6, RowLivesOn DEF StartRun

\* Rows end, and a resolver that had nothing to do gets their comments, or a new row
\* has them, or they are excused.
LEMMA RowsEnd ==
  ASSUME CoverageInv, CoverageTyped', NEW T \in SUBSET TaskRows, NEW w \in Workers \ Comments,
         UNCHANGED << postedAt, promised, deleted, answered, unfounded >>, excused \subseteq excused',
         \A t \in T : Stands(t) /\ runs'[t] = Over /\ Lapsed(t) \subseteq excused'
                      /\ \A c \in runs[t].plan \ deleted : Covered(c)',
         \A t \in TaskRows \ T :
             \/ runs'[t] = runs[t]
             \/ Is(t, {"none"}) /\ runs'[t].status \in {"queued", "deferred"} /\ runs'[t].delivered = {}
                /\ runs'[t].sample.plan = {},
         R(w).pc = "idle", \A v \in Workers \ {w} : resolver'[v] = resolver[v],
         Resolves(w)', R(w)'.pc \in {"idle", "compute", "delete"},
         w \in TaskRows /\ w \notin T => R(w)' = R(w)
  PROVE  CoverageInv'
<1>0. CoverageTyped /\ CoverageShape
  BY DEF CoverageInv
<1>1. \A v \in Workers \ {w} : R(v)' = R(v)
  BY DEF R
<1>2. \A t \in T : runs'[t].status = "over" /\ runs'[t].delivered = {}
                   /\ runs'[t].sample.plan = {} /\ runs[t].status \notin {"none", "completed", "over"}
  BY NoRunType DEF Stands, Live, Is
<1>3. \A v \in Workers : R(v).pc = "list" => v \in TaskRows \ T /\ runs'[v] = runs[v]
  BY <1>0, <1>2 DEF CoverageShape, Resolves, Is
<1>4. CoverageShape'
  <2>1. ASSUME NEW v \in Workers \ {w} PROVE Resolves(v)'
    BY <1>0, <1>1, <1>3 DEF CoverageShape, Resolves
  <2>2. ASSUME NEW t \in TaskRows PROVE Unresolved(t)' /\ DeliveredPlanned(t)'
    <3>1. CASE t \in T
      BY <1>2, <3>1 DEF Unresolved, DeliveredPlanned, Is
    <3>2. CASE t \notin T /\ runs'[t] = runs[t]
      BY <1>0, <1>1, <3>2, Disjoint DEF CoverageShape, Unresolved, DeliveredPlanned, Is
    <3>3. CASE t \notin T /\ Is(t, {"none"}) /\ runs'[t].delivered = {} /\ runs'[t].sample.plan = {}
      <4>1. R(t).pc = "idle" /\ R(t)' = R(t)
        BY <1>0, <1>1, <3>3, Disjoint DEF CoverageShape, Unresolved, Is
      <4> QED BY <3>3, <4>1 DEF Unresolved, DeliveredPlanned
    <3> QED BY <3>1, <3>2, <3>3
  <2> QED BY <2>1, <2>2 DEF CoverageShape
<1>5. ASSUME NEW c \in Comments \ deleted', NEW t \in TaskRows, Stands(t), c \in Reconcilable(t)
      PROVE  Covered(c)' \/ (Stands(t)' /\ SamePlan(t))
  <2>1. CASE t \in T
    <3>1. c \in excused' \/ c \in runs[t].plan \ deleted
      BY <1>5, <2>1 DEF Lapsed, Reconcilable
    <3> QED BY <2>1, <3>1 DEF Covered
  <2>2. CASE t \notin T
    BY <1>5, <2>2 DEF Stands, Live, Is, SamePlan
  <2> QED BY <2>1, <2>2
<1>6. ASSUME NEW c \in Comments \ deleted', NEW v \in Workers \ Comments, Replays(v, c)
      PROVE  /\ R(v)' = R(v) \/ Covered(c)'
             /\ R(v).pc = "list" => SamePlan(v) /\ runs'[v].delivered = runs[v].delivered
  <2>1. v # w
    BY <1>0, <1>6 DEF CoverageShape, Resolves, Replays
  <2> QED BY <1>1, <1>3, <2>1 DEF SamePlan
<1> QED BY <1>0, <1>4, <1>5, <1>6, NothingLost, PostedStays

\* The comments a replay has to do are covered.
LEMMA ReplayCovers ==
  ASSUME NEW w \in Workers \ Comments, R(w)'.pc # "list", NEW c \in R(w)'.todo PROVE Covered(c)'
<1>1. Replaying(c)'
  BY DEF Replaying, R, Workers, TaskRows
<1> QED BY <1>1 DEF Covered

LEMMA LapsedType ==
  ASSUME CoverageTyped, NEW t \in TaskRows
  PROVE  Lapsed(t) \subseteq Comments /\ runs[t].plan \subseteq Comments /\ runs[t] \in RunType
BY DEF CoverageTyped, Lapsed, InWindow, RunType

LEMMA ClaimStep == ASSUME CoverageInv, NEW t \in TaskRows, ClaimRun(t) PROVE CoverageInv'
<1>0. CoverageTyped /\ CoverageShape /\ Stands(t) /\ t \in Workers \ Comments
      /\ R(t).pc = "idle"
  BY Disjoint DEF CoverageInv, CoverageShape, ClaimRun, Stands, Live, Is, Unresolved
<1>1. disturbances' \in Nat
  BY <1>0, DisturbanceType DEF ClaimRun
<1>2. CASE /\ runs' = [runs EXCEPT ![t] = Over]
           /\ resolver' = [resolver EXCEPT ![t] =
                               Resolving(Survivors(runs[t].plan, deleted), FALSE)]
           /\ excused' = excused \cup Lapsed(t)
  <2> DEFINE q == Resolving(Survivors(runs[t].plan, deleted), FALSE)
  <2>1. q \in ResolverType /\ q.todo = runs[t].plan \ deleted
        /\ q.pc = IF q.todo = {} THEN "idle" ELSE "compute"
    <3>1. runs[t].plan \ deleted \in SUBSET Comments
      BY <1>0, LapsedType
    <3> QED BY <3>1, ResolvingType DEF Survivors
  <2>2. resolver' = [resolver EXCEPT ![t] = q]
    BY <1>2
  <2> HIDE DEF q
  <2>3. /\ resolver' \in [Workers -> ResolverType] /\ R(t)' = q
        /\ \A v \in Workers \ {t} : resolver'[v] = resolver[v]
    BY <1>0, <2>1, <2>2 DEF CoverageTyped, R
  <2>4. /\ runs' \in [TaskRows -> RunType] /\ runs'[t] = Over
        /\ \A u \in TaskRows \ {t} : runs'[u] = runs[u]
    BY <1>0, <1>2, NoRunType DEF CoverageTyped
  <2>5. CoverageTyped'
    BY <1>0, <1>1, <1>2, <2>3, <2>4, LapsedType DEF ClaimRun, CoverageTyped
  <2>6. Resolves(t)'
    BY <1>0, <2>1, <2>3 DEF Resolves, Settling
  <2>7. \A c \in runs[t].plan \ deleted : Covered(c)'
    BY <1>0, <2>1, <2>3, ReplayCovers
  <2>8. /\ Lapsed(t) \subseteq excused' /\ excused \subseteq excused' /\ {t} \in SUBSET TaskRows
        /\ UNCHANGED << postedAt, promised, deleted, answered, unfounded >>
    BY <1>2 DEF ClaimRun
  <2>9. R(t)'.pc \in {"idle", "compute", "delete"}
    BY <2>1, <2>3
  <2> QED BY <1>0, <2>3, <2>4, <2>5, <2>6, <2>7, <2>8, <2>9, RowsEnd
<1>3. CASE runs' = [runs EXCEPT ![t] = Sampled(@)] /\ UNCHANGED << resolver, excused >>
  <2> DEFINE sm == [taken |-> TRUE, trigger |-> runs[t].trigger, plan |-> runs[t].plan]
             q == [runs[t] EXCEPT !.status = "dispatched", !.sample = sm]
  <2>1. runs[t] \in RunType /\ runs' = [runs EXCEPT ![t] = q]
    BY <1>0, <1>3 DEF CoverageTyped, Sampled
  <2>2. sm \in SampleType /\ sm.plan = runs[t].plan
    BY <2>1 DEF RunType, SampleType
  <2> HIDE DEF sm
  <2>3. q \in RunType /\ q.status = "dispatched" /\ q.plan = runs[t].plan /\ q.at = runs[t].at
        /\ q.delivered = runs[t].delivered /\ q.sample = sm
    BY <2>1, <2>2 DEF RunType, Statuses
  <2> HIDE DEF q
  <2>4. q.delivered \subseteq q.plan \cup deleted /\ q.sample.plan \subseteq q.plan \cup deleted
    BY <1>0, <2>2, <2>3 DEF CoverageShape, DeliveredPlanned
  <2> QED BY <1>0, <1>1, <1>3, <2>1, <2>3, <2>4, RowLivesOn DEF ClaimRun, pasts
<1> QED BY <1>2, <1>3 DEF ClaimRun

LEMMA FailStep == ASSUME CoverageInv, NEW t \in TaskRows, FailRun(t) PROVE CoverageInv'
<1>0. CoverageTyped /\ CoverageShape /\ Stands(t) /\ t \in Workers \ Comments
      /\ R(t).pc = "idle" /\ Resolves(t) /\ runs[t] \in RunType
  BY Disjoint DEF CoverageInv, CoverageShape, FailRun, Stands, Live, Is, Unresolved, CoverageTyped
<1>1. disturbances' \in Nat
  BY <1>0, DisturbanceType DEF FailRun
<1>2. /\ UNCHANGED << postedAt, promised, resolver, headNow, deleted, answered, unfounded >>
      /\ R(t)' = R(t)
  BY DEF FailRun, R
<1>3. Resolves(t)'
  BY <1>0, <1>2 DEF Resolves
<1>4. CASE runs' = [runs EXCEPT ![t] = Over] /\ moment' = moment
           /\ excused' = excused \cup Lapsed(t) \cup runs[t].plan
  <2>1. /\ runs' \in [TaskRows -> RunType] /\ runs'[t] = Over
        /\ \A u \in TaskRows \ {t} : runs'[u] = runs[u]
    BY <1>0, <1>4, NoRunType DEF CoverageTyped
  <2>2. CoverageTyped'
    BY <1>0, <1>1, <1>2, <1>4, <2>1, LapsedType DEF CoverageTyped
  <2>3. \A c \in runs[t].plan \ deleted : Covered(c)'
    BY <1>4 DEF Covered
  <2>4. Lapsed(t) \subseteq excused' /\ excused \subseteq excused' /\ {t} \in SUBSET TaskRows
    BY <1>4
  <2> QED BY <1>0, <1>2, <1>3, <2>1, <2>2, <2>3, <2>4, RowsEnd
<1>5. ASSUME NEW u \in Fresh, NEW status \in {"queued", "deferred"},
             runs' = [[runs EXCEPT ![t] = Over] EXCEPT ![u] = RetryOf(t, status)],
             moment' = moment + 1, excused' = excused \cup Lapsed(t)
      PROVE  CoverageInv'
  <2> DEFINE q == RetryOf(t, status)
  <2>1. u \in TaskRows /\ Is(u, {"none"}) /\ u # t /\ moment + 1 \in Nat
    BY <1>0 DEF Fresh, Unborn, Stands, Live, Is, CoverageTyped
  <2>2. q \in RunType /\ q.status = status /\ q.plan = runs[t].plan /\ q.delivered = {}
        /\ q.sample.plan = {}
    BY <1>0, <2>1 DEF RetryOf, NoRun, NoSample, RunType, SampleType, SomeComment, Statuses
  <2>3. runs' = [[runs EXCEPT ![t] = Over] EXCEPT ![u] = q]
    BY <1>5
  <2> HIDE DEF q
  <2>4. /\ runs' \in [TaskRows -> RunType] /\ runs'[t] = Over /\ runs'[u] = q
        /\ \A v \in TaskRows \ {t, u} : runs'[v] = runs[v]
    BY <1>0, <2>1, <2>2, <2>3, NoRunType DEF CoverageTyped
  <2>5. CoverageTyped'
    BY <1>0, <1>1, <1>2, <1>5, <2>1, <2>4, LapsedType DEF CoverageTyped
  <2>6. ASSUME NEW c \in runs[t].plan \ deleted PROVE Covered(c)'
    <3>1. Stands(u)' /\ c \in Reconcilable(u)'
      BY <1>2, <2>2, <2>4, <2>6 DEF Stands, Live, Is, Reconcilable
    <3> QED BY <2>1, <3>1 DEF Covered
  <2>7. Lapsed(t) \subseteq excused' /\ excused \subseteq excused' /\ {t} \in SUBSET TaskRows
    BY <1>5
  <2>8. \A v \in TaskRows \ {t} :
             \/ runs'[v] = runs[v]
             \/ Is(v, {"none"}) /\ runs'[v].status \in {"queued", "deferred"} /\ runs'[v].delivered = {}
                /\ runs'[v].sample.plan = {}
    BY <2>1, <2>2, <2>4
  <2> QED BY <1>0, <1>2, <1>3, <2>4, <2>5, <2>6, <2>7, <2>8, RowsEnd
<1> QED BY <1>4, <1>5 DEF FailRun

LEMMA DropStep == ASSUME CoverageInv, NEW t \in TaskRows, DropSuperseded(t) PROVE CoverageInv'
<1>0. CoverageTyped /\ CoverageShape /\ Stands(t) /\ t \in Workers \ Comments
      /\ R(t).pc = "idle" /\ Resolves(t)
  BY Disjoint DEF CoverageInv, CoverageShape, DropSuperseded, Stands, Live, Is, Unresolved
<1>1. /\ UNCHANGED << postedAt, promised, resolver, moment, headNow, deleted, answered, unfounded,
                      disturbances >>
      /\ runs' = [runs EXCEPT ![t] = Over] /\ R(t)' = R(t)
      /\ excused' = excused \cup Lapsed(t) \cup runs[t].plan
  BY DEF DropSuperseded, R
<1>2. /\ runs' \in [TaskRows -> RunType] /\ runs'[t] = Over
      /\ \A u \in TaskRows \ {t} : runs'[u] = runs[u]
  BY <1>0, <1>1, NoRunType DEF CoverageTyped
<1>3. CoverageTyped'
  <2>1. runs[t].plan \subseteq Comments
    BY <1>0 DEF CoverageTyped, RunType
  <2> QED BY <1>0, <1>1, <1>2, <2>1, LapsedType DEF CoverageTyped
<1>4. \A c \in runs[t].plan \ deleted : Covered(c)'
  BY <1>1 DEF Covered
<1>5. Lapsed(t) \subseteq excused' /\ excused \subseteq excused' /\ {t} \in SUBSET TaskRows
  BY <1>1
<1>6. Resolves(t)'
  BY <1>0, <1>1 DEF Resolves
<1> QED BY <1>0, <1>1, <1>2, <1>3, <1>4, <1>5, <1>6, RowsEnd

LEMMA PromoteStep == ASSUME CoverageInv, NEW t \in TaskRows, PromoteRun(t) PROVE CoverageInv'
<1>0. CoverageTyped /\ DeliveredPlanned(t) /\ Stands(t) /\ disturbances' \in Nat
  BY DEF CoverageInv, CoverageShape, PromoteRun, Stands, Is, CoverageTyped
<1> DEFINE q == [runs[t] EXCEPT !.status = "queued"]
<1>1. q \in RunType /\ q.status = "queued" /\ q.plan = runs[t].plan /\ q.at = runs[t].at
      /\ q.delivered = runs[t].delivered /\ q.sample = runs[t].sample
  BY <1>0 DEF CoverageTyped, RunType, Statuses
<1>2. runs' = [runs EXCEPT ![t] = q]
  BY DEF PromoteRun
<1> HIDE DEF q
<1>3. q.delivered \subseteq q.plan \cup deleted /\ q.sample.plan \subseteq q.plan \cup deleted
  BY <1>0, <1>1 DEF DeliveredPlanned
<1> QED BY <1>0, <1>1, <1>2, <1>3, RowLivesOn DEF PromoteRun

LEMMA CancelStep == ASSUME CoverageInv, NEW c \in Comments, CancelBatch(c) PROVE CoverageInv'
<1>0. CoverageTyped /\ CoverageShape /\ Deletion \in Workers \ Comments
      /\ R(Deletion).pc = "idle" /\ Deletion \notin TaskRows
  BY Disjoint DEF CoverageInv, CancelBatch
<1>1. disturbances' \in Nat
  BY <1>0, DisturbanceType DEF CancelBatch
<1>2. PICK T \in SUBSET TaskRows :
          /\ \A t \in T : Stands(t)
          /\ runs' = [t \in TaskRows |-> IF t \in T THEN Over ELSE runs[t]]
          /\ resolver' = [resolver EXCEPT ![Deletion] =
                [Quiet EXCEPT !.pc = "delete", !.comment = c,
                              !.todo = UNION {runs[t].plan : t \in T}]]
          /\ excused' = excused \cup UNION {Lapsed(t) : t \in T}
  <2>1. PICK T \in {{t \in TaskRows : Stands(t) /\ c \in runs[t].plan}, {}} :
          /\ runs' = [t \in TaskRows |-> IF t \in T THEN Over ELSE runs[t]]
          /\ resolver' = [resolver EXCEPT ![Deletion] =
                [Quiet EXCEPT !.pc = "delete", !.comment = c,
                              !.todo = UNION {runs[t].plan : t \in T}]]
          /\ excused' = excused \cup UNION {Lapsed(t) : t \in T}
    BY DEF CancelBatch
  <2>2. T \in SUBSET TaskRows /\ \A t \in T : Stands(t)
    BY <2>1
  <2> QED BY <2>1, <2>2
<1>3. UNCHANGED << postedAt, promised, moment, headNow, deleted, answered, unfounded >>
  BY DEF CancelBatch
<1> DEFINE todo == UNION {runs[t].plan : t \in T}
           q == [Quiet EXCEPT !.pc = "delete", !.comment = c, !.todo = todo]
<1>4. /\ todo \in SUBSET Comments
      /\ UNION {Lapsed(t) : t \in T} \subseteq Comments
      /\ \A t \in T : runs[t].plan \subseteq todo /\ Lapsed(t) \subseteq excused'
  BY <1>0, <1>2, LapsedType
<1>5. resolver' = [resolver EXCEPT ![Deletion] = q]
  BY <1>2
<1> HIDE DEF todo
<1>6. q \in ResolverType /\ q.pc = "delete" /\ q.comment = c /\ q.todo = todo
  BY <1>4 DEF Quiet, ResolverType, SomeComment
<1> HIDE DEF q
<1>7. /\ resolver' \in [Workers -> ResolverType] /\ R(Deletion)' = q
      /\ \A v \in Workers \ {Deletion} : resolver'[v] = resolver[v]
  BY <1>0, <1>5, <1>6 DEF CoverageTyped, R
<1>8. /\ runs' \in [TaskRows -> RunType] /\ \A t \in T : runs'[t] = Over
      /\ \A t \in TaskRows \ T : runs'[t] = runs[t]
  BY <1>0, <1>2, NoRunType DEF CoverageTyped
<1>9. CoverageTyped'
  BY <1>0, <1>1, <1>2, <1>3, <1>4, <1>7, <1>8 DEF CoverageTyped
<1>10. Resolves(Deletion)' /\ R(Deletion)'.pc \in {"idle", "compute", "delete"}
  BY <1>0, <1>6, <1>7 DEF Resolves, Settling
<1>11. \A t \in T : \A d \in runs[t].plan \ deleted : Covered(d)'
  BY <1>0, <1>4, <1>6, <1>7, ReplayCovers
<1>12. excused \subseteq excused'
  BY <1>2
<1> QED BY <1>0, <1>2, <1>3, <1>4, <1>7, <1>8, <1>9, <1>10, <1>11, <1>12, RowsEnd

LEMMA AssignStep == ASSUME CoverageInv, AssignIssue PROVE CoverageInv'
<1>0. CoverageTyped /\ CoverageShape /\ headNow \in Nat /\ NoComment \in SomeComment
  BY DEF CoverageInv, CoverageTyped, SomeComment
<1>1. PICK t \in Fresh : NewRun(t, NoComment, headNow)
  BY DEF AssignIssue
<1>2. /\ runs' \in [TaskRows -> RunType] /\ moment' \in Nat
      /\ t \in TaskRows /\ Is(t, {"none"}) /\ runs'[t].status = "queued"
      /\ runs'[t].delivered = {} /\ runs'[t].sample.plan = {}
      /\ \A u \in TaskRows \ {t} : runs'[u] = runs[u]
  BY <1>0, <1>1, RunBegins
<1>3. /\ UNCHANGED << postedAt, promised, resolver, headNow, deleted, answered, excused, unfounded,
                      disturbances >>
      /\ R(t)' = R(t) /\ {} \in SUBSET TaskRows
  BY DEF AssignIssue, pasts, R
<1>4. CoverageTyped'
  BY <1>0, <1>2, <1>3 DEF CoverageTyped
<1>5. t \in Workers \ Comments /\ R(t).pc = "idle" /\ Resolves(t)
  BY <1>0, <1>2, Disjoint DEF CoverageShape, Unresolved, Is
<1>6. Resolves(t)' /\ R(t)'.pc \in {"idle", "compute", "delete"}
  BY <1>3, <1>5 DEF Resolves
<1> QED BY <1>2, <1>3, <1>4, <1>5, <1>6, RowsEnd

LEMMA PushStep == ASSUME CoverageInv, PushHead PROVE CoverageInv'
<1>0. CoverageTyped /\ CoverageShape
  BY DEF CoverageInv
<1>1. disturbances' \in Nat
  BY <1>0, DisturbanceType DEF PushHead
<1>2. UNCHANGED << postedAt, promised, runs, resolver, moment, deleted, pasts >>
  BY DEF PushHead
<1>3. CoverageTyped'
  BY <1>0, <1>1, <1>2 DEF PushHead, CoverageTyped, pasts
<1>4. CoverageShape'
  BY <1>0, <1>2 DEF CoverageShape, Resolves, Unresolved, DeliveredPlanned, R, Is
<1>5. /\ \A t \in TaskRows : (Stands(t)' <=> Stands(t)) /\ SamePlan(t)
      /\ \A w \in Workers \ Comments : R(w)' = R(w) /\ SamePlan(w)
                                       /\ runs'[w].delivered = runs[w].delivered
  BY <1>2 DEF Stands, Live, Is, SamePlan, R
<1> QED BY <1>0, <1>2, <1>3, <1>4, <1>5, NothingLost, PostedStays DEF pasts

LEMMA CompleteStep == ASSUME CoverageInv, NEW t \in TaskRows, CompleteRun(t) PROVE CoverageInv'
<1>0. /\ CoverageTyped /\ CoverageShape /\ t \in Workers \ Comments
      /\ R(t).pc = "idle" /\ R(t).todo = {} /\ runs[t] \in RunType /\ R(t) \in ResolverType
      /\ runs[t].status = "running" /\ disturbances' \in Nat
  BY Disjoint DEF CoverageInv, CoverageShape, CompleteRun, Is, Unresolved, Resolves,
                  CoverageTyped, R
<1>1. /\ UNCHANGED << postedAt, promised, moment, headNow, deleted, excused, unfounded >>
      /\ answered' = answered \cup runs[t].delivered
  BY DEF CompleteRun
<1> DEFINE q == [runs[t] EXCEPT !.status = "completed"]
           p == [resolver[t] EXCEPT !.pc = "list"]
<1>2. runs' = [runs EXCEPT ![t] = q] /\ resolver' = [resolver EXCEPT ![t] = p]
  BY DEF CompleteRun
<1>3. /\ q \in RunType /\ q.status = "completed" /\ q.plan = runs[t].plan /\ q.at = runs[t].at
      /\ q.delivered = runs[t].delivered /\ q.sample = runs[t].sample
  BY <1>0 DEF RunType, Statuses
<1>4. p \in ResolverType /\ p.pc = "list" /\ p.todo = {}
  BY <1>0 DEF ResolverType, R
<1> HIDE DEF q, p
<1>5. /\ runs' \in [TaskRows -> RunType] /\ runs'[t] = q
      /\ \A u \in TaskRows \ {t} : runs'[u] = runs[u]
  BY <1>0, <1>2, <1>3 DEF CoverageTyped
<1>6. /\ resolver' \in [Workers -> ResolverType] /\ R(t)' = p
      /\ \A v \in Workers \ {t} : R(v)' = R(v)
  BY <1>0, <1>2, <1>4 DEF CoverageTyped, R
<1>7. CoverageTyped'
  BY <1>0, <1>1, <1>5, <1>6 DEF CoverageTyped, RunType
<1>8. \A v \in Workers : R(v).pc = "list" => v \in TaskRows \ {t}
  BY <1>0 DEF CoverageShape, Resolves
<1>9. CoverageShape'
  <2>1. Resolves(t)'
    BY <1>0, <1>3, <1>4, <1>5, <1>6, Disjoint DEF Resolves, Settling
  <2>2. \A v \in Workers \ {t} : Resolves(v)'
    BY <1>0, <1>5, <1>6, <1>8 DEF CoverageShape, Resolves
  <2>3. Unresolved(t)' /\ DeliveredPlanned(t)'
    BY <1>0, <1>1, <1>3, <1>5 DEF CoverageShape, Unresolved, DeliveredPlanned, Is
  <2>4. \A u \in TaskRows \ {t} : Unresolved(u)' /\ DeliveredPlanned(u)'
    BY <1>0, <1>1, <1>5, <1>6, Disjoint DEF CoverageShape, Unresolved, DeliveredPlanned, Is
  <2> QED BY <2>1, <2>2, <2>3, <2>4 DEF CoverageShape
<1>10. \A u \in TaskRows : SamePlan(u) /\ (u # t /\ Stands(u) => Stands(u)')
  BY <1>3, <1>5 DEF SamePlan, Stands, Live, Is
<1>11. ASSUME NEW c \in Comments \ deleted', c \in Reconcilable(t) PROVE Covered(c)'
  <2>1. CASE c \in runs[t].delivered
    BY <1>1, <2>1 DEF Covered
  <2>2. CASE c \notin runs[t].delivered
    <3>1. c \in Reconcilable(t)'
      BY <1>0, <1>1, <1>7, <1>10, <1>11, ReconcilableStays, PostedStays
    <3>2. c \in Undelivered(t)'
      BY <1>3, <1>5, <2>2, <3>1 DEF Undelivered
    <3>3. Replaying(c)'
      BY <1>0, <1>4, <1>6, <3>2 DEF Replaying, R, Workers, TaskRows
    <3> QED BY <3>3 DEF Covered
  <2> QED BY <2>1, <2>2
<1>12. ASSUME NEW c \in Comments \ deleted', NEW w \in Workers \ Comments, Replays(w, c)
       PROVE  /\ R(w)' = R(w)
              /\ R(w).pc = "list" => SamePlan(w) /\ runs'[w].delivered = runs[w].delivered
  <2>1. w # t
    BY <1>0, <1>12 DEF Replays
  <2> QED BY <1>5, <1>6, <1>8, <1>10, <2>1
<1>13. /\ \A d \in Comments : postedAt[d] <= postedAt'[d]
       /\ deleted \subseteq deleted' /\ answered \subseteq answered' /\ excused \subseteq excused'
       /\ UNCHANGED << promised, unfounded >>
  BY <1>0, <1>1, PostedStays
<1> QED BY <1>7, <1>9, <1>10, <1>11, <1>12, <1>13, NothingLost

\* A resolver lets its comments go, or takes up others: what it had to do is covered.
LEMMA ResolverEnds ==
  ASSUME CoverageInv, CoverageTyped', NEW w \in Workers,
         UNCHANGED << postedAt, promised, answered, unfounded >>,
         deleted \subseteq deleted', excused \subseteq excused',
         \A v \in Workers \ {w} : resolver'[v] = resolver[v],
         R(w).pc # "idle", Resolves(w)', R(w)'.pc \in {"idle", "compute"},
         \A t \in TaskRows : \/ Steady(t) /\ DeliveredPlanned(t)'
                             \/ t = w /\ R(w).pc = "list" /\ runs'[t] = Over,
         R(w).pc = "list" => runs'[w] = Over,
         w \notin Comments
            => \A c \in Comments \ deleted' : Replays(w, c) => Covered(c)'
  PROVE  CoverageInv'
<1>0. CoverageTyped /\ CoverageShape
  BY DEF CoverageInv
<1>1. \A v \in Workers \ {w} : R(v)' = R(v)
  BY DEF R
<1>2. ASSUME NEW v \in Workers \ {w}, R(v).pc = "list"
      PROVE  v \in TaskRows /\ Steady(v) /\ runs'[v].status = "completed"
  BY <1>0, <1>2 DEF CoverageShape, Resolves, Steady
<1>3. CoverageShape'
  <2>1. \A v \in Workers \ {w} : Resolves(v)'
    BY <1>0, <1>1, <1>2 DEF CoverageShape, Resolves
  <2>2. ASSUME NEW t \in TaskRows PROVE Unresolved(t)' /\ DeliveredPlanned(t)'
    <3>1. CASE runs'[t] = Over
      BY <3>1, NoRunType DEF Unresolved, DeliveredPlanned, Is
    <3>2. CASE Steady(t) /\ DeliveredPlanned(t)'
      <4>1. CASE t # w
        BY <1>0, <1>1, <3>2, <4>1, Disjoint DEF CoverageShape, Unresolved, Is, Steady
      <4>2. CASE t = w
        BY <1>0, <3>2, <4>2 DEF CoverageShape, Unresolved, Is, Steady
      <4> QED BY <3>2, <4>1, <4>2
    <3> QED BY <3>1, <3>2
  <2> QED BY <2>1, <2>2 DEF CoverageShape
<1>4. ASSUME NEW t \in TaskRows, Stands(t) PROVE Stands(t)' /\ SamePlan(t)
  <2>1. ~(t = w /\ R(w).pc = "list")
    BY <1>0, <1>4 DEF CoverageShape, Resolves, Stands, Live, Is
  <2> QED BY <1>4, <2>1 DEF Stands, Live, Is, Steady
<1>5. ASSUME NEW c \in Comments \ deleted', NEW v \in Workers \ Comments, Replays(v, c), v # w
      PROVE  /\ R(v)' = R(v)
             /\ R(v).pc = "list" => SamePlan(v) /\ runs'[v].delivered = runs[v].delivered
  BY <1>1, <1>2, <1>5 DEF Steady
<1>6. \A d \in Comments : postedAt[d] <= postedAt'[d]
  BY <1>0, PostedStays
<1>7. ASSUME NEW c \in Comments \ deleted', NEW v \in Workers \ Comments, Replays(v, c)
      PROVE  \/ Covered(c)'
             \/ /\ R(v)'.pc = "list" <=> R(v).pc = "list"
                /\ R(v)'.todo = R(v).todo
                /\ R(v).pc = "list" => SamePlan(v) /\ runs'[v].delivered = runs[v].delivered
  BY <1>5, <1>7
<1> QED BY <1>3, <1>4, <1>6, <1>7, NothingLost

LEMMA ListStep == ASSUME CoverageInv, NEW t \in TaskRows, ListReconcilable(t) PROVE CoverageInv'
<1>0. /\ CoverageTyped /\ CoverageShape /\ t \in Workers \ Comments /\ R(t).pc = "list"
      /\ runs' = [runs EXCEPT ![t] = Over]
      /\ UNCHANGED << postedAt, promised, moment, headNow, deleted, pasts, disturbances >>
  BY Disjoint DEF CoverageInv, ListReconcilable
<1> DEFINE todo == Undelivered(t)
           q == Resolving(todo, TRUE)
<1>1. todo \in SUBSET Comments
  BY <1>0 DEF Undelivered, Reconcilable, InWindow, CoverageTyped, RunType
<1>2. q \in ResolverType /\ q.todo = todo /\ q.pc = IF todo = {} THEN "idle" ELSE "compute"
  BY <1>1, ResolvingType
<1>3. resolver' = [resolver EXCEPT ![t] = q]
  BY DEF ListReconcilable
<1> HIDE DEF q
<1>4. /\ resolver' \in [Workers -> ResolverType] /\ R(t)' = q
      /\ \A v \in Workers \ {t} : resolver'[v] = resolver[v]
  BY <1>0, <1>2, <1>3 DEF CoverageTyped, R
<1>5. /\ runs' \in [TaskRows -> RunType] /\ runs'[t] = Over
      /\ \A u \in TaskRows \ {t} : runs'[u] = runs[u]
  BY <1>0, NoRunType DEF CoverageTyped
<1>6. CoverageTyped'
  BY <1>0, <1>4, <1>5 DEF CoverageTyped, pasts
<1>7. Resolves(t)' /\ R(t)'.pc \in {"idle", "compute"}
  BY <1>0, <1>2, <1>4 DEF Resolves, Settling
<1>8. ASSUME NEW c \in Comments, Replays(t, c) PROVE Covered(c)'
  BY <1>0, <1>2, <1>4, <1>8, ReplayCovers DEF Replays
<1>9. \A u \in TaskRows : \/ Steady(u) /\ DeliveredPlanned(u)'
                          \/ u = t /\ R(t).pc = "list" /\ runs'[u] = Over
  BY <1>0, <1>5 DEF Steady, SamePlan, CoverageShape, DeliveredPlanned
<1> QED BY <1>0, <1>4, <1>5, <1>6, <1>7, <1>8, <1>9, ResolverEnds DEF pasts

LEMMA DiesStep == ASSUME CoverageInv, NEW w \in Workers, ServerDies(w) PROVE CoverageInv'
<1>0. /\ CoverageTyped /\ CoverageShape /\ R(w).pc # "idle" /\ R(w).todo \subseteq Comments
      /\ resolver' = [resolver EXCEPT ![w] = Quiet]
      /\ UNCHANGED << postedAt, promised, moment, headNow, deleted, answered, unfounded >>
      /\ R(w).pc = "list" => w \in TaskRows
  BY DEF CoverageInv, ServerDies, CoverageTyped, R, ResolverType, CoverageShape, Resolves
<1>1. disturbances' \in Nat
  BY <1>0, DisturbanceType DEF ServerDies
<1>2. /\ resolver' \in [Workers -> ResolverType] /\ R(w)' = Quiet
      /\ \A v \in Workers \ {w} : resolver'[v] = resolver[v]
  BY <1>0, ResolvingType DEF CoverageTyped, R
<1>3. /\ runs' \in [TaskRows -> RunType]
      /\ R(w).pc = "list" => runs'[w] = Over
      /\ \A u \in TaskRows : runs'[u] = runs[u] \/ (u = w /\ R(w).pc = "list")
  BY <1>0, NoRunType DEF ServerDies, CoverageTyped
<1>4. excused \subseteq excused' /\ excused' \subseteq Comments
  <2>1. R(w).pc = "list" => Undelivered(w) \subseteq Comments
    BY <1>0 DEF Undelivered, Reconcilable, InWindow, CoverageTyped, RunType
  <2> QED BY <1>0, <2>1 DEF ServerDies, CoverageTyped
<1>5. CoverageTyped'
  BY <1>0, <1>1, <1>2, <1>3, <1>4 DEF CoverageTyped
<1>6. Resolves(w)' /\ R(w)'.pc \in {"idle", "compute"}
  BY <1>2, ResolvingType DEF Resolves, Settling
<1>7. ASSUME w \notin Comments, NEW c \in Comments \ deleted', Replays(w, c) PROVE Covered(c)'
  <2>1. c \in excused'
    BY <1>7 DEF ServerDies, IsReplay, Replays
  <2> QED BY <2>1 DEF Covered
<1>8. \A u \in TaskRows : \/ Steady(u) /\ DeliveredPlanned(u)'
                          \/ u = w /\ R(w).pc = "list" /\ runs'[u] = Over
  BY <1>0, <1>3 DEF Steady, SamePlan, CoverageShape, DeliveredPlanned
<1>9. deleted \subseteq deleted'
  BY <1>0
<1> QED BY <1>0, <1>2, <1>3, <1>4, <1>5, <1>6, <1>7, <1>8, <1>9, ResolverEnds

LEMMA DeleteStep == ASSUME CoverageInv, DeleteRow PROVE CoverageInv'
<1>0. /\ CoverageTyped /\ CoverageShape /\ Deletion \in Workers \ Comments /\ Deletion \notin TaskRows
      /\ R(Deletion).pc = "delete" /\ R(Deletion).todo \subseteq Comments
      /\ R(Deletion).comment \in Comments
      /\ UNCHANGED << postedAt, promised, moment, headNow, pasts, disturbances >>
  BY Disjoint DEF CoverageInv, DeleteRow, CoverageTyped, R, ResolverType, CoverageShape, Resolves
<1> DEFINE c == R(Deletion).comment
           todo == R(Deletion).todo \ deleted'
           q == Resolving(todo, FALSE)
<1>1. resolver' = [resolver EXCEPT ![Deletion] = q]
  BY DEF DeleteRow, Survivors
<1>2. /\ runs' \in [TaskRows -> RunType] /\ deleted \subseteq deleted' /\ deleted' \subseteq Comments
      /\ \A t \in TaskRows : Steady(t) /\ DeliveredPlanned(t)'
  <2>1. CASE UNCHANGED << deleted, runs >>
    BY <1>0, <2>1 DEF CoverageTyped, CoverageShape, Steady, SamePlan, DeliveredPlanned
  <2>2. CASE /\ deleted' = deleted \cup {c}
             /\ runs' = [t \in TaskRows |-> IF runs[t].trigger # c THEN runs[t]
                             ELSE [runs[t] EXCEPT !.trigger = NoComment, !.plan = @ \ {c}]]
    <3>1. ASSUME NEW t \in TaskRows
          PROVE  runs'[t] \in RunType /\ Steady(t) /\ DeliveredPlanned(t)'
      <4>1. runs[t] \in RunType /\ DeliveredPlanned(t) /\ NoComment \in SomeComment
        BY <1>0 DEF CoverageTyped, CoverageShape, SomeComment
      <4>2. CASE runs'[t] = runs[t]
        BY <2>2, <4>1, <4>2 DEF Steady, SamePlan, DeliveredPlanned
      <4>3. CASE runs'[t] # runs[t]
        <5> DEFINE p == [runs[t] EXCEPT !.trigger = NoComment, !.plan = runs[t].plan \ {c}]
        <5>1. runs'[t] = p
          BY <2>2, <4>3
        <5>2. /\ p \in RunType /\ p.plan = runs[t].plan \ {c} /\ p.at = runs[t].at
              /\ p.status = runs[t].status /\ p.delivered = runs[t].delivered
              /\ p.sample = runs[t].sample
          BY <4>1 DEF RunType
        <5> HIDE DEF p
        <5> QED BY <2>2, <4>1, <5>1, <5>2 DEF Steady, SamePlan, DeliveredPlanned
      <4> QED BY <4>2, <4>3
    <3>2. runs' \in [TaskRows -> RunType]
      BY <2>2, <3>1
    <3> QED BY <1>0, <2>2, <3>1, <3>2 DEF CoverageTyped
  <2> QED BY <2>1, <2>2 DEF DeleteRow
<1>3. todo \in SUBSET Comments
  BY <1>0
<1>4. q \in ResolverType /\ q.todo = todo /\ q.pc = IF todo = {} THEN "idle" ELSE "compute"
  BY <1>3, ResolvingType
<1> HIDE DEF q
<1>5. /\ resolver' \in [Workers -> ResolverType] /\ R(Deletion)' = q
      /\ \A v \in Workers \ {Deletion} : resolver'[v] = resolver[v]
  BY <1>0, <1>1, <1>4 DEF CoverageTyped, R
<1>6. CoverageTyped'
  BY <1>0, <1>2, <1>5 DEF CoverageTyped, pasts
<1>7. Resolves(Deletion)' /\ R(Deletion)'.pc \in {"idle", "compute"}
  BY <1>0, <1>4, <1>5 DEF Resolves, Settling
<1>8. ASSUME NEW d \in Comments \ deleted', Replays(Deletion, d) PROVE Covered(d)'
  <2>1. d \in R(Deletion)'.todo /\ R(Deletion)'.pc # "list"
    BY <1>0, <1>4, <1>5, <1>8 DEF Replays
  <2> QED BY <1>0, <2>1, ReplayCovers
<1>9. UNCHANGED << postedAt, promised, answered, unfounded >> /\ excused \subseteq excused'
  BY <1>0 DEF pasts
<1> QED BY <1>0, <1>2, <1>5, <1>6, <1>7, <1>8, <1>9, ResolverEnds

-----------------------------------------------------------------------------
(* The theorems.                                                              *)

LEMMA CoverageInitHolds == ASSUME CoverageInit PROVE CoverageInv
<1>1. Quiet \in ResolverType /\ Quiet.pc = "idle" /\ Quiet.todo = {}
  BY ResolvingType
<1>2. CoverageTyped
  BY <1>1, NoRunType DEF CoverageInit, CoverageTyped
<1>3. CoverageShape
  <2>1. \A w \in Workers : Resolves(w)
    BY <1>1 DEF CoverageInit, Resolves, R, Settling
  <2>2. \A t \in TaskRows : Unresolved(t) /\ DeliveredPlanned(t)
    BY <1>1, NoRunType, Disjoint DEF CoverageInit, Unresolved, DeliveredPlanned, R
  <2> QED BY <2>1, <2>2 DEF CoverageShape
<1> QED BY <1>2, <1>3 DEF CoverageInit, CoverageInv, KeptUnlessUnfounded

LEMMA CoverageStays == ASSUME CoverageInv, UNCHANGED coverageVars PROVE CoverageInv'
<1>0. CoverageTyped /\ CoverageShape
  BY DEF CoverageInv
<1>1. CoverageTyped'
  BY <1>0 DEF CoverageTyped, coverageVars, pasts
<1>2. CoverageShape'
  BY <1>0 DEF CoverageShape, coverageVars, pasts, Resolves, Unresolved, DeliveredPlanned, R, Is
<1>3. /\ \A t \in TaskRows : (Stands(t)' <=> Stands(t)) /\ SamePlan(t)
      /\ \A w \in Workers \ Comments : R(w)' = R(w) /\ SamePlan(w)
                                       /\ runs'[w].delivered = runs[w].delivered
  BY DEF coverageVars, Stands, Live, Is, SamePlan, R
<1> QED BY <1>0, <1>1, <1>2, <1>3, NothingLost, PostedStays DEF coverageVars, pasts

LEMMA CoverageStep == ASSUME CoverageInv, [CoverageNext]_coverageVars PROVE CoverageInv'
<1>1. ASSUME NEW t \in TaskRows, RunStep(t) PROVE CoverageInv'
  BY <1>1, ClaimStep, FinalizeStep, StartStep, CompleteStep, ListStep, FailStep, DropStep, PromoteStep
     DEF RunStep
<1>2. ASSUME NEW w \in Workers, ResolveStep(w) \/ ServerDies(w) PROVE CoverageInv'
  BY <1>2, ResolveSteps, DiesStep
<1>3. ASSUME NEW c \in Comments, PostComment(c) \/ CancelBatch(c) PROVE CoverageInv'
  BY <1>3, PostStep, CancelStep
<1> QED BY <1>1, <1>2, <1>3, AssignStep, PushStep, DeleteStep, CoverageStays DEF CoverageNext

LEMMA CoverageAlways == CoverageSpec => []CoverageInv
<1> QED BY CoverageInitHolds, CoverageStep, PTL DEF CoverageSpec

\* Every variable of the comment routing keeps its type, and a run's receipt names nothing
\* but comments of its plan and deleted ones.
THEOREM CoverageTypeCorrect == CoverageSpec => []CoverageTypeOK
<1>1. ASSUME CoverageInv PROVE CoverageTypeOK
  <2>1. CoverageTyped /\ \A t \in TaskRows : DeliveredPlanned(t) /\ runs[t] \in RunType
    BY <1>1 DEF CoverageInv, CoverageShape, CoverageTyped
  <2>2. UNION {promised, deleted, answered, excused, unfounded} \subseteq Comments
    BY <2>1 DEF CoverageTyped
  <2> QED BY <2>1, <2>2
      DEF CoverageTyped, CoverageTypeOK, DeliveredPlanned, RunType, Statuses
<1> QED BY <1>1, CoverageAlways, PTL

\* A comment whose request answered with a success, and that was not deferred to a task
\* younger than it, is in the plan or window of a live run or a waiting retry, or about to be
\* replayed, or was delivered to a run that completed, or its run failed, its retry was
\* superseded or a replay of it was refused: merging,
\* registering, handing on, cancelling and replaying lose none (resolveCommentTriggerEnqueue,
\* reconcileCommentsOnCompletion, retriggerCancelledTaskSurvivors).
THEOREM CommentsKept == CoverageSpec => []KeptUnlessUnfounded
<1>1. CoverageInv => KeptUnlessUnfounded
  BY DEF CoverageInv
<1> QED BY <1>1, CoverageAlways, PTL
=============================================================================
