--------------------------- MODULE CommentCoverage ---------------------------
(***************************************************************************)
(* How the comments that call one agent to one issue reach a run of it:     *)
(* handler/comment.go (resolveCommentTriggerEnqueue, merge, register, the   *)
(* hand-off), handler/daemon.go (the delivery receipt of a claim,           *)
(* reconcileCommentsOnCompletion) and the statements of agent.sql they use. *)
(*                                                                         *)
(* Every statement is an action.  The issue has a linked pull request whose *)
(* head moves; a task is stamped with the head it is for.  A row that runs  *)
(* or waits for its directory is "running"; attribution is left out.  A       *)
(* comment may be deleted (DeleteComment); edits are left out.               *)
(***************************************************************************)
EXTENDS Naturals, FiniteSets

CONSTANTS
    Comments, NoComment, Deletion,   \* Deletion: a request that deletes a comment
    ToAssignee,      \* the comments routed to the issue's assignee, not by a mention
    MaxDisturbances,    \* bound: failures without a retry, deletions, moves of the head
    MaxTasks,           \* bound: rows and disturbances in all
    ResolveAttempts, HandOffAttempts    \* maxAttempts of the two loops

ASSUME CoverageAssumption ==
    /\ {NoComment, Deletion} \cap Comments = {} /\ ToAssignee \subseteq Comments
    /\ {MaxTasks, MaxDisturbances} \subseteq Nat
    /\ (1 .. MaxTasks) \cap (Comments \cup {Deletion}) = {}  \* rows are no requests
    /\ {ResolveAttempts, HandOffAttempts} \subseteq Nat \ {0}

VARIABLES
    postedAt,   \* comment -> created_at, 0 before it
    promised,   \* history: the comments whose request answered with a success
    runs,       \* row -> [status, trigger, plan, delivered, sample, handed, headSha, at]
    resolver,   \* worker -> the request, or the completion, that resolves comments
    moment,     \* the last created_at given
    headNow,    \* the pull request's head
    deleted,    \* the comments deleted
    answered,   \* history: comments delivered to a run that completed
    excused,    \* history: comments of a run that failed or a retry that was dropped, or
                \* whose replay was refused
    unfounded,  \* history: comments deferred to tasks that do not cover them
    disturbances

pasts == << answered, excused, unfounded >>
coverageVars == << postedAt, promised, runs, resolver, moment, headNow, deleted, pasts,
                   disturbances >>

TaskRows == 1 .. MaxTasks
Workers == Comments \cup TaskRows \cup {Deletion}
\* The plan is the trigger and coalesced_comment_ids; the sample is what the
\* newest claim read of the row and has not finalized.
NoSample == [taken |-> FALSE, trigger |-> NoComment, plan |-> {}]
NoRun == [status |-> "none", trigger |-> NoComment, plan |-> {}, delivered |-> {},
          sample |-> NoSample, handed |-> FALSE, headSha |-> 0, at |-> 0]
\* A row that has ended and was reconciled.
Over == [NoRun EXCEPT !.status = "over"]
Quiet == [pc |-> "idle", comment |-> NoComment, lostRace |-> FALSE, headSha |-> 0,
          attempt |-> 0, todo |-> {}, handsOn |-> FALSE]

CoverageInit ==
    /\ postedAt = [c \in Comments |-> 0] /\ promised = {}
    /\ runs = [t \in TaskRows |-> NoRun] /\ resolver = [w \in Workers |-> Quiet]
    /\ moment = 0 /\ headNow = 1 /\ deleted = {}
    /\ answered = {} /\ excused = {} /\ unfounded = {} /\ disturbances = 0

Is(t, statuses) == runs[t].status \in statuses
Claimed(t) == Is(t, {"dispatched", "running"})
Live(t) == Is(t, {"queued", "dispatched", "running"})
\* A retry that waits for its time is "deferred": it holds no slot, takes no comment
\* and is not active.
Stands(t) == Live(t) \/ Is(t, {"deferred"})
InBounds == disturbances + Cardinality({t \in TaskRows : ~Is(t, {"none"})}) < MaxTasks
\* A failure, a deletion or a push: what the bounds count beside the rows.
Disturbed == InBounds /\ disturbances < MaxDisturbances /\ disturbances' = disturbances + 1

\* idx_one_pending_task_per_issue_agent_v2.
SlotTaken == \E t \in TaskRows : Is(t, {"queued", "dispatched"})
Unborn == {t \in TaskRows : Is(t, {"none"})}
Fresh == {t \in Unborn : InBounds /\ \A u \in Unborn : t <= u}
Newest(T) == {t \in T : \A u \in T : runs[u].at <= runs[t].at}

\* The comments a completion of t reads: planned, or posted since t was created.
InWindow(t) == {c \in Comments \ deleted : postedAt[c] > runs[t].at}
Reconcilable(t) == InWindow(t) \cup (runs[t].plan \ deleted)
\* Those only in the window are forgotten when t does not complete.
Lapsed(t) == InWindow(t) \ runs[t].plan

NewRun(t, c, h) ==
    /\ runs' = [runs EXCEPT ![t] = [NoRun EXCEPT !.status = "queued", !.trigger = c,
                                       !.plan = {c} \ {NoComment}, !.headSha = h, !.at = moment + 1]]
    /\ moment' = moment + 1

-----------------------------------------------------------------------------
(* Requests and completions resolve one comment at a time.                    *)

R(w) == resolver[w]
Goes(w, pc) == resolver' = [resolver EXCEPT ![w].pc = pc]
IsReplay(w) == w \notin Comments
\* A statement that stores the comment as a trigger fails on its foreign key.
Gone(w) == R(w).comment \in deleted

Resolving(todo, handsOn) ==
    IF todo = {} THEN Quiet
    ELSE [Quiet EXCEPT !.pc = "compute", !.todo = todo, !.handsOn = handsOn]

\* The comment is settled: the request answers, a replay takes the next one.
Settles(w, outcome) ==
    IF IsReplay(w)
    THEN /\ resolver' = [resolver EXCEPT ![w] =
                Resolving(R(w).todo \ {R(w).comment}, R(w).handsOn)]
         /\ UNCHANGED promised
    ELSE /\ resolver' = [resolver EXCEPT ![w] = Quiet]
         /\ promised' = IF outcome = "blocked" THEN promised ELSE promised \cup {w}

\* Blocked: the request says so; a completion hands the obligation on, other
\* replays let it go.
Blocked(w) ==
    IF IsReplay(w) /\ R(w).handsOn /\ R(w).pc \in {"merge", "enqueue"}
    THEN /\ resolver' = [resolver EXCEPT ![w].pc = "handRegister", ![w].attempt = 0,
                                         ![w].headSha = headNow]
         /\ UNCHANGED << promised, excused >>
    ELSE /\ Settles(w, "blocked")
         /\ excused' = IF IsReplay(w) THEN excused \cup {R(w).comment} ELSE excused

\* CreateComment, up to the routing.
PostComment(c) ==
    /\ postedAt[c] = 0 /\ postedAt' = [postedAt EXCEPT ![c] = moment + 1] /\ moment' = moment + 1
    /\ resolver' = [resolver EXCEPT ![c] = Resolving({c}, FALSE)]
    /\ UNCHANGED << promised, runs, headNow, deleted, pasts, disturbances >>

Oldest(C) == CHOOSE c \in C : \A d \in C : postedAt[c] <= postedAt[d]
\* computeCommentAgentTriggers: AlreadyPending, at this head; a replay ignores
\* the task its own comment triggered.
AlreadyPending(w, c) ==
    \E t \in TaskRows : Is(t, {"queued", "dispatched"}) /\ runs[t].headSha = headNow
                       /\ (IsReplay(w) => runs[t].trigger # c)
ComputeTrigger(w) ==
    /\ R(w).pc = "compute"
    /\ LET c == Oldest(R(w).todo)
       IN resolver' = [resolver EXCEPT ![w].comment = c,
                          ![w].pc = IF AlreadyPending(w, c) THEN "merge" ELSE "enqueue"]
    /\ UNCHANGED << postedAt, promised, runs, moment, headNow, deleted, pasts, disturbances >>

\* getHeadSha, read once.
HeadOf(w) == IF R(w).headSha = 0 THEN headNow ELSE R(w).headSha

Merged(w, t) ==
    runs' = [runs EXCEPT ![t].trigger = R(w).comment, ![t].plan = @ \cup {R(w).comment}]
Mergeable(w) == {t \in TaskRows : Is(t, {"queued"}) /\ runs[t].headSha = HeadOf(w)}
\* mergeCommentIntoPendingTask; an error is blocked.
MergeIntoPending(w) ==
    /\ R(w).pc = "merge"
    /\ \/ /\ ~Gone(w) /\ \E t \in Newest(Mergeable(w)) : Merged(w, t)
          /\ Settles(w, "coalesced") /\ UNCHANGED << excused, disturbances >>
       \/ /\ Mergeable(w) = {} /\ UNCHANGED << runs, promised, excused, disturbances >>
          /\ resolver' = [resolver EXCEPT ![w].headSha = HeadOf(w),
                             ![w].pc = IF R(w).lostRace THEN "register" ELSE "active"]
       \/ /\ IF Gone(w) THEN UNCHANGED disturbances ELSE Disturbed
          /\ Blocked(w) /\ UNCHANGED runs
    /\ UNCHANGED << postedAt, moment, headNow, deleted, answered, unfounded >>

\* decidePostMergeMiss: defers to whatever task is active.
DeferToActive(w) ==
    /\ R(w).pc = "active"
    /\ \/ /\ \E t \in TaskRows : Live(t)
          /\ Settles(w, "deferred")
          /\ unfounded' = IF \E t \in TaskRows : Live(t) /\ R(w).comment \in Reconcilable(t)
                          THEN unfounded ELSE unfounded \cup {R(w).comment}
       \/ /\ \A t \in TaskRows : ~Live(t)
          /\ Goes(w, "enqueue") /\ UNCHANGED << promised, unfounded >>
    /\ UNCHANGED << postedAt, runs, moment, headNow, deleted, answered, excused, disturbances >>

\* registerPlannedCommentForActiveTask, on a task with a claim receipt.
Registered(w, t) == runs' = [runs EXCEPT ![t].plan = @ \cup {R(w).comment}]
RegisterPlanned(w) ==
    /\ R(w).pc = "register"
    /\ LET T == {t \in TaskRows : Claimed(t) /\ runs[t].headSha = R(w).headSha}
       IN \/ (\E t \in Newest(T) : Registered(w, t)) /\ Settles(w, "registered")
          \/ T = {} /\ Goes(w, "enqueue") /\ UNCHANGED << runs, promised >>
    /\ UNCHANGED << postedAt, moment, headNow, deleted, pasts, disturbances >>

\* enqueueSingleCommentTrigger.  A lost race is told apart by the mention's
\* path only; EnqueueTaskForIssue returns it as any other error.
EnqueueTrigger(w) ==
    /\ R(w).pc = "enqueue"
    /\ \/ /\ ~SlotTaken /\ ~Gone(w) /\ (\E t \in Fresh : NewRun(t, R(w).comment, headNow))
          /\ Settles(w, "queued") /\ UNCHANGED excused
       \/ /\ SlotTaken /\ R(w).comment \notin ToAssignee /\ R(w).attempt + 1 < ResolveAttempts
          /\ resolver' = [resolver EXCEPT ![w].pc = "merge", ![w].lostRace = TRUE,
                                          ![w].attempt = @ + 1]
          /\ UNCHANGED << runs, moment, promised, excused >>
       \/ /\ IF SlotTaken THEN R(w).comment \in ToAssignee \/ R(w).attempt + 1 = ResolveAttempts
                          ELSE Gone(w)
          /\ Blocked(w) /\ UNCHANGED << runs, moment >>
    /\ UNCHANGED << postedAt, headNow, deleted, answered, unfounded, disturbances >>

\* propagateUncoveredCommentObligation: register at any head, merge, enqueue.
HandRegister(w) ==
    /\ R(w).pc = "handRegister"
    /\ LET T == {t \in TaskRows : Claimed(t)}
       IN \/ (\E t \in Newest(T) : Registered(w, t)) /\ Settles(w, "registered")
          \/ T = {} /\ Goes(w, "handMerge") /\ UNCHANGED << runs, promised >>
    /\ UNCHANGED << postedAt, moment, headNow, deleted, pasts, disturbances >>

HandMerge(w) ==
    /\ R(w).pc = "handMerge"
    /\ \/ ~Gone(w) /\ (\E t \in Newest(Mergeable(w)) : Merged(w, t)) /\ Settles(w, "coalesced")
       \/ /\ Mergeable(w) = {} \/ Gone(w)
          /\ Goes(w, "handEnqueue") /\ UNCHANGED << runs, promised >>
    /\ UNCHANGED << postedAt, moment, headNow, deleted, pasts, disturbances >>

HandEnqueue(w) ==
    /\ R(w).pc = "handEnqueue"
    /\ \/ /\ ~SlotTaken /\ ~Gone(w) /\ (\E t \in Fresh : NewRun(t, R(w).comment, headNow))
          /\ Settles(w, "queued") /\ UNCHANGED excused
       \/ /\ SlotTaken /\ R(w).comment \notin ToAssignee /\ R(w).attempt + 1 < HandOffAttempts
          /\ resolver' = [resolver EXCEPT ![w].pc = "handRegister", ![w].attempt = @ + 1]
          /\ UNCHANGED << runs, moment, promised, excused >>
       \/ /\ IF SlotTaken THEN R(w).comment \in ToAssignee \/ R(w).attempt + 1 = HandOffAttempts
                          ELSE Gone(w)
          /\ Blocked(w) /\ UNCHANGED << runs, moment >>
    /\ UNCHANGED << postedAt, headNow, deleted, answered, unfounded, disturbances >>

ResolveStep(w) ==
    \/ ComputeTrigger(w) \/ MergeIntoPending(w) \/ DeferToActive(w) \/ RegisterPlanned(w)
    \/ EnqueueTrigger(w) \/ HandRegister(w) \/ HandMerge(w) \/ HandEnqueue(w)

-----------------------------------------------------------------------------
(* The task.                                                                  *)

\* The issue is assigned, before anything else: a task without a comment.
AssignIssue ==
    /\ moment = 0 /\ \E t \in Fresh : NewRun(t, NoComment, headNow)
    /\ UNCHANGED << postedAt, promised, resolver, headNow, deleted, pasts, disturbances >>

Sampled(r) == [r EXCEPT !.status = "dispatched",
                        !.sample = [taken |-> TRUE, trigger |-> r.trigger, plan |-> r.plan]]

SurvivorsForgotten(batch, gone) == {}  \* mutant: the rest of the batch is not replayed
\* retriggerCancelledTaskSurvivors.
Survivors(batch, gone) == batch \ gone

\* ClaimAgentTask, or the reclaim of a stale claim; a plan whose trigger is
\* missing is cancelled and its comments are replayed (repairStaleCommentPlanIfNeeded).
ClaimRun(t) ==
    /\ \/ Is(t, {"queued"}) /\ (\A u \in TaskRows : ~Claimed(u)) /\ UNCHANGED disturbances
       \/ Is(t, {"dispatched"}) /\ Disturbed
    /\ IF runs[t].trigger = NoComment /\ runs[t].plan # {}
       THEN /\ runs' = [runs EXCEPT ![t] = Over]
            /\ resolver' = [resolver EXCEPT ![t] =
                                Resolving(Survivors(runs[t].plan, deleted), FALSE)]
            /\ excused' = excused \cup Lapsed(t)
       ELSE runs' = [runs EXCEPT ![t] = Sampled(@)] /\ UNCHANGED << resolver, excused >>
    /\ UNCHANGED << postedAt, promised, moment, headNow, deleted, answered, unfounded >>

\* FinalizeTaskClaim: the receipt of what the answer embeds, which may be cut at
\* its payload budget; a failure, or a trigger that changed, returns the claim to
\* the queue.
FinalizeClaim(t) ==
    /\ Is(t, {"dispatched"}) /\ runs[t].sample.taken
    /\ LET s == runs[t].sample
       IN \/ /\ runs[t].trigger = s.trigger /\ UNCHANGED disturbances
             /\ \E embedded \in {s.plan, s.plan \cap {s.trigger}} :
                    runs' = [runs EXCEPT ![t].delivered = embedded, ![t].sample = NoSample,
                                         ![t].handed = TRUE]
          \/ /\ IF runs[t].trigger # s.trigger THEN UNCHANGED disturbances ELSE Disturbed
             /\ runs' = [runs EXCEPT ![t].delivered = {}, ![t].sample = NoSample,
                                     ![t].status = "queued"]
    /\ UNCHANGED << postedAt, promised, resolver, moment, headNow, deleted, pasts >>

StartRun(t) ==
    /\ Is(t, {"dispatched"}) /\ runs[t].handed
    /\ runs' = [runs EXCEPT ![t].status = "running", ![t].sample = NoSample, ![t].handed = FALSE]
    /\ UNCHANGED << postedAt, promised, resolver, moment, headNow, deleted, pasts,
                    disturbances >>

\* CompleteTask commits; the reconciliation follows.
CompleteRun(t) ==
    /\ Is(t, {"running"}) /\ runs' = [runs EXCEPT ![t].status = "completed"]
    /\ resolver' = [resolver EXCEPT ![t].pc = "list"]
    /\ answered' = answered \cup runs[t].delivered
    /\ UNCHANGED << postedAt, promised, moment, headNow, deleted, excused, unfounded,
                    disturbances >>

ByWindowOnly(t) == InWindow(t) \ runs[t].delivered  \* mutant: forgets the planned ids
Undelivered(t) == Reconcilable(t) \ runs[t].delivered
\* reconcileCommentsOnCompletion: the comments to replay.
ListReconcilable(t) ==
    /\ R(t).pc = "list"
    /\ resolver' = [resolver EXCEPT ![t] = Resolving(Undelivered(t), TRUE)]
    /\ runs' = [runs EXCEPT ![t] = Over]
    /\ UNCHANGED << postedAt, promised, moment, headNow, deleted, pasts, disturbances >>

RetryOf(t, status) ==
    [NoRun EXCEPT !.status = status, !.trigger = runs[t].trigger, !.plan = runs[t].plan,
                  !.headSha = runs[t].headSha, !.at = moment + 1]
\* FailTask, or a cancellation.  The retry inherits the plan; a queued one is not
\* made when another task holds the slot, a deferred one is.  Nothing replays the
\* comments that were only in the window.
FailRun(t) ==
    /\ Stands(t)
    /\ \/ /\ Disturbed /\ runs' = [runs EXCEPT ![t] = Over] /\ UNCHANGED moment
          /\ excused' = excused \cup Lapsed(t) \cup runs[t].plan
       \/ /\ Live(t) /\ UNCHANGED disturbances
          /\ \E u \in Fresh, status \in {"queued", "deferred"} :
                /\ status = "queued" =>
                       \A v \in TaskRows \ {t} : ~Is(v, {"queued", "dispatched"})
                /\ runs' = [[runs EXCEPT ![t] = Over] EXCEPT ![u] = RetryOf(t, status)]
          /\ moment' = moment + 1 /\ excused' = excused \cup Lapsed(t)
    /\ UNCHANGED << postedAt, promised, resolver, headNow, deleted, answered, unfounded >>

\* cancelSupersededDeferredRetries: an active task supersedes the retry, whose
\* comments nothing replays.
DropSuperseded(t) ==
    /\ Is(t, {"deferred"}) /\ \E u \in TaskRows : Live(u)
    /\ runs' = [runs EXCEPT ![t] = Over]
    /\ excused' = excused \cup Lapsed(t) \cup runs[t].plan
    /\ UNCHANGED << postedAt, promised, resolver, moment, headNow, deleted, answered, unfounded,
                    disturbances >>

\* PromoteDueDeferredTasksForRuntime, once fire_at has passed.
PromoteRun(t) ==
    /\ Is(t, {"deferred"}) /\ ~SlotTaken /\ runs' = [runs EXCEPT ![t].status = "queued"]
    /\ UNCHANGED << postedAt, promised, resolver, moment, headNow, deleted, pasts, disturbances >>

\* DeleteComment: CancelTasksByTriggerComment, whose error is only logged.
CancelBatch(c) ==
    /\ postedAt[c] # 0 /\ c \notin deleted /\ R(Deletion).pc = "idle" /\ Disturbed
    /\ \E T \in {{t \in TaskRows : Stands(t) /\ c \in runs[t].plan}, {}} :
          /\ runs' = [t \in TaskRows |-> IF t \in T THEN Over ELSE runs[t]]
          /\ resolver' = [resolver EXCEPT ![Deletion] =
                [Quiet EXCEPT !.pc = "delete", !.comment = c,
                              !.todo = UNION {runs[t].plan : t \in T}]]
          /\ excused' = excused \cup UNION {Lapsed(t) : t \in T}
    /\ UNCHANGED << postedAt, promised, moment, headNow, deleted, answered, unfounded >>

\* The row goes, and with it (ON DELETE SET NULL) the trigger of a task that got
\* it since; or the statement fails, and the whole batch is replayed.
DeleteRow ==
    /\ R(Deletion).pc = "delete"
    /\ LET c == R(Deletion).comment
       IN \/ /\ deleted' = deleted \cup {c}
             /\ runs' = [t \in TaskRows |-> IF runs[t].trigger # c THEN runs[t]
                             ELSE [runs[t] EXCEPT !.trigger = NoComment, !.plan = @ \ {c}]]
             /\ resolver' = [resolver EXCEPT ![Deletion] =
                                Resolving(Survivors(R(Deletion).todo, deleted'), FALSE)]
          \/ /\ resolver' = [resolver EXCEPT ![Deletion] =
                                Resolving(Survivors(R(Deletion).todo, deleted), FALSE)]
             /\ UNCHANGED << deleted, runs >>
    /\ UNCHANGED << postedAt, promised, moment, headNow, pasts, disturbances >>

PushHead ==
    /\ Disturbed /\ headNow' = headNow + 1
    /\ UNCHANGED << postedAt, promised, runs, resolver, moment, deleted, pasts >>

\* The server dies in the middle of a request or of a reconciliation.
ServerDies(w) ==
    /\ R(w).pc # "idle" /\ Disturbed /\ resolver' = [resolver EXCEPT ![w] = Quiet]
    /\ excused' = IF ~IsReplay(w) THEN excused
                  ELSE excused \cup (IF R(w).pc = "list" THEN Undelivered(w) ELSE R(w).todo)
    /\ runs' = IF R(w).pc = "list" THEN [runs EXCEPT ![w] = Over] ELSE runs
    /\ UNCHANGED << postedAt, promised, moment, headNow, deleted, answered, unfounded >>

RunStep(t) ==
    ClaimRun(t) \/ FinalizeClaim(t) \/ StartRun(t) \/ CompleteRun(t) \/ ListReconcilable(t)
    \/ FailRun(t) \/ DropSuperseded(t) \/ PromoteRun(t)

CoverageNext ==
    \/ \E c \in Comments : PostComment(c) \/ CancelBatch(c)
    \/ \E w \in Workers : ResolveStep(w) \/ ServerDies(w)
    \/ \E t \in TaskRows : RunStep(t)
    \/ AssignIssue \/ PushHead \/ DeleteRow

CoverageSpec == CoverageInit /\ [][CoverageNext]_coverageVars

-----------------------------------------------------------------------------
(* Properties.                                                                *)

\* Every variable has its type.
CoverageTypeOK ==
    /\ postedAt \in [Comments -> Nat] /\ moment \in Nat /\ headNow \in Nat /\ disturbances \in Nat
    /\ \A t \in TaskRows :
          /\ runs[t].status \in {"none", "deferred", "queued", "dispatched", "running",
                                "completed", "over"}
          /\ runs[t].delivered \subseteq runs[t].plan \cup deleted /\ runs[t].plan \subseteq Comments
    /\ UNION {promised, deleted, answered, excused, unfounded} \subseteq Comments

Replaying(c) ==
    \E w \in Workers \ Comments :
        IF R(w).pc = "list" THEN c \in Undelivered(w) ELSE c \in R(w).todo
Covered(c) ==
    \/ \E t \in TaskRows : Stands(t) /\ c \in Reconcilable(t)
    \/ Replaying(c) \/ c \in answered \cup excused

\* "A success-shaped outcome is returned only when the comment is provably
\* attached to a run that will address it": after the answer some run has it,
\* will have it, or its completion will replay it.
PromiseKept == \A c \in promised \ deleted : Covered(c)

\* It is, but for the comments deferred to a task younger than they are:
\* merging, registering and handing on lose none.
KeptUnlessUnfounded == \A c \in promised \ (unfounded \cup deleted) : Covered(c)
=============================================================================
