-------------------------- MODULE TaskQueueProofs --------------------------
(***************************************************************************)
(* Proofs about TaskQueue.  Every step changes the table in one of five     *)
(* ways (StepKinds): rows move on quietly, a row is added, a queued row is  *)
(* claimed, a claim is rolled back, or a promotion writes its snapshot back.*)
(* The theorems follow from these five, under an invariant that says which  *)
(* rows exist.                                                              *)
(***************************************************************************)
EXTENDS TaskQueue, FiniteSetTheorems, TLAPS

\* An existing row has an agent and a subject, an absent one is NoTask; what
\* handlers, sweeps and the rerun refer to exists; the unique index holds.
Existing ==
    /\ \A i \in Rows : task[i].status = "none" => task[i] = NoTask
    /\ \A i \in Rows : task[i].status # "none" =>
                         task[i].agent \in Agents /\ task[i].subject \in Subjects
Referred ==
    /\ \A h \in Handlers : \A i \in poll[h].due : task[i].status # "none"
    /\ \A h \in Handlers : poll[h].due # {} => poll[h].pc = "promote"
    /\ \A h \in Handlers : poll[h].pc = "respond" => poll[h].id \in Rows /\ poll[h].claim \in Claims
    /\ \A x \in failed : x.row.agent \in Agents /\ x.row.subject \in Subjects
    /\ rerun.pc = "enqueue" => rerun.agent \in Agents /\ rerun.issue \in Issues
IInv == TypeOK /\ Existing /\ Referred /\ Unique(task)

-----------------------------------------------------------------------------
(* The five kinds of step.                                                    *)

\* A row that has not ended goes on without gaining a slot or an agent's time.
Moves(x, y) ==
    /\ x.status \in Open /\ y.status # "none"
    /\ y.agent = x.agent /\ y.subject = x.subject
    /\ y.kind = x.kind /\ y.parent = x.parent
    /\ y.attempt = x.attempt /\ y.max = x.max /\ x.claims <= y.claims
    /\ y.status = "queued" => x.status = "queued"
    /\ y.status \in Slot => x.status \in Slot
    /\ y.status \in Active => x.status \in Active
    /\ x.status = "running" => y.status \in {"running"} \cup Terminal
    /\ x.began => y.began
    /\ y.began => x.began \/ y.status = "running"
Quiet(t) == \A k \in Rows : t[k] = task[k] \/ Moves(task[k], t[k])

\* The two ways to owe row i a retry: it fails in this very step, or a sweep has
\* handed it over, which the retry takes off the list.
Owed(i) ==
    /\ i \in Rows
    /\ \/ task[i].status \in Active /\ task'[i].status = "failed" /\ failed' = failed
       \/ \E x \in failed : x.id = i /\ Retryable(x.row) /\ failed' = failed \ {x}

\* A new row y for the free id j, besides the quiet change to t.
Adds(t, j, y) ==
    /\ t \in [Rows -> RowType] /\ Quiet(t)
    /\ j \in Rows /\ task[j].status = "none"
    /\ y \in RowType /\ y.status \in {"queued", "deferred"}
    /\ y.agent \in Agents /\ y.subject \in Subjects /\ y.attempt <= y.max
    /\ y.began = FALSE
    /\ y.kind = "retry" => Owed(y.parent)
    /\ y.status = "queued" => ~SlotTaken(t, y.agent, y.subject)
    /\ task' = [t EXCEPT ![j] = y]

\* A claim takes the queued row i for an agent with time for it.
Takes(i) ==
    /\ i \in Rows /\ Claimable(i)
    /\ task' = [task EXCEPT ![i] = Dispatched(i)]

\* A promotion's write.
Promotes(h) ==
    /\ h \in Handlers /\ poll[h].pc = "promote"
    /\ Unique(Promoted(poll[h].due))
    /\ task' = Promoted(poll[h].due) /\ poll'[h].due = {}

\* A claim that failed to be finalized is rolled back.
Rolls(h) ==
    /\ h \in Handlers /\ poll[h].pc = "respond" /\ HoldsClaim(h)
    /\ Put(poll[h].id, With(poll[h].id, "queued"))

Quietly == task' \in [Rows -> RowType] /\ Quiet(task')
Kinds ==
    \/ Quietly
    \/ \E t, j, y : Adds(t, j, y)
    \/ \E i \in Rows : Takes(i)
    \/ \E h \in Handlers : Rolls(h)
    \/ \E h \in Handlers : Promotes(h)

-----------------------------------------------------------------------------
(* Rows.                                                                      *)

\* What the assumption says of each constant.
LEMMA Constants ==
  /\ Capacity \in Nat /\ MaxAttempts \in Nat \ {0} /\ MaxMishaps \in Nat /\ MaxAsked \in Nat
  /\ MaxRows \in Nat /\ MaxClaims \in Nat
  /\ \A r \in DaemonReasons : r \in {"fatal", "transient", "network", "offline"}
  /\ "none" \notin Agents /\ "none" \notin Subjects
BY QueueAssumption DEF Subjects

\* Moving a row to another status keeps its type and everything but the status.
LEMMA WithRow ==
  ASSUME TypeOK, NEW i \in Rows,
         NEW st \in {"completed", "failed", "cancelled"} \cup Open
  PROVE  /\ With(i, st) \in RowType
         /\ With(i, st).status = st
         /\ With(i, st).agent = task[i].agent /\ With(i, st).subject = task[i].subject
         /\ With(i, st).attempt = task[i].attempt /\ With(i, st).max = task[i].max
         /\ With(i, st).kind = task[i].kind /\ With(i, st).parent = task[i].parent
         /\ With(i, st).began = task[i].began /\ With(i, st).reason = task[i].reason
         /\ With(i, st).claims = task[i].claims
<1>1. task[i] \in RowType
  BY DEF TypeOK
<1> QED BY <1>1 DEF With, RowType

\* A failed row differs in its status and its reason.
LEMMA FailedRow ==
  ASSUME TypeOK, NEW i \in Rows,
         NEW reason \in {"fatal", "transient", "network", "offline"}
  PROVE  /\ Failed(i, reason) \in RowType
         /\ Failed(i, reason).status = "failed" /\ Failed(i, reason).reason = reason
         /\ Failed(i, reason).agent = task[i].agent
         /\ Failed(i, reason).subject = task[i].subject
         /\ Failed(i, reason).attempt = task[i].attempt /\ Failed(i, reason).max = task[i].max
         /\ Failed(i, reason).claims = task[i].claims
         /\ Failed(i, reason).kind = task[i].kind /\ Failed(i, reason).parent = task[i].parent
         /\ Failed(i, reason).began = task[i].began
<1>1. With(i, "failed") \in RowType
  BY WithRow
<1> QED BY <1>1, WithRow DEF Failed, RowType

\* A claim gives a row its next claim number.
LEMMA DispatchedRow ==
  ASSUME TypeOK, NEW i \in Rows, task[i].claims < MaxClaims
  PROVE  /\ Dispatched(i) \in RowType
         /\ Dispatched(i).status = "dispatched"
         /\ Dispatched(i).agent = task[i].agent /\ Dispatched(i).subject = task[i].subject
         /\ Dispatched(i).attempt = task[i].attempt /\ Dispatched(i).max = task[i].max
         /\ Dispatched(i).claims = task[i].claims + 1
         /\ Dispatched(i).kind = task[i].kind /\ Dispatched(i).parent = task[i].parent
         /\ Dispatched(i).began = task[i].began
<1>1. task[i] \in RowType
  BY DEF TypeOK
<1>2. task[i].claims + 1 \in 0 .. MaxClaims
  BY <1>1, Constants DEF RowType
<1> QED BY <1>1, <1>2 DEF Dispatched, RowType, Open, Active

\* The mark a first start leaves.
LEMMA BegunRow ==
  ASSUME NEW y \in RowType
  PROVE  /\ [y EXCEPT !.began = TRUE] \in RowType
         /\ [y EXCEPT !.began = TRUE].status = y.status
         /\ [y EXCEPT !.began = TRUE].agent = y.agent
         /\ [y EXCEPT !.began = TRUE].subject = y.subject
         /\ [y EXCEPT !.began = TRUE].attempt = y.attempt
         /\ [y EXCEPT !.began = TRUE].max = y.max
         /\ [y EXCEPT !.began = TRUE].claims = y.claims
         /\ [y EXCEPT !.began = TRUE].kind = y.kind
         /\ [y EXCEPT !.began = TRUE].parent = y.parent
         /\ [y EXCEPT !.began = TRUE].began = TRUE
BY DEF RowType

\* A fire_at that has passed.
LEMMA DueRow ==
  ASSUME NEW y \in RowType
  PROVE  /\ [y EXCEPT !.due = TRUE] \in RowType
         /\ [y EXCEPT !.due = TRUE].status = y.status
         /\ [y EXCEPT !.due = TRUE].agent = y.agent
         /\ [y EXCEPT !.due = TRUE].subject = y.subject
         /\ [y EXCEPT !.due = TRUE].attempt = y.attempt
         /\ [y EXCEPT !.due = TRUE].max = y.max
         /\ [y EXCEPT !.due = TRUE].claims = y.claims
         /\ [y EXCEPT !.due = TRUE].kind = y.kind
         /\ [y EXCEPT !.due = TRUE].parent = y.parent
         /\ [y EXCEPT !.due = TRUE].began = y.began
BY DEF RowType

\* The row an INSERT adds.
LEMMA NewRow ==
  ASSUME NEW status \in {"queued", "deferred"}, NEW a \in Agents, NEW s \in Subjects,
         NEW kind \in {"fresh", "fallback", "retry", "rerun"}, NEW parent \in 0 .. MaxRows,
         NEW attempt \in Nat, NEW max \in Nat
  PROVE  NewTask(status, a, s, kind, parent, attempt, max) \in RowType
<1>1. 0 \in 0 .. MaxClaims
  BY Constants
<1> QED BY <1>1 DEF NewTask, RowType, Open, Active

\* Changing one row, or a set of rows, in a way that moves them on.
LEMMA PutQuietly ==
  ASSUME TypeOK, NEW i \in Rows, NEW x \in RowType, Moves(task[i], x), Put(i, x)
  PROVE  Quietly
BY DEF Put, Quietly, Quiet, TypeOK

\* A status reached from an open one moves the row on.
LEMMA WithMoves ==
  ASSUME TypeOK, NEW i \in Rows, task[i].status \in Open,
         NEW st \in {"completed", "failed", "cancelled"} \cup Open, st # "queued",
         st \in Slot => task[i].status \in Slot,
         st \in Active => task[i].status \in Active,
         task[i].status = "running" => st \in Terminal
  PROVE  Moves(task[i], With(i, st))
<1>1. task[i].claims \in Nat
  BY DEF TypeOK, RowType
<1> QED BY <1>1, WithRow DEF Moves, Open, Active, Waiting, Terminal

\* So does a failure.
LEMMA FailedMoves ==
  ASSUME TypeOK, NEW i \in Rows, task[i].status \in Open,
         NEW reason \in {"fatal", "transient", "network", "offline"}
  PROVE  Moves(task[i], Failed(i, reason)) /\ Failed(i, reason) \in RowType
<1>1. task[i].claims \in Nat
  BY DEF TypeOK, RowType
<1> QED BY <1>1, FailedRow DEF Moves, Open, Active, Slot, Waiting, Terminal

\* A new row that fits.
LEMMA AddRow ==
  ASSUME TypeOK, NEW t \in [Rows -> RowType], Quiet(t),
         NEW j \in Rows, task[j].status = "none",
         NEW status \in {"queued", "deferred"}, NEW a \in Agents, NEW s \in Subjects,
         NEW kind \in {"fresh", "fallback", "retry", "rerun"}, NEW parent \in 0 .. MaxRows,
         NEW attempt \in Nat, NEW max \in Nat, attempt <= max,
         kind = "retry" => Owed(parent),
         status = "queued" => ~SlotTaken(t, a, s),
         task' = [t EXCEPT ![j] = NewTask(status, a, s, kind, parent, attempt, max)]
  PROVE  \E u, k, y : Adds(u, k, y)
<1> DEFINE new == NewTask(status, a, s, kind, parent, attempt, max)
<1>0. new \in RowType
  BY NewRow
<1>1. /\ new.status = status /\ new.agent = a /\ new.subject = s
      /\ new.attempt = attempt /\ new.max = max
      /\ new.kind = kind /\ new.parent = parent /\ new.began = FALSE
  BY DEF NewTask
<1> HIDE DEF new
<1>2. task' = [t EXCEPT ![j] = new]
  BY DEF new
<1>3. Adds(t, j, new)
  BY <1>0, <1>1, <1>2 DEF Adds
<1> QED BY <1>3

\* A step that leaves the table alone is quiet.
LEMMA SameIsQuiet == ASSUME TypeOK PROVE Quiet(task) /\ (UNCHANGED task => Quietly)
BY DEF Quiet, Quietly, TypeOK

-----------------------------------------------------------------------------
(* Which kind each step is.                                                   *)

\* One row is given another status.
LEMMA PutWith ==
  ASSUME TypeOK, NEW i \in Rows, task[i].status \in Open,
         NEW st \in {"completed", "failed", "cancelled"} \cup Open, st # "queued",
         st \in Slot => task[i].status \in Slot,
         st \in Active => task[i].status \in Active,
         task[i].status = "running" => st \in Terminal,
         Put(i, With(i, st))
  PROVE  Quietly
BY WithRow, WithMoves, PutQuietly

\* Rows of a set S are given a status outside Slot and Active.
LEMMA BulkWith ==
  ASSUME TypeOK, NEW S \in SUBSET Rows, \A i \in S : task[i].status \in Open,
         NEW st \in {"failed", "cancelled"},
         NEW reason \in {"fatal", "transient", "network", "offline"},
         task' = [i \in Rows |-> IF i \notin S THEN task[i]
                                 ELSE IF st = "failed" THEN Failed(i, reason) ELSE With(i, st)]
  PROVE  Quietly
<1>1. \A i \in Rows : task[i] \in RowType
  BY DEF TypeOK
<1>2. ASSUME NEW i \in S
      PROVE  /\ With(i, "cancelled") \in RowType /\ Moves(task[i], With(i, "cancelled"))
             /\ Failed(i, reason) \in RowType /\ Moves(task[i], Failed(i, reason))
  <2>1. "cancelled" \notin Slot /\ "cancelled" \notin Active /\ "cancelled" \in Terminal
    BY DEF Slot, Active, Waiting, Terminal
  <2> QED BY <2>1, WithRow, WithMoves, FailedMoves
<1> QED BY <1>1, <1>2 DEF Quietly, Quiet

\* An enqueue adds a row.
LEMMA EnqueueKind ==
  ASSUME IInv, NEW a \in Agents, NEW s \in Subjects, Enqueue(a, s)
  PROVE  Kinds
<1>1. PICK i \in Rows : Fresh(i) /\ Put(i, NewTask("queued", a, s, "fresh", 0, 1, MaxAttempts))
  BY DEF Enqueue
<1>2. TypeOK /\ ~SlotTaken(task, a, s) /\ task[i].status = "none"
  BY <1>1 DEF IInv, Enqueue, Fresh
<1>3. 0 \in 0 .. MaxRows /\ 1 \in Nat /\ MaxAttempts \in Nat /\ 1 <= MaxAttempts
  BY Constants
<1>4. task' = [task EXCEPT ![i] = NewTask("queued", a, s, "fresh", 0, 1, MaxAttempts)]
  BY <1>1 DEF Put
<1>5. task \in [Rows -> RowType] /\ Quiet(task)
  BY <1>2, SameIsQuiet DEF TypeOK
<1> QED BY <1>2, <1>3, <1>4, <1>5, AddRow DEF Kinds

\* So does a fallback, deferred.
LEMMA FallbackKind ==
  ASSUME IInv, NEW p \in Rows, NEW a \in Agents, EnqueueFallback(p, a)
  PROVE  Kinds
<1>1. PICK i \in Rows :
        /\ Fresh(i)
        /\ Put(i, NewTask("deferred", a, task[p].subject, "fallback", p, 1, MaxAttempts))
  BY DEF EnqueueFallback
<1>2. TypeOK /\ task[i].status = "none" /\ task[p].subject \in Subjects
  BY <1>1 DEF IInv, EnqueueFallback, Fresh, Subjects
<1>3. p \in 0 .. MaxRows /\ 1 \in Nat /\ MaxAttempts \in Nat /\ 1 <= MaxAttempts
  BY Constants DEF Rows
<1>4. task' = [task EXCEPT ![i] =
                 NewTask("deferred", a, task[p].subject, "fallback", p, 1, MaxAttempts)]
  BY <1>1 DEF Put
<1>5. task \in [Rows -> RowType] /\ Quiet(task)
  BY <1>2, SameIsQuiet DEF TypeOK
<1> QED BY <1>2, <1>3, <1>4, <1>5, AddRow DEF Kinds

\* A retry of a row read as x, after rows moved quietly to t.
LEMMA RetryKind ==
  ASSUME IInv, NEW t \in [Rows -> RowType], Quiet(t), NEW i \in Rows, NEW x \in RowType,
         x.agent \in Agents, x.subject \in Subjects, Retry(t, i, x),
         \A j \in Rows : /\ task[j].status = "none" /\ Retryable(x)
                         /\ task' = [t EXCEPT ![j] = RetryRow(i, x)]
                         => Owed(i)
  PROVE  Kinds
<1>0. TypeOK
  BY DEF IInv
<1>1. CASE task' = t
  BY <1>1 DEF Kinds, Quietly
<1>2. CASE /\ Retryable(x) /\ ~SlotTaken(t, x.agent, x.subject)
           /\ \E j \in Rows : Fresh(j) /\ task' = [t EXCEPT ![j] = RetryRow(i, x)]
  <2>1. PICK j \in Rows : Fresh(j) /\ task' = [t EXCEPT ![j] = RetryRow(i, x)]
    BY <1>2
  <2>2. task[j].status = "none"
    BY <2>1 DEF Fresh
  <2> DEFINE st == IF RetryWaits(x) THEN "deferred" ELSE "queued"
             n == x.attempt + 1
  <2>3. x.attempt \in Nat /\ x.max \in Nat
    BY DEF RowType
  <2>4. n \in Nat /\ Ceiling(x) \in Nat /\ n <= Ceiling(x)
    BY <1>2, <2>3 DEF Retryable, Ceiling, NetworkAttempts
  <2>5. st \in {"queued", "deferred"}
    OBVIOUS
  <2>6. task' = [t EXCEPT ![j] = NewTask(st, x.agent, x.subject, "retry", i, n, Ceiling(x))]
    BY <2>1 DEF RetryRow
  <2>7. i \in 0 .. MaxRows
    BY Constants DEF Rows
  <2>8. Owed(i)
    BY <1>2, <2>1, <2>2
  <2> HIDE DEF st, n
  <2>9. \E u, k, y : Adds(u, k, y)
    BY <1>0, <1>2, <2>2, <2>4, <2>5, <2>6, <2>7, <2>8, AddRow
  <2> QED BY <2>9 DEF Kinds
<1> QED BY <1>1, <1>2 DEF Retry

\* A failure reported, with the retry it may create.
LEMMA FailTaskKind ==
  ASSUME IInv, NEW i \in Rows, NEW reason \in {"fatal", "transient", "network", "offline"},
         FailTask(i, reason), UNCHANGED failed
  PROVE  Kinds
<1>0. TypeOK
  BY DEF IInv
<1>1. CASE task[i].status \in Active
  <2> DEFINE t == [task EXCEPT ![i] = Failed(i, reason)]
  <2>1. Moves(task[i], Failed(i, reason)) /\ Failed(i, reason) \in RowType
    BY <1>0, <1>1, FailedMoves DEF Open
  <2>2. t \in [Rows -> RowType] /\ t[i] = Failed(i, reason)
        /\ \A k \in Rows : k # i => t[k] = task[k]
    BY <1>0, <2>1 DEF TypeOK
  <2>3. Retry(t, i, Failed(i, reason))
    BY <1>1 DEF FailTask
  <2> HIDE DEF t
  <2>4. Quiet(t)
    BY <2>1, <2>2 DEF Quiet
  <2>5. /\ Failed(i, reason).agent \in Agents /\ Failed(i, reason).subject \in Subjects
        /\ Failed(i, reason).status = "failed"
    BY <1>0, <1>1, FailedRow DEF IInv, Existing, Active, Waiting
  <2>6. ASSUME NEW j \in Rows, task[j].status = "none",
               task' = [t EXCEPT ![j] = RetryRow(i, Failed(i, reason))]
        PROVE  Owed(i)
    <3>1. i # j
      BY <1>1, <2>6 DEF Active, Waiting
    <3>2. task'[i] = Failed(i, reason)
      BY <2>2, <2>6, <3>1
    <3> QED BY <1>1, <2>5, <3>2 DEF Owed
  <2> QED BY <2>1, <2>2, <2>3, <2>4, <2>5, <2>6, RetryKind
<1>2. CASE task[i].status \notin Active
  BY <1>0, <1>2, SameIsQuiet DEF FailTask, Kinds
<1> QED BY <1>1, <1>2

\* Withdrawn fallbacks and cleared rows are cancelled before they ended.
LEMMA WithdrawnKind ==
  ASSUME TypeOK, NEW P, task' = Withdrawn(P)
  PROVE  Kinds
<1> DEFINE S == {j \in Rows : /\ task[j].kind = "fallback" /\ task[j].parent \in P
                              /\ task[j].status \in Open \ {"running"}}
<1>1. S \in SUBSET Rows /\ \A i \in S : task[i].status \in Open
  OBVIOUS
<1>2. task' = [i \in Rows |-> IF i \notin S THEN task[i]
                 ELSE IF "cancelled" = "failed" THEN Failed(i, "fatal")
                 ELSE With(i, "cancelled")]
  BY DEF Withdrawn
<1> HIDE DEF S
<1>3. Quietly
  BY <1>1, <1>2, BulkWith
<1> QED BY <1>3 DEF Kinds

\* What a rerun clears for its own row.
LEMMA ClearedKind ==
  ASSUME TypeOK, NEW a, NEW s, task' = Cleared(a, s)
  PROVE  Kinds
<1> DEFINE S == {j \in Rows : /\ task[j].agent = a /\ task[j].subject = s
                              /\ task[j].status \in Slot \cup {"deferred"}}
<1>1. S \in SUBSET Rows /\ \A i \in S : task[i].status \in Open
  BY DEF Open, Slot, Active
<1>2. task' = [i \in Rows |-> IF i \notin S THEN task[i]
                 ELSE IF "cancelled" = "failed" THEN Failed(i, "fatal")
                 ELSE With(i, "cancelled")]
  BY DEF Cleared
<1> HIDE DEF S
<1>3. Quietly
  BY <1>1, <1>2, BulkWith
<1> QED BY <1>3 DEF Kinds

\* The steps of a claim request.
LEMMA AnswerKind ==
  ASSUME IInv, NEW h \in Handlers, Answer(h)
  PROVE  Kinds
<1>0. TypeOK /\ (UNCHANGED task => Kinds)
  BY SameIsQuiet DEF IInv, Kinds
<1>1. CASE CancelSuperseded(h)
  <2>1. CASE UNCHANGED task
    BY <2>1, <1>0
  <2>2. CASE task' = [i \in Rows |-> IF Superseded(i) THEN With(i, "cancelled") ELSE task[i]]
    <3> DEFINE S == {i \in Rows : Superseded(i)}
    <3>1. \A i \in S : task[i].status \in Open
      BY DEF Superseded, Open
    <3>2. task' = [i \in Rows |-> IF i \notin S THEN task[i]
                     ELSE IF "cancelled" = "failed" THEN Failed(i, "fatal")
                     ELSE With(i, "cancelled")]
      BY <2>2
    <3>3. S \in SUBSET Rows
      OBVIOUS
    <3> HIDE DEF S
    <3>4. Quietly
      BY <1>0, <3>1, <3>2, <3>3, BulkWith
    <3> QED BY <3>4 DEF Kinds
  <2> QED BY <1>1, <2>1, <2>2 DEF CancelSuperseded
<1>2. CASE PromoteWrite(h)
  <2>1. poll'[h].due = {}
    BY <1>2, <1>0 DEF PromoteWrite, TypeOK, PollType
  <2> QED BY <1>2, <1>0, <2>1 DEF PromoteWrite, Kinds, Promotes
<1>3. CASE \/ PromoteSelect(h) \/ NothingToClaim(h) \/ PollError(h)
           \/ Deliver(h) \/ LoseResponse(h)
  BY <1>3, <1>0 DEF PromoteSelect, NothingToClaim, PollError, Deliver, LoseResponse
<1>4. CASE Requeue(h)
  <2>1. CASE UNCHANGED task
    BY <2>1, <1>0
  <2>2. CASE HoldsClaim(h) /\ Put(poll[h].id, With(poll[h].id, "queued"))
    BY <1>4, <2>2 DEF Requeue, Kinds, Rolls
  <2> QED BY <1>4, <2>1, <2>2 DEF Requeue
<1>5. CASE Reject(h)
  <2>1. poll[h].id \in Rows
    BY <1>5 DEF IInv, Referred, Reject
  <2>2. CASE FailTask(poll[h].id, "fatal")
    BY <1>5, <2>1, <2>2, FailTaskKind DEF Reject
  <2>3. CASE task[poll[h].id].status \in Open /\ Put(poll[h].id, With(poll[h].id, "cancelled"))
    <3>1. "cancelled" \notin Slot /\ "cancelled" \notin Active /\ "cancelled" \in Terminal
      BY DEF Slot, Active, Waiting, Terminal
    <3>2. Quietly
      BY <1>0, <2>1, <2>3, <3>1, PutWith
    <3> QED BY <3>2 DEF Kinds
  <2> QED BY <1>5, <2>2, <2>3 DEF Reject
<1>6. ASSUME NEW i \in Rows, Reclaim(h, i)
      PROVE  Kinds
  <2>1. task[i].claims < MaxClaims /\ Put(i, Dispatched(i)) /\ task[i].status = "dispatched"
    BY <1>6 DEF Reclaim, Hold
  <2>2. Moves(task[i], Dispatched(i)) /\ Dispatched(i) \in RowType
    <3>1. task[i].claims \in Nat
      BY <1>0 DEF TypeOK, RowType
    <3> QED BY <1>0, <2>1, <3>1, DispatchedRow DEF Moves, Open, Active, Slot
  <2>3. Quietly
    BY <1>0, <2>1, <2>2, PutQuietly
  <2> QED BY <2>3 DEF Kinds
<1>7. ASSUME NEW i \in Rows, Claim(h, i)
      PROVE  Kinds
  BY <1>7 DEF Claim, Hold, Put, Kinds, Takes
<1> QED BY <1>1, <1>2, <1>3, <1>4, <1>5, <1>6, <1>7 DEF Answer

\* The steps of a delivery.
LEMMA DeliveryKind ==
  ASSUME IInv, NEW i \in Rows, NEW c \in Claims,
         MarkWaiting(i, c) \/ Comment(i, c) \/ Handle(i, c)
  PROVE  Kinds
<1>0. TypeOK /\ (UNCHANGED task => Kinds)
  BY SameIsQuiet DEF IInv, Kinds
<1>1. CASE MarkWaiting(i, c)
  <2>1. task[i].status = "dispatched" /\ Put(i, With(i, Waiting))
    BY <1>1 DEF MarkWaiting
  <2>2. /\ "dispatched" \in Open /\ "dispatched" \in Active
        /\ Waiting \in Open /\ Waiting \notin Slot /\ Waiting # "queued"
    BY DEF Open, Active, Slot, Waiting
  <2>3. Quietly
    BY <1>0, <2>1, <2>2, PutWith
  <2> QED BY <2>3 DEF Kinds
<1>2. CASE Comment(i, c)
  <2>1. ASSUME NEW P, task' = Withdrawn(P)
        PROVE  Kinds
    BY <1>0, <2>1, WithdrawnKind
  <2> QED BY <1>2, <2>1 DEF Comment
<1>3. CASE Start(i, c)
  <2>1. CASE UNCHANGED task
    BY <1>0, <2>1
  <2>2. CASE Startable(i) /\ Put(i, [With(i, "running") EXCEPT !.began = TRUE])
    <3> DEFINE x == [With(i, "running") EXCEPT !.began = TRUE]
    <3>1. "running" \in {"completed", "failed", "cancelled"} \cup Open /\ "running" \notin Slot
          /\ task[i].status \in Open /\ task[i].status \in Active
      BY <2>2 DEF Startable, Open, Active, Slot, Waiting
    <3>2. With(i, "running") \in RowType
      BY <1>0, <3>1, WithRow
    <3>3. /\ x \in RowType /\ x.status = "running" /\ x.began
          /\ x.kind = With(i, "running").kind /\ x.parent = With(i, "running").parent
          /\ x.agent = With(i, "running").agent /\ x.subject = With(i, "running").subject
          /\ x.attempt = With(i, "running").attempt /\ x.max = With(i, "running").max
          /\ x.claims = With(i, "running").claims
      BY <1>0, <3>1, <3>2, WithRow, BegunRow
    <3>4. Put(i, x)
      BY <2>2
    <3> HIDE DEF x
    <3>5. Moves(task[i], x)
      <4>1. task[i].claims \in Nat
        BY <1>0 DEF TypeOK, RowType
      <4> QED BY <1>0, <3>1, <3>3, <4>1, WithRow DEF Moves
    <3>6. Quietly
      BY <1>0, <3>3, <3>4, <3>5, PutQuietly
    <3> QED BY <3>6 DEF Kinds
  <2> QED BY <1>3, <2>1, <2>2 DEF Start
<1>4. CASE Complete(i, c)
  <2>1. CASE UNCHANGED task
    BY <1>0, <2>1
  <2>2. CASE task[i].status = "running" /\ Put(i, With(i, "completed"))
    <3>1. /\ "running" \in Open /\ "completed" \notin Slot /\ "completed" \notin Active
          /\ "completed" \in Terminal
      BY DEF Open, Active, Slot, Waiting, Terminal
    <3>2. Quietly
      BY <1>0, <2>2, <3>1, PutWith
    <3> QED BY <3>2 DEF Kinds
  <2> QED BY <1>4, <2>1, <2>2 DEF Complete
<1>5. CASE Fail(i, c)
  BY <1>5, FailTaskKind, Constants DEF Fail
<1>6. CASE Interrupt(i, c) \/ LoseReport(i, c)
  BY <1>0, <1>6 DEF Interrupt, LoseReport
<1> QED BY <1>1, <1>2, <1>3, <1>4, <1>5, <1>6 DEF Handle

\* The steps of the sweeps and of what follows them.
LEMMA SettleKind ==
  ASSUME IInv, NEW i \in Rows, Settle(i)
  PROVE  Kinds
<1>0. TypeOK /\ (UNCHANGED task => Kinds)
  BY SameIsQuiet DEF IInv, Kinds
<1>1. ASSUME NEW reason \in {"transient", "offline", "fatal"}, task[i].status \in Open,
             Sweep(i, reason)
      PROVE  Kinds
  <2>1. Moves(task[i], Failed(i, reason)) /\ Failed(i, reason) \in RowType
    BY <1>0, <1>1, FailedMoves
  <2>2. Quietly
    BY <1>0, <1>1, <2>1, PutQuietly DEF Sweep
  <2> QED BY <2>2 DEF Kinds
<1>2. CASE FailStale(i)
  BY <1>1, <1>2 DEF FailStale, Open, Active
<1>3. CASE FailOffline(i)
  BY <1>1, <1>3 DEF FailOffline, Open
<1>4. CASE ExpireQueued(i) \/ FailReconnectTimeout(i)
  BY <1>1, <1>4 DEF ExpireQueued, FailReconnectTimeout, Open
<1>5. CASE HandleFailed(i)
  <2>1. task \in [Rows -> RowType] /\ Quiet(task)
    BY <1>0, SameIsQuiet DEF TypeOK
  <2>2. CASE UNCHANGED task
    BY <1>0, <2>2
  <2>3. ASSUME NEW x \in failed, x.id = i, failed' = failed \ {x}, Retry(task, i, x.row)
        PROVE  Kinds
    <3>1. x.row \in RowType /\ x.row.agent \in Agents /\ x.row.subject \in Subjects
      BY DEF IInv, TypeOK, Referred
    <3>2. Retryable(x.row) => Owed(i)
      BY <2>3 DEF Owed
    <3> QED BY <2>1, <2>3, <3>1, <3>2, RetryKind
  <2> QED BY <1>5, <2>2, <2>3 DEF HandleFailed
<1>6. CASE CancelEscalations(i)
  BY <1>0, <1>6, WithdrawnKind DEF CancelEscalations
<1>7. CASE FireAtPasses(i)
  <2> DEFINE x == [task[i] EXCEPT !.due = TRUE]
  <2>1. task[i] \in RowType /\ task[i].status = "deferred"
    BY <1>0, <1>7 DEF TypeOK, FireAtPasses
  <2>2. /\ x \in RowType /\ x.status = "deferred" /\ x.agent = task[i].agent
        /\ x.subject = task[i].subject /\ x.attempt = task[i].attempt /\ x.max = task[i].max
        /\ x.claims = task[i].claims /\ x.kind = task[i].kind
        /\ x.parent = task[i].parent /\ x.began = task[i].began
    BY <2>1, DueRow
  <2>3. Put(i, x)
    BY <1>7 DEF FireAtPasses
  <2> HIDE DEF x
  <2>4. Moves(task[i], x)
    <3>1. task[i].claims \in Nat
      BY <2>1 DEF RowType
    <3> QED BY <2>1, <2>2, <3>1 DEF Moves, Open, Active, Slot, Waiting
  <2>5. Quietly
    BY <1>0, <2>2, <2>3, <2>4, PutQuietly
  <2> QED BY <2>5 DEF Kinds
<1> QED BY <1>2, <1>3, <1>4, <1>5, <1>6, <1>7 DEF Settle

\* What users do.
LEMMA AskKind ==
  ASSUME IInv, Ask
  PROVE  Kinds
<1>0. TypeOK
  BY DEF IInv
<1>1. ASSUME NEW a \in Agents, NEW s \in Issues, RerunBegin(a, s)
      PROVE  Kinds
  BY <1>0, <1>1, ClearedKind DEF RerunBegin
<1>2. ASSUME NEW i \in Rows, Cancel(i)
      PROVE  Kinds
  <2>1. "cancelled" \notin Slot /\ "cancelled" \notin Active /\ "cancelled" \in Terminal
    BY DEF Slot, Active, Waiting, Terminal
  <2>2. Quietly
    BY <1>0, <1>2, <2>1, PutWith DEF Cancel
  <2> QED BY <2>2 DEF Kinds
<1> QED BY <1>1, <1>2, EnqueueKind, FallbackKind DEF Ask

\* Every step is of one of the five kinds.
LEMMA StepKinds ==
  ASSUME IInv, [Next]_vars
  PROVE  Kinds
<1>0. TypeOK /\ (UNCHANGED task => Kinds)
  BY SameIsQuiet DEF IInv, Kinds
<1>1. CASE RerunEnqueue
  <2>1. PICK i \in Rows :
          /\ Fresh(i)
          /\ Put(i, NewTask("queued", rerun.agent, rerun.issue, "rerun", 0, 1, MaxAttempts))
    BY <1>1 DEF RerunEnqueue
  <2>2. /\ task[i].status = "none" /\ ~SlotTaken(task, rerun.agent, rerun.issue)
        /\ rerun.agent \in Agents /\ rerun.issue \in Subjects
    BY <1>1, <2>1 DEF IInv, Referred, RerunEnqueue, Fresh, Subjects
  <2>3. 0 \in 0 .. MaxRows /\ 1 \in Nat /\ MaxAttempts \in Nat /\ 1 <= MaxAttempts
    BY Constants
  <2>4. task' = [task EXCEPT ![i] =
                   NewTask("queued", rerun.agent, rerun.issue, "rerun", 0, 1, MaxAttempts)]
    BY <2>1 DEF Put
  <2>5. task \in [Rows -> RowType] /\ Quiet(task)
    BY <1>0, SameIsQuiet DEF TypeOK
  <2> QED BY <1>0, <2>2, <2>3, <2>4, <2>5, AddRow DEF Kinds
<1>2. CASE RerunCollides
  BY <1>0, <1>2, ClearedKind DEF RerunCollides
<1>3. CASE RecoverOrphans
  <2>1. CASE UNCHANGED task
    BY <1>0, <2>1
  <2>2. CASE task' = [i \in Rows |-> IF i \in Orphans THEN Failed(i, "transient") ELSE task[i]]
    <3>1. Orphans \in SUBSET Rows /\ \A i \in Orphans : task[i].status \in Open
      BY DEF Orphans, Open
    <3>2. task' = [i \in Rows |-> IF i \notin Orphans THEN task[i]
                     ELSE IF "failed" = "failed" THEN Failed(i, "transient")
                     ELSE With(i, "failed")]
      BY <2>2
    <3>3. Quietly
      BY <1>0, <3>1, <3>2, BulkWith
    <3> QED BY <3>3 DEF Kinds
  <2> QED BY <1>3, <2>1, <2>2 DEF RecoverOrphans
<1>4. CASE Restart \/ HeartbeatStops \/ GraceEnds \/ HeartbeatReturns \/ ServerCrash
  BY <1>0, <1>4 DEF Restart, HeartbeatStops, GraceEnds, HeartbeatReturns, ServerCrash
<1>5. CASE UNCHANGED vars
  BY <1>0, <1>5 DEF vars
<1> QED
  BY <1>1, <1>2, <1>3, <1>4, <1>5, AskKind, AnswerKind, SettleKind, DeliveryKind DEF Next

-----------------------------------------------------------------------------
(* The invariant.                                                             *)

\* The rows of a promotion's snapshot, written back.
LEMMA PromotedRow ==
  ASSUME IInv, NEW h \in Handlers, NEW i \in Rows
  PROVE  LET y == Promoted(poll[h].due)[i] IN
         /\ y \in RowType /\ y.attempt = task[i].attempt /\ y.max = task[i].max
         /\ y.claims = task[i].claims /\ y.kind = task[i].kind
         /\ y.parent = task[i].parent /\ y.began = task[i].began
         /\ y.agent = task[i].agent /\ y.subject = task[i].subject
         /\ (i \notin poll[h].due => y = task[i])
         /\ (i \in poll[h].due => y.status = "queued" /\ task[i].status # "none")
<1>1. TypeOK /\ "queued" \in Open
  BY DEF IInv, Open
<1>2. With(i, "queued") \in RowType /\ With(i, "queued").status = "queued"
      /\ With(i, "queued").agent = task[i].agent /\ With(i, "queued").subject = task[i].subject
      /\ With(i, "queued").attempt = task[i].attempt /\ With(i, "queued").max = task[i].max
      /\ With(i, "queued").claims = task[i].claims /\ With(i, "queued").kind = task[i].kind
      /\ With(i, "queued").parent = task[i].parent /\ With(i, "queued").began = task[i].began
  BY <1>1, WithRow
<1>3. task[i] \in RowType
  BY <1>1 DEF TypeOK
<1>4. i \in poll[h].due => task[i].status # "none"
  BY DEF IInv, Referred
<1> QED BY <1>2, <1>3, <1>4 DEF Promoted

\* A rolled back row.
LEMMA RolledRow ==
  ASSUME IInv, NEW h \in Handlers, Rolls(h)
  PROVE  /\ poll[h].id \in Rows /\ task[poll[h].id].status = "dispatched"
         /\ task' \in [Rows -> RowType]
         /\ task'[poll[h].id].status = "queued"
         /\ task'[poll[h].id].agent = task[poll[h].id].agent
         /\ task'[poll[h].id].subject = task[poll[h].id].subject
         /\ task'[poll[h].id].attempt = task[poll[h].id].attempt
         /\ task'[poll[h].id].max = task[poll[h].id].max
         /\ task'[poll[h].id].claims = task[poll[h].id].claims
         /\ task'[poll[h].id].kind = task[poll[h].id].kind
         /\ task'[poll[h].id].parent = task[poll[h].id].parent
         /\ ~task'[poll[h].id].began /\ ~task[poll[h].id].began
         /\ \A k \in Rows \ {poll[h].id} : task'[k] = task[k]
<1> DEFINE i == poll[h].id
           x == With(i, "queued")
<1>1. i \in Rows /\ task[i].status = "dispatched" /\ TypeOK /\ task \in [Rows -> RowType]
  BY DEF IInv, Referred, TypeOK, Rolls, HoldsClaim
<1>0. ~task[i].began
  BY DEF Rolls, HoldsClaim
<1>2. "queued" \in Open
  BY DEF Open
<1>3. task' = [task EXCEPT ![i] = x]
  BY DEF Rolls, Put
<1> HIDE DEF i
<1>4. /\ x \in RowType /\ x.status = "queued" /\ x.agent = task[i].agent
      /\ x.subject = task[i].subject /\ x.attempt = task[i].attempt
      /\ x.max = task[i].max /\ x.claims = task[i].claims /\ x.kind = task[i].kind
      /\ x.parent = task[i].parent /\ ~x.began
  BY <1>0, <1>1, <1>2, WithRow
<1> HIDE DEF x
<1>5. task'[i] = x /\ task' \in [Rows -> RowType] /\ \A k \in Rows \ {i} : task'[k] = task[k]
  BY <1>1, <1>3, <1>4
<1> QED BY <1>0, <1>1, <1>4, <1>5 DEF i

\* What every step does to each row: existing rows keep their agent, subject and
\* attempt; a row appears complete.
LEMMA RowsLast ==
  ASSUME IInv, Kinds
  PROVE  /\ task' \in [Rows -> RowType]
         /\ \A i \in Rows :
              /\ task[i].status # "none" =>
                   /\ task'[i].status # "none" /\ task'[i].agent = task[i].agent
                   /\ task'[i].subject = task[i].subject
                   /\ task'[i].kind = task[i].kind /\ task'[i].parent = task[i].parent
                   /\ task[i].began => task'[i].began
              /\ task'[i].attempt <= task'[i].max
              /\ task[i].claims <= task'[i].claims
              /\ task'[i] = task[i] \/ task'[i].status # "none"
              /\ task[i].status = "none" /\ task'[i].status # "none" =>
                   /\ task'[i].agent \in Agents /\ task'[i].subject \in Subjects
                   /\ task'[i].status \in {"queued", "deferred"}
<1>0. TypeOK /\ task \in [Rows -> RowType] /\ \A i \in Rows : task[i].attempt <= task[i].max
  BY DEF IInv, TypeOK
<1>5. \A x \in RowType : x.claims \in Nat
  BY DEF RowType
<1>1. CASE Quietly
  BY <1>0, <1>1, <1>5 DEF Quietly, Quiet, Moves, Open, Active, Waiting
<1>2. CASE \E t, j, y : Adds(t, j, y)
  <2>1. PICK t, j, y : Adds(t, j, y)
    BY <1>2
  <2>2. /\ t \in [Rows -> RowType] /\ j \in Rows /\ y \in RowType /\ task' = [t EXCEPT ![j] = y]
        /\ task[j].status = "none" /\ y.status \in {"queued", "deferred"}
        /\ y.agent \in Agents /\ y.subject \in Subjects /\ y.attempt <= y.max
    BY <2>1 DEF Adds
  <2>3. \A i \in Rows : t[i] = task[i] \/ Moves(task[i], t[i])
    BY <2>1 DEF Adds, Quiet
  <2>4. task'[j] = y /\ \A i \in Rows \ {j} : task'[i] = t[i]
    BY <2>2
  <2>5. task[j].claims = 0
    BY <2>2 DEF IInv, Existing, NoTask
  <2> QED BY <1>0, <1>5, <2>2, <2>3, <2>4, <2>5 DEF Moves, Open, Active, Waiting
<1>3. CASE \E i \in Rows : Takes(i)
  <2>1. PICK i \in Rows : Takes(i)
    BY <1>3
  <2>2. task[i].status = "queued" /\ task[i].claims < MaxClaims
    BY <2>1 DEF Takes, Claimable
  <2>3. /\ task'[i] = Dispatched(i) /\ \A k \in Rows \ {i} : task'[k] = task[k]
        /\ task' \in [Rows -> RowType]
    BY <1>0, <2>1, <2>2, DispatchedRow DEF Takes
  <2> QED BY <1>0, <1>5, <2>2, <2>3, DispatchedRow
<1>4. CASE \E h \in Handlers : Promotes(h)
  <2>1. PICK h \in Handlers : Promotes(h)
    BY <1>4
  <2>2. task' = Promoted(poll[h].due)
    BY <2>1 DEF Promotes
  <2>3. task' \in [Rows -> RowType]
    BY <2>2, PromotedRow DEF Promoted
  <2> QED BY <1>0, <1>5, <2>2, <2>3, PromotedRow
<1>6. CASE \E h \in Handlers : Rolls(h)
  <2>1. PICK h \in Handlers : Rolls(h)
    BY <1>6
  <2> QED BY <1>0, <1>5, <2>1, RolledRow
<1> QED BY <1>1, <1>2, <1>3, <1>4, <1>6 DEF Kinds

\* The unique index holds after every step: what moves on leaves its slot, a new
\* queued row found none taken, and a promotion that would break it is undone.
LEMMA SlotsUnique ==
  ASSUME IInv, Kinds
  PROVE  Unique(task)'
<1>0. TypeOK /\ Unique(task)
  BY DEF IInv
<1>1. ASSUME NEW t, Quiet(t)
      PROVE  Unique(t)
  BY <1>0, <1>1 DEF Unique, Quiet, Moves, SamePair
<1>2. CASE Quietly
  BY <1>1, <1>2 DEF Quietly, Unique
<1>3. CASE \E t, j, y : Adds(t, j, y)
  <2>1. PICK t, j, y : Adds(t, j, y)
    BY <1>3
  <2>2. Unique(t)
    BY <1>1, <2>1 DEF Adds
  <2>3. task'[j] = y /\ \A i \in Rows \ {j} : task'[i] = t[i]
    BY <2>1 DEF Adds
  <2>4. y.status \in Slot /\ y.subject \in Issues =>
          \A i \in Rows : ~(t[i].status \in Slot /\ SamePair(t[i], y))
    BY <2>1 DEF Adds, SlotTaken, SamePair, Slot
  <2>5. ASSUME NEW i \in Rows, NEW k \in Rows,
               task'[i].subject \in Issues, SamePair(task'[i], task'[k]),
               task'[i].status \in Slot, task'[k].status \in Slot
        PROVE  i = k
    BY <2>2, <2>3, <2>4, <2>5 DEF Unique, SamePair
  <2> QED BY <2>5 DEF Unique
<1>4. CASE \E i \in Rows : Takes(i)
  <2>1. PICK i \in Rows : Takes(i)
    BY <1>4
  <2>2. task[i].status = "queued" /\ task[i].claims < MaxClaims
    BY <2>1 DEF Takes, Claimable
  <2>3. /\ task'[i].agent = task[i].agent /\ task'[i].subject = task[i].subject
        /\ \A k \in Rows \ {i} : task'[k] = task[k]
    BY <1>0, <2>1, <2>2, DispatchedRow DEF Takes, TypeOK
  <2>4. task[i].status \in Slot
    BY <2>2 DEF Slot
  <2> QED BY <1>0, <2>3, <2>4 DEF Unique, SamePair
<1>5. CASE \E h \in Handlers : Promotes(h)
  BY <1>5 DEF Promotes, Unique
<1>6. CASE \E h \in Handlers : Rolls(h)
  <2>1. PICK h \in Handlers : Rolls(h)
    BY <1>6
  <2> QED BY <1>0, <2>1, RolledRow DEF Unique, SamePair, Slot
<1> QED BY <1>2, <1>3, <1>4, <1>5, <1>6 DEF Kinds

\* A claim request names existing rows only, whatever step it takes.
PollNext(k) ==
    /\ poll'[k] \in PollType
    /\ poll'[k].due \subseteq poll[k].due \cup Due
    /\ poll'[k].due # {} => poll'[k].pc = "promote"
    /\ poll'[k].pc = "respond" => poll'[k].id \in Rows /\ poll'[k].claim \in Claims
    /\ poll[k].pc = "select" /\ poll'[k].pc = "promote" => poll'[k].due \in {{}, Due}
PollsNext == poll' = [k \in Handlers |-> poll'[k]] /\ \A k \in Handlers : PollNext(k)

\* A request that does not move is still well formed,
LEMMA PollKept ==
  ASSUME IInv, NEW k \in Handlers, poll'[k] = poll[k]
  PROVE  PollNext(k)
BY DEF IInv, TypeOK, Referred, PollNext

\* so is one that has been answered.
LEMMA PollEnded ==
  ASSUME NEW k \in Handlers, poll'[k] = NoPoll
  PROVE  PollNext(k)
<1>1. 0 \in 0 .. MaxRows /\ 0 \in 0 .. MaxClaims
  BY Constants
<1> QED BY <1>1 DEF NoPoll, PollType, PollNext

\* A request goes on, perhaps to another set of rows.
LEMMA PollGoesOn ==
  ASSUME IInv, NEW h \in Handlers, NEW pc \in {"select", "promote", "claim"},
         NEW D \in SUBSET Rows, D \in {{}, Due}, D # {} => pc = "promote",
         poll' = [poll EXCEPT ![h].pc = pc, ![h].due = D]
  PROVE  PollsNext
<1>1. poll \in [Handlers -> PollType]
  BY DEF IInv, TypeOK
<1>2. ASSUME NEW k \in Handlers, k # h
      PROVE  PollNext(k)
  BY <1>1, <1>2, PollKept
<1>3. PollNext(h)
  BY <1>1 DEF PollNext, PollType
<1> QED BY <1>1, <1>2, <1>3 DEF PollsNext

\* A handler takes charge of a claimed row.
LEMMA PollHolds ==
  ASSUME IInv, NEW h \in Handlers, NEW i \in Rows, poll[h].pc = "claim", Hold(h, i)
  PROVE  PollsNext
<1>1. poll \in [Handlers -> PollType] /\ task[i] \in RowType
  BY DEF IInv, TypeOK
<1>2. ASSUME NEW k \in Handlers, k # h
      PROVE  PollNext(k)
  BY <1>1, <1>2, PollKept DEF Hold
<1>3. /\ i \in 0 .. MaxRows /\ task[i].claims + 1 \in 0 .. MaxClaims
      /\ task[i].claims + 1 \in Claims
  BY <1>1, Constants DEF Hold, RowType, Rows, Claims
<1>4. PollNext(h)
  <2>1. poll[h].due = {}
    BY DEF IInv, Referred
  <2> QED BY <1>1, <1>3, <2>1 DEF Hold, PollNext, PollType
<1> QED BY <1>1, <1>2, <1>4 DEF Hold, PollsNext

\* A handler answers its request.
LEMMA PollAnswered ==
  ASSUME IInv, NEW h \in Handlers, Answered(h)
  PROVE  PollsNext
<1>1. poll \in [Handlers -> PollType]
  BY DEF IInv, TypeOK
<1>2. ASSUME NEW k \in Handlers, k # h
      PROVE  PollNext(k)
  BY <1>1, <1>2, PollKept DEF Answered
<1>3. PollNext(h)
  BY <1>1, PollEnded DEF Answered
<1> QED BY <1>1, <1>2, <1>3 DEF Answered, PollsNext

\* What each step of a claim request leaves behind.
LEMMA AnswerPolls ==
  ASSUME IInv, NEW h \in Handlers, Answer(h)
  PROVE  PollsNext
<1>0. poll \in [Handlers -> PollType] /\ poll[h].due \in SUBSET Rows
  BY DEF IInv, TypeOK, PollType
<1>1. CASE CancelSuperseded(h)
  <2>1. poll' = [poll EXCEPT ![h].pc = "select"]
    BY <1>1 DEF CancelSuperseded, GoOn
  <2>2. PollNext(h)
    <3>1. poll[h].due = {}
      BY <1>1 DEF IInv, Referred, CancelSuperseded
    <3> QED BY <1>0, <2>1, <3>1 DEF PollType, PollNext
  <2>3. ASSUME NEW k \in Handlers, k # h
        PROVE  PollNext(k)
    BY <1>0, <2>1, <2>3, PollKept
  <2> QED BY <1>0, <2>1, <2>2, <2>3 DEF PollsNext
<1>2. CASE PromoteSelect(h)
  <2> DEFINE D == IF health = "fresh" THEN Due ELSE {}
  <2>1. D \in SUBSET Rows /\ D \in {{}, Due}
    BY DEF Due
  <2>2. poll' = [poll EXCEPT ![h].pc = "promote", ![h].due = D]
    BY <1>2 DEF PromoteSelect
  <2> HIDE DEF D
  <2> QED BY <2>1, <2>2, PollGoesOn
<1>3. CASE PromoteWrite(h)
  <2>1. poll' = [poll EXCEPT ![h].pc = "claim", ![h].due = {}]
    BY <1>3 DEF PromoteWrite
  <2>2. {} \in SUBSET Rows /\ {} \in {{}, Due}
    OBVIOUS
  <2> QED BY <2>1, <2>2, PollGoesOn
<1>4. CASE \/ NothingToClaim(h) \/ PollError(h) \/ Deliver(h) \/ LoseResponse(h)
           \/ Requeue(h) \/ Reject(h)
  BY <1>4, PollAnswered DEF NothingToClaim, PollError, Deliver, LoseResponse, Requeue, Reject
<1>5. ASSUME NEW i \in Rows, Reclaim(h, i) \/ Claim(h, i)
      PROVE  PollsNext
  BY <1>5, PollHolds DEF Reclaim, Claim
<1> QED BY <1>1, <1>2, <1>3, <1>4, <1>5 DEF Answer

\* Requests stay well formed in every step.
LEMMA StepPolls ==
  ASSUME IInv, [Next]_vars
  PROVE  PollsNext
<1>1. ASSUME UNCHANGED poll
      PROVE  PollsNext
  BY <1>1, PollKept DEF PollsNext, IInv, TypeOK
<1>2. CASE Restart
  <2>1. poll' = [h \in Handlers |-> [poll[h] EXCEPT !.heard = (poll[h].pc = "idle")]]
    BY <1>2 DEF Restart
  <2>2. ASSUME NEW k \in Handlers
        PROVE  PollNext(k)
    BY <2>1 DEF IInv, TypeOK, Referred, PollType, PollNext
  <2> QED BY <2>1, <2>2 DEF PollsNext
<1>3. CASE ServerCrash
  BY <1>3, PollEnded DEF ServerCrash, PollsNext
<1>4. CASE UNCHANGED vars
  BY <1>1, <1>4 DEF vars
<1>5. CASE Ask
  BY <1>1, <1>5 DEF Ask, Enqueue, EnqueueFallback, RerunBegin, Cancel
<1>6. ASSUME NEW i \in Rows, Settle(i)
      PROVE  PollsNext
  BY <1>1, <1>6 DEF Settle, FailStale, FailOffline, ExpireQueued, FailReconnectTimeout, Sweep,
                    HandleFailed, CancelEscalations, FireAtPasses
<1>7. ASSUME NEW i \in Rows, NEW c \in Claims,
             MarkWaiting(i, c) \/ Comment(i, c) \/ Handle(i, c)
      PROVE  PollsNext
  BY <1>1, <1>7 DEF MarkWaiting, Comment, Handle, Start, Complete, Fail, Interrupt, LoseReport
<1>8. CASE \/ RerunEnqueue \/ RerunCollides \/ RecoverOrphans
           \/ HeartbeatStops \/ GraceEnds \/ HeartbeatReturns
  BY <1>1, <1>8 DEF RerunEnqueue, RerunCollides, RecoverOrphans, HeartbeatStops, GraceEnds,
                    HeartbeatReturns
<1> QED BY <1>2, <1>3, <1>4, <1>5, <1>6, <1>7, <1>8, AnswerPolls DEF Next

\* Swept rows, as sweeps return them.
Slice(f) ==
    /\ f \subseteq [id : Rows, row : RowType]
    /\ \A x \in f : x.row.agent \in Agents /\ x.row.subject \in Subjects

\* A sweep adds the row it failed.
LEMMA SliceGrows ==
  ASSUME IInv, NEW i \in Rows, task[i].status \in Open,
         NEW reason \in {"fatal", "transient", "network", "offline"}
  PROVE  /\ Swept(i, reason) \in [id : Rows, row : RowType]
         /\ Swept(i, reason).row = Failed(i, reason)
         /\ Failed(i, reason).agent \in Agents /\ Failed(i, reason).subject \in Subjects
<1>1. Failed(i, reason) \in RowType
      /\ Failed(i, reason).agent \in Agents /\ Failed(i, reason).subject \in Subjects
  BY FailedRow DEF IInv, Existing, Open, Active, Waiting
<1> QED BY <1>1 DEF Swept

\* The other variables keep their types.
LEMMA StepTypes ==
  ASSUME IInv, [Next]_vars
  PROVE  /\ copy' \in [Rows -> [Claims -> {"none", "preparing", "running", "refused", "gone"}]]
         /\ health' \in {"fresh", "away", "lost"}
         /\ recovering' \in BOOLEAN
         /\ Slice(failed') /\ started' \subseteq Rows
         /\ rerun' \in RerunType
         /\ rerun'.pc = "enqueue" => rerun'.agent \in Agents /\ rerun'.issue \in Issues
         /\ mishaps' \in 0 .. MaxMishaps
<1> DEFINE Copies == [Rows -> [Claims -> {"none", "preparing", "running", "refused", "gone"}]]
           Rest == /\ health' \in {"fresh", "away", "lost"} /\ recovering' \in BOOLEAN
                   /\ Slice(failed') /\ started' \subseteq Rows
           Reruns == /\ rerun' \in RerunType
                     /\ rerun'.pc = "enqueue" => rerun'.agent \in Agents /\ rerun'.issue \in Issues
           Count == mishaps' \in 0 .. MaxMishaps
<1>0. /\ copy \in Copies /\ health \in {"fresh", "away", "lost"} /\ recovering \in BOOLEAN
      /\ Slice(failed) /\ started \subseteq Rows
      /\ rerun \in RerunType /\ mishaps \in 0 .. MaxMishaps
      /\ rerun.pc = "enqueue" => rerun.agent \in Agents /\ rerun.issue \in Issues
  BY DEF IInv, TypeOK, Referred, Slice
<1>1. \A kind : Mishap(kind) => Count
  BY <1>0, Constants DEF Mishap
<1>2. UNCHANGED mishaps => Count
  BY <1>0
<1>3. NoRerun \in RerunType /\ NoRerun.pc # "enqueue"
  BY DEF NoRerun, RerunType
<1>4. /\ UNCHANGED rerun => Reruns
      /\ rerun' = NoRerun => Reruns
  BY <1>0, <1>3
<1>5. UNCHANGED copy => copy' \in Copies
  BY <1>0
<1>6. ASSUME NEW i \in Rows, NEW c \in Claims,
             NEW st \in {"none", "preparing", "running", "refused", "gone"},
             copy' = [copy EXCEPT ![i][c] = st]
      PROVE  copy' \in Copies
  BY <1>0, <1>6
<1> SUFFICES copy' \in Copies /\ Rest /\ Reruns /\ Count
  OBVIOUS
<1> HIDE DEF Copies, Count, Reruns
<1>7. ASSUME NEW h \in Handlers, Answer(h)
      PROVE  copy' \in Copies /\ Rest /\ Reruns /\ Count
  <2>1. Rest /\ Reruns
    BY <1>0, <1>4, <1>7 DEF Answer, CancelSuperseded, PromoteSelect, PromoteWrite, NothingToClaim,
       PollError, Deliver, LoseResponse, Requeue, Reject, Reclaim, Claim
  <2>2. Count
    BY <1>1, <1>2, <1>7 DEF Answer, CancelSuperseded, PromoteSelect, PromoteWrite, NothingToClaim,
       PollError, Deliver, LoseResponse, Requeue, Reject, Reclaim, Claim
  <2>3. CASE Deliver(h)
    <3>1. poll[h].id \in Rows /\ poll[h].claim \in Claims
      BY <2>3 DEF IInv, Referred, Deliver
    <3>2. copy' = [copy EXCEPT ![poll[h].id][poll[h].claim] = "preparing"]
      BY <2>3 DEF Deliver
    <3> QED BY <1>6, <2>1, <2>2, <3>1, <3>2
  <2>4. CASE ~Deliver(h)
    BY <1>5, <1>7, <2>1, <2>2, <2>4 DEF Answer, CancelSuperseded, PromoteSelect, PromoteWrite, NothingToClaim,
       PollError, LoseResponse, Requeue, Reject, Reclaim, Claim
  <2> QED BY <2>3, <2>4
<1>8. ASSUME NEW i \in Rows, Settle(i)
      PROVE  copy' \in Copies /\ Rest /\ Reruns /\ Count
  <2>1. CASE HandleFailed(i) \/ CancelEscalations(i) \/ FireAtPasses(i)
    <3>1. Slice(failed')
      BY <1>0, <2>1 DEF Slice, HandleFailed, CancelEscalations, FireAtPasses
    <3> QED BY <1>0, <1>1, <1>2, <1>4, <1>5, <2>1, <3>1
            DEF HandleFailed, CancelEscalations, FireAtPasses
  <2>2. ASSUME NEW reason \in {"fatal", "transient", "network", "offline"},
               task[i].status \in Open, Sweep(i, reason)
        PROVE  copy' \in Copies /\ Rest /\ Reruns /\ Count
    <3>1. failed' = failed \cup {Swept(i, reason)}
      BY <2>2 DEF Sweep
    <3>2. Slice(failed')
      BY <1>0, <2>2, <3>1, SliceGrows DEF Slice
    <3> QED BY <1>0, <1>2, <1>4, <1>5, <2>2, <3>2 DEF Sweep
  <2> QED BY <1>8, <2>1, <2>2
          DEF Settle, FailStale, FailOffline, ExpireQueued, FailReconnectTimeout, Open, Active
<1>9. ASSUME NEW i \in Rows, NEW c \in Claims,
             MarkWaiting(i, c) \/ Comment(i, c) \/ Handle(i, c)
      PROVE  copy' \in Copies /\ Rest /\ Reruns /\ Count
  BY <1>0, <1>1, <1>2, <1>4, <1>5, <1>6, <1>9 DEF MarkWaiting, Comment, Handle, Start, Complete,
     Fail, Interrupt, LoseReport, Becomes
<1>10. CASE Ask
  <2>1. ASSUME NEW a \in Agents, NEW s \in Issues, RerunBegin(a, s)
        PROVE  Reruns
    BY <2>1 DEF RerunBegin, Reruns, RerunType
  <2> QED BY <1>0, <1>2, <1>4, <1>5, <1>10, <2>1 DEF Ask, Enqueue, EnqueueFallback, RerunBegin, Cancel
<1>11. CASE RerunEnqueue \/ RerunCollides
  <2>1. CASE rerun' = [rerun EXCEPT !.tries = 2]
    <3>1. Reruns
      BY <1>0, <2>1 DEF Reruns, RerunType
    <3> QED BY <1>0, <1>2, <1>5, <1>11, <3>1 DEF RerunEnqueue, RerunCollides
  <2>2. CASE rerun' = NoRerun
    BY <1>0, <1>2, <1>4, <1>5, <1>11, <2>2 DEF RerunEnqueue, RerunCollides
  <2> QED BY <1>11, <2>1, <2>2 DEF RerunEnqueue, RerunCollides
<1>12. CASE Restart
  <2>1. copy' \in Copies
    BY <1>0, <1>12 DEF Restart, Copies
  <2> QED BY <1>0, <1>1, <1>4, <1>12, <2>1 DEF Restart
<1>13. CASE RecoverOrphans
  <2>1. Slice(failed')
    <3>1. CASE failed' = failed \cup {Swept(i, "transient") : i \in Orphans}
      <4>1. \A i \in Orphans : i \in Rows /\ task[i].status \in Open
        BY DEF Orphans, Open
      <4> QED BY <1>0, <3>1, <4>1, SliceGrows DEF Slice
    <3> QED BY <1>0, <1>13, <3>1 DEF RecoverOrphans
  <2> QED BY <1>0, <1>1, <1>2, <1>4, <1>5, <1>13, <2>1 DEF RecoverOrphans
<1>14. CASE HeartbeatStops \/ GraceEnds \/ HeartbeatReturns \/ ServerCrash
  <2>1. Slice({})
    BY DEF Slice
  <2> QED BY <1>0, <1>1, <1>2, <1>4, <1>5, <1>14, <2>1
          DEF HeartbeatStops, GraceEnds, HeartbeatReturns, ServerCrash
<1>15. CASE UNCHANGED vars
  BY <1>0, <1>2, <1>4, <1>5, <1>15 DEF vars
<1>16. copy' \in Copies /\ Rest /\ Reruns /\ Count
  BY <1>7, <1>8, <1>9, <1>10, <1>11, <1>12, <1>13, <1>14, <1>15 DEF Next
<1> QED BY <1>16 DEF Copies, Reruns, Count

\* IInv survives every statement of server, daemon, sweeps and users.
THEOREM Inductive ==
  ASSUME IInv, [Next]_vars
  PROVE  IInv'
<1>1. Kinds
  BY StepKinds
<1>2. TypeOK'
  <2>1. poll' \in [Handlers -> PollType]
    BY StepPolls DEF PollsNext, PollNext
  <2>2. task' \in [Rows -> RowType] /\ \A i \in Rows : task'[i].attempt <= task'[i].max
    BY <1>1, RowsLast
  <2> QED BY <2>1, <2>2, StepTypes DEF TypeOK, Slice
<1>3. Existing'
  BY <1>1, RowsLast DEF IInv, Existing
<1>4. Referred'
  <2>1. ASSUME NEW h \in Handlers, NEW i \in poll'[h].due
        PROVE  task'[i].status # "none"
    <3>1. i \in poll[h].due \/ i \in Due
      BY StepPolls DEF PollsNext, PollNext
    <3>2. i \in Rows
      BY <3>1 DEF IInv, TypeOK, PollType, Due
    <3>3. task[i].status # "none"
      BY <3>1 DEF IInv, Referred, Due, Promotable
    <3> QED BY <1>1, <3>2, <3>3, RowsLast
  <2>2. ASSUME NEW h \in Handlers
        PROVE  /\ poll'[h].pc = "respond" => poll'[h].id \in Rows /\ poll'[h].claim \in Claims
               /\ poll'[h].due # {} => poll'[h].pc = "promote"
    BY StepPolls DEF PollsNext, PollNext
  <2> QED BY <2>1, <2>2, StepTypes DEF Referred, Slice
<1>5. Unique(task)'
  BY <1>1, SlotsUnique
<1> QED BY <1>2, <1>3, <1>4, <1>5 DEF IInv

\* The empty table satisfies it.
THEOREM InitHolds == Init => IInv
<1> SUFFICES ASSUME Init PROVE IInv
  OBVIOUS
<1>1. 0 \in 0 .. MaxRows /\ 0 \in 0 .. MaxClaims /\ 0 \in 0 .. MaxMishaps /\ 0 <= 0
  BY Constants
<1>2. NoTask \in RowType /\ NoTask.attempt <= NoTask.max /\ NoTask.status = "none"
  BY <1>1 DEF NoTask, RowType
<1>3. NoPoll \in PollType /\ NoPoll.due = {} /\ NoPoll.pc # "respond"
  BY <1>1 DEF NoPoll, PollType
<1>4. NoRerun \in RerunType /\ NoRerun.pc # "enqueue"
  BY DEF NoRerun, RerunType
<1>5. TypeOK
  BY <1>1, <1>2, <1>3, <1>4 DEF Init, TypeOK
<1>6. Existing /\ Unique(task)
  BY <1>2 DEF Init, Existing, Unique, Slot
<1>7. Referred
  BY <1>3, <1>4 DEF Init, Referred
<1> QED BY <1>5, <1>6, <1>7 DEF IInv

\* Hence it holds for ever: the rows that handlers, promotions and the rerun name
\* exist, and the unique index is never violated.
THEOREM Invariance == Spec => []IInv
<1>1. IInv /\ [Next]_vars => IInv'
  BY Inductive
<1> QED BY <1>1, InitHolds, PTL DEF Spec

\* Types, and no task's attempt above its max_attempts, however its failures
\* were reported, swept, recovered and retried.
THEOREM TypeCorrect == Spec => []TypeOK
<1>1. IInv => TypeOK
  BY DEF IInv
<1> QED BY <1>1, Invariance, PTL

\* An agent has one queued or dispatched task per issue, whoever enqueues,
\* requeues, retries, reruns, reclaims or promotes.
THEOREM PendingUnique == Spec => []Unique(task)
<1>1. IInv => Unique(task)
  BY DEF IInv
<1> QED BY <1>1, Invariance, PTL

-----------------------------------------------------------------------------
(* The fences of a promotion.                                                 *)

\* The rows a snapshot selects can all be queued together.
LEMMA DueFits == ASSUME IInv PROVE Unique(Promoted(Due)) /\ Unique(Promoted({}))
<1>0. TypeOK /\ Unique(task) /\ "queued" \in Open /\ "queued" \in Slot
  BY DEF IInv, Open, Slot
<1>1. \A i \in Rows : /\ With(i, "queued").agent = task[i].agent
                      /\ With(i, "queued").subject = task[i].subject
  BY <1>0, WithRow
<1>2. Promoted({}) = task
  BY <1>0 DEF Promoted, TypeOK
<1>3. ASSUME NEW i \in Rows, NEW k \in Rows,
             Promoted(Due)[i].subject \in Issues, SamePair(Promoted(Due)[i], Promoted(Due)[k]),
             Promoted(Due)[i].status \in Slot, Promoted(Due)[k].status \in Slot
      PROVE  i = k
  <2>1. SamePair(task[i], task[k]) /\ task[i].subject \in Issues
        /\ task[k].subject \in Issues
    BY <1>1, <1>3 DEF Promoted, SamePair
  <2>2. /\ i \notin Due => task[i].status \in Slot
        /\ k \notin Due => task[k].status \in Slot
    BY <1>3 DEF Promoted
  <2>3. CASE i \in Due /\ k \in Due
    <3>1. i <= k /\ k <= i
      BY <2>1, <2>3 DEF Due, SamePair
    <3> QED BY <3>1, Constants DEF Rows
  <2>4. CASE i \in Due /\ k \notin Due
    BY <2>1, <2>2, <2>4 DEF Due, Promotable, SlotTaken, SamePair
  <2>5. CASE i \notin Due /\ k \in Due
    BY <2>1, <2>2, <2>5 DEF Due, Promotable, SlotTaken, SamePair
  <2>6. CASE i \notin Due /\ k \notin Due
    BY <1>0, <2>1, <2>2, <2>6 DEF Unique
  <2> QED BY <2>3, <2>4, <2>5, <2>6
<1> QED BY <1>0, <1>2, <1>3 DEF Unique

\* The fences of PromoteDueDeferredTasksForRuntime suffice: what one snapshot
\* selects collides neither with a taken slot nor within itself.
THEOREM Fenced == Spec => PromotionFenced
<1> DEFINE Step == \A h \in Handlers :
                     poll[h].pc = "select" /\ poll'[h].pc = "promote" =>
                       Unique(Promoted(poll'[h].due))
<1>1. IInv /\ [Next]_vars => [Step]_vars
  BY StepPolls, DueFits DEF PollsNext, PollNext
<1>2. Spec => [][Step]_vars
  BY <1>1, Invariance, PTL DEF Spec
<1> QED BY <1>2 DEF PromotionFenced

\* Whatever reports late, sweeps twice or requeues an old claim, a row that ended
\* is changed by nothing but the write of a promotion that still names it.
THEOREM TerminalKept == Spec => TerminalButForPromotion
<1> DEFINE Step == \A i \in Rows :
                     task[i].status \in Terminal /\ task'[i] # task[i] => Overwritten(i)
<1>1. ASSUME IInv, [Next]_vars, NEW i \in Rows, task[i].status \in Terminal, task'[i] # task[i]
      PROVE  Overwritten(i)
  <2>1. Kinds
    BY <1>1, StepKinds
  <2>2. task[i].status \notin Open /\ task[i].status # "none" /\ task[i].status # "queued"
    BY <1>1 DEF Terminal, Open, Active, Waiting
  <2>3. CASE Quietly
    BY <1>1, <2>2, <2>3 DEF Quietly, Quiet, Moves
  <2>4. CASE \E t, j, y : Adds(t, j, y)
    <3>1. PICK t, j, y : Adds(t, j, y)
      BY <2>4
    <3>2. t[i] = task[i] /\ i # j
      BY <2>2, <3>1 DEF Adds, Quiet, Moves
    <3>3. task'[i] = t[i]
      BY <3>1, <3>2 DEF Adds
    <3> QED BY <1>1, <3>2, <3>3
  <2>5. CASE \E k \in Rows : Takes(k)
    <3>1. PICK k \in Rows : Takes(k)
      BY <2>5
    <3>2. i # k /\ task \in [Rows -> RowType]
      BY <1>1, <2>2, <3>1 DEF Takes, Claimable, IInv, TypeOK
    <3> QED BY <1>1, <3>1, <3>2 DEF Takes
  <2>6. CASE \E h \in Handlers : Promotes(h)
    BY <1>1, <2>6 DEF Promotes, Promoted, Overwritten
  <2>7. CASE \E h \in Handlers : Rolls(h)
    BY <1>1, <2>2, <2>7, RolledRow DEF Open, Active
  <2> QED BY <2>1, <2>3, <2>4, <2>5, <2>6, <2>7 DEF Kinds
<1>2. IInv /\ [Next]_vars => [Step]_vars
  BY <1>1
<1>3. Spec => [][Step]_vars
  BY <1>2, Invariance, PTL DEF Spec
<1> QED BY <1>3 DEF TerminalButForPromotion

-----------------------------------------------------------------------------
(* Refinement: the queue is a TaskSlots.                                      *)

\* Only a claim adds to the rows agents are at work on.
LEMMA HeldShrinks ==
  ASSUME IInv,
         \/ Quietly \/ \E t, j, y : Adds(t, j, y)
         \/ \E h \in Handlers : Rolls(h) \/ Promotes(h)
  PROVE  Held' \subseteq Held
<1>0. task' \in [Rows -> RowType]
  BY RowsLast DEF Kinds
<1>1. SUFFICES ASSUME NEW i \in Rows, task'[i].status \in Active
               PROVE  task[i].status \in Active
  BY DEF Held
<1>2. CASE Quietly
  BY <1>1, <1>2 DEF Quietly, Quiet, Moves
<1>3. CASE \E t, j, y : Adds(t, j, y)
  <2>1. PICK t, j, y : Adds(t, j, y)
    BY <1>3
  <2>2. i # j
    BY <1>1, <2>1 DEF Adds, Active, Waiting
  <2>3. task'[i] = t[i]
    BY <2>1, <2>2 DEF Adds
  <2> QED BY <1>1, <2>1, <2>3 DEF Adds, Quiet, Moves
<1>4. CASE \E h \in Handlers : Promotes(h)
  <2>1. PICK h \in Handlers : Promotes(h)
    BY <1>4
  <2>2. i \notin poll[h].due
    BY <1>1, <2>1, PromotedRow DEF Promotes, Active, Waiting
  <2> QED BY <1>1, <2>1, <2>2 DEF Promotes, Promoted
<1>5. CASE \E h \in Handlers : Rolls(h)
  BY <1>1, <1>5, RolledRow DEF Active
<1> QED BY <1>2, <1>3, <1>4, <1>5

\* A row that belongs to somebody exists, and keeps its agent and subject.
LEMMA WhoKept ==
  ASSUME IInv, Kinds
  PROVE  /\ DOMAIN Who' = Rows
         /\ \A i \in Rows : Who[i] # << "none", "none" >> => Who'[i] = Who[i]
         /\ \A i \in Rows : task[i].status # "none" => Who[i] # << "none", "none" >>
<1>1. ASSUME NEW i \in Rows, Who[i] # << "none", "none" >>
      PROVE  Who'[i] = Who[i]
  <2>1. task[i].status # "none"
    BY <1>1 DEF IInv, Existing, NoTask, Who
  <2> QED BY <2>1, RowsLast DEF Who
<1>2. ASSUME NEW i \in Rows, task[i].status # "none"
      PROVE  Who[i] # << "none", "none" >>
  BY <1>2, Constants DEF IInv, Existing, Who
<1> QED BY <1>1, <1>2 DEF Who

\* A claim takes a slot its agent had free, for a subject it held no task of.
LEMMA TakesSlot ==
  ASSUME IInv, NEW i \in Rows, Takes(i)
  PROVE  Slots!Take(i)
<1>0. TypeOK /\ task \in [Rows -> RowType] /\ task[i].status = "queued"
      /\ task[i].claims < MaxClaims
  BY DEF IInv, TypeOK, Takes, Claimable
<1>1. /\ task'[i].status = "dispatched" /\ task'[i].agent = task[i].agent
      /\ task'[i].subject = task[i].subject
      /\ \A k \in Rows \ {i} : task'[k] = task[k]
  BY <1>0, DispatchedRow DEF Takes
<1>2. i \in Rows \ Held /\ Who[i] # << "none", "none" >>
  BY <1>0, WhoKept DEF Held, Active, Waiting, Kinds
<1>3. Slots!Load(i) = Serves(task[i].agent)
  <2>1. Slots!Load(i) = {j \in Held : Who[j][1] = Who[i][1]}
    BY DEF Slots!Load
  <2>2. \A j \in Rows : Who[j][1] = task[j].agent
    BY DEF Who
  <2> QED BY <2>1, <2>2 DEF Held, Serves
<1>4. Slots!Cardinality(Slots!Load(i)) < Capacity
  <2>1. Slots!Cardinality(Serves(task[i].agent)) = Cardinality(Serves(task[i].agent))
    BY DEF Cardinality, Slots!Cardinality
  <2> QED BY <1>3, <2>1 DEF Takes, Claimable
<1>5. \A j \in Held : Who[j] # Who[i]
  BY DEF Held, Who, Takes, Claimable, Serves
<1>6. Held' = Held \cup {i}
  BY <1>1 DEF Held, Active
<1>7. Who' = Who
  BY <1>1 DEF Who
<1> QED BY <1>2, <1>4, <1>5, <1>6, <1>7 DEF Slots!Take

\* Every step takes one slot, as TaskSlots allows, or only releases some.
LEMMA SlotStep ==
  ASSUME IInv, [Next]_vars
  PROVE  Slots!Next
<1>1. Kinds
  BY StepKinds
<1>2. CASE \/ Quietly \/ \E t, j, y : Adds(t, j, y)
           \/ \E h \in Handlers : Rolls(h) \/ Promotes(h)
  <2>1. Slots!Release
    BY <1>1, <1>2, HeldShrinks, WhoKept DEF Slots!Release
  <2> QED BY <2>1 DEF Slots!Next
<1>3. CASE \E i \in Rows : Takes(i)
  BY <1>3, TakesSlot DEF Slots!Next
<1> QED BY <1>1, <1>2, <1>3 DEF Kinds

\* The queue implements TaskSlots: whatever is in flight, an agent is given a
\* task only within its capacity and only for a subject it holds no task of.
THEOREM Refinement == Spec => SlotsHonored
<1>1. Init => Slots!Init
  BY DEF Init, Slots!Init, Who, Held, NoTask, Active, Waiting
<1>2. IInv /\ [Next]_vars => [Slots!Next]_Slots!vars
  BY SlotStep
<1> QED BY <1>1, <1>2, Invariance, PTL DEF Spec, SlotsHonored, Slots!Spec

-----------------------------------------------------------------------------
(* What TaskSlots means for an agent.                                         *)

\* An agent's rows are at most Capacity, no two of one subject.
Bounded ==
    /\ \A a \in Agents : Cardinality(Serves(a)) <= Capacity
    /\ \A i, j \in Held : SamePair(task[i], task[j]) => i = j

\* An agent serves finitely many rows.
LEMMA ServesFinite == \A a : IsFiniteSet(Serves(a))
<1>1. IsFiniteSet(Rows)
  BY Constants, FS_Interval DEF Rows
<1> QED BY <1>1, FS_Subset DEF Serves

\* max_concurrent_tasks and one task per subject hold at every moment, though
\* claims check them one row at a time.
THEOREM AgentsBounded == Spec => []Bounded
<1>1. Init => Bounded
  <2> SUFFICES ASSUME Init PROVE Bounded
    OBVIOUS
  <2>1. \A a : Serves(a) = {}
    BY DEF Init, NoTask, Serves, Active, Waiting
  <2>2. Cardinality({}) <= Capacity
    BY FS_EmptySet, Constants
  <2> QED BY <2>1, <2>2 DEF Init, NoTask, Bounded, Held, Active, Waiting
<1>2. ASSUME IInv, Bounded, [Next]_vars
      PROVE  Bounded'
  <2>1. Kinds
    BY <1>2, StepKinds
  <2>2. \A i \in Held : /\ task'[i].agent = task[i].agent
                        /\ task'[i].subject = task[i].subject
    BY <1>2, <2>1, RowsLast DEF Held, Active, Waiting
  <2>3. CASE \/ Quietly \/ \E t, j, y : Adds(t, j, y)
           \/ \E h \in Handlers : Rolls(h) \/ Promotes(h)
    <3>1. Held' \subseteq Held
      BY <1>2, <2>3, HeldShrinks
    <3>2. ASSUME NEW a \in Agents
          PROVE  Cardinality(Serves(a)') <= Capacity
      <4>1. Serves(a)' \subseteq Serves(a)
        BY <2>2, <3>1 DEF Serves, Held
      <4>2. Cardinality(Serves(a)') <= Cardinality(Serves(a))
        BY <4>1, ServesFinite, FS_Subset
      <4>3. Cardinality(Serves(a)) \in Nat /\ Cardinality(Serves(a)') \in Nat
        BY <4>1, ServesFinite, FS_Subset, FS_CardinalityType
      <4> QED BY <1>2, <4>2, <4>3, Constants DEF Bounded
    <3>3. \A i, j \in Held' : SamePair(task'[i], task'[j]) => i = j
      BY <1>2, <2>2, <3>1 DEF Bounded, SamePair
    <3> QED BY <3>2, <3>3 DEF Bounded
  <2>4. CASE \E i \in Rows : Takes(i)
    <3>1. PICK i \in Rows : Takes(i)
      BY <2>4
    <3>2. /\ Held' = Held \cup {i} /\ Who' = Who /\ \A j \in Held : Who[j] # Who[i]
      BY <1>2, <3>1, TakesSlot DEF Slots!Take
    <3>3. \A k \in Rows : task'[k].agent = task[k].agent /\ task'[k].subject = task[k].subject
      BY <3>2 DEF Who
    <3>4. \A j \in Held : ~SamePair(task[j], task[i]) /\ ~SamePair(task[i], task[j])
      BY <3>2 DEF Held, Who, SamePair
    <3>5. ASSUME NEW a \in Agents
          PROVE  Cardinality(Serves(a)') <= Capacity
      <4>1. CASE a = task[i].agent
        <5>1. Serves(a)' \subseteq Serves(a) \cup {i}
          BY <3>2, <3>3 DEF Serves, Held
        <5>2. Cardinality(Serves(a)) < Capacity
          BY <3>1, <4>1 DEF Takes, Claimable
        <5>3. /\ IsFiniteSet(Serves(a) \cup {i})
              /\ Cardinality(Serves(a) \cup {i}) <= Cardinality(Serves(a)) + 1
          <6>1. IsFiniteSet(Serves(a)) /\ Cardinality(Serves(a)) \in Nat
            BY ServesFinite, FS_CardinalityType
          <6>2. /\ IsFiniteSet(Serves(a) \cup {i})
                /\ Cardinality(Serves(a) \cup {i}) =
                     IF i \in Serves(a) THEN Cardinality(Serves(a))
                     ELSE Cardinality(Serves(a)) + 1
            BY <6>1, FS_AddElement
          <6> QED BY <6>1, <6>2
        <5>4. Cardinality(Serves(a)') <= Cardinality(Serves(a) \cup {i})
          BY <5>1, <5>3, FS_Subset
        <5>5. /\ Cardinality(Serves(a)) \in Nat /\ Cardinality(Serves(a)') \in Nat
              /\ Cardinality(Serves(a) \cup {i}) \in Nat
          BY <5>1, <5>3, ServesFinite, FS_Subset, FS_CardinalityType
        <5> QED BY <5>2, <5>3, <5>4, <5>5, Constants
      <4>2. CASE a # task[i].agent
        <5>1. Serves(a)' = Serves(a)
          BY <3>2, <3>3, <4>2 DEF Serves, Held
        <5> QED BY <1>2, <5>1 DEF Bounded
      <4> QED BY <4>1, <4>2
    <3>6. \A j, k \in Held' : SamePair(task'[j], task'[k]) => j = k
      <4>1. \A j \in Held' : j \in Held \/ j = i
        BY <3>2
      <4>2. \A j \in Held : j \in Rows
        BY DEF Held
      <4> QED BY <1>2, <3>3, <3>4, <4>1, <4>2 DEF Bounded, SamePair
    <3> QED BY <3>5, <3>6 DEF Bounded
  <2> QED BY <2>1, <2>3, <2>4 DEF Kinds
<1>3. Bounded /\ UNCHANGED vars => Bounded'
  BY DEF Bounded, vars, Serves, Held, SamePair
<1> QED BY <1>1, <1>2, Invariance, PTL DEF Spec

-----------------------------------------------------------------------------
(* Deliveries.                                                                *)

\* A claim's number is given once: the claims held by handlers and the ones the
\* daemon received differ, and none is above the row's.
Delivered ==
    /\ \A i \in Rows, c \in Claims : copy[i][c] # "none" => c <= task[i].claims
    /\ \A h \in Handlers : poll[h].pc = "respond" =>
         /\ poll[h].claim <= task[poll[h].id].claims
         /\ copy[poll[h].id][poll[h].claim] = "none"
    /\ \A h, k \in Handlers :
         /\ poll[h].pc = "respond" /\ poll[k].pc = "respond"
         /\ poll[h].id = poll[k].id /\ poll[h].claim = poll[k].claim
         => h = k

\* Steps that neither claim nor deliver: no handler comes to hold a claim and no
\* delivery begins.
Still ==
    /\ \A i \in Rows, c \in Claims : copy[i][c] = "none" => copy'[i][c] = "none"
    /\ \A h \in Handlers : poll'[h].pc = "respond" =>
         poll[h].pc = "respond" /\ poll'[h].id = poll[h].id /\ poll'[h].claim = poll[h].claim

\* Such steps keep Delivered.
LEMMA StillDelivered ==
  ASSUME IInv, Delivered, [Next]_vars, Still
  PROVE  Delivered'
<1>1. \A i \in Rows : task[i].claims <= task'[i].claims /\ task[i].claims \in Nat
                      /\ task'[i].claims \in Nat
  BY StepKinds, RowsLast DEF IInv, TypeOK, RowType
<1>2. \A h \in Handlers : poll[h].pc = "respond" => poll[h].id \in Rows /\ poll[h].claim \in Claims
  BY DEF IInv, Referred
<1>3. \A c \in Claims : c \in Nat
  BY Constants DEF Claims
<1>4. ASSUME NEW i \in Rows, NEW c \in Claims, copy'[i][c] # "none"
      PROVE  c <= task'[i].claims
  BY <1>1, <1>3, <1>4 DEF Still, Delivered
<1>5. ASSUME NEW h \in Handlers, poll'[h].pc = "respond"
      PROVE  /\ poll'[h].claim <= task'[poll'[h].id].claims
             /\ copy'[poll'[h].id][poll'[h].claim] = "none"
  BY <1>1, <1>2, <1>3, <1>5 DEF Still, Delivered
<1>6. ASSUME NEW h \in Handlers, NEW k \in Handlers,
             poll'[h].pc = "respond", poll'[k].pc = "respond",
             poll'[h].id = poll'[k].id, poll'[h].claim = poll'[k].claim
      PROVE  h = k
  BY <1>6 DEF Still, Delivered
<1> QED BY <1>4, <1>5, <1>6 DEF Delivered

\* A claim takes the next number of its row.
LEMMA HoldDelivered ==
  ASSUME IInv, Delivered, NEW h \in Handlers, NEW i \in Rows, Hold(h, i), UNCHANGED copy
  PROVE  Delivered'
<1>0. TypeOK /\ poll \in [Handlers -> PollType] /\ task \in [Rows -> RowType]
      /\ task[i].claims < MaxClaims
  BY DEF IInv, TypeOK, Hold
<1> DEFINE n == task[i].claims + 1
<1>1. \A k \in Rows : task[k].claims \in Nat
  BY <1>0 DEF RowType
<1>2. n \in Claims /\ n \in Nat /\ task'[i].claims = n
      /\ \A k \in Rows \ {i} : task'[k] = task[k]
  BY <1>0, <1>1, DispatchedRow, Constants DEF Claims, Hold, Put
<1>3. /\ poll'[h].pc = "respond" /\ poll'[h].id = i /\ poll'[h].claim = n
      /\ \A k \in Handlers \ {h} : poll'[k] = poll[k]
  BY <1>0 DEF Hold, PollType
<1>4. \A k \in Handlers : poll[k].pc = "respond" => poll[k].id \in Rows /\ poll[k].claim \in Claims
  BY DEF IInv, Referred
<1>5. \A c \in Claims : c \in Nat
  BY Constants DEF Claims
<1>6. n > task[i].claims
  BY <1>1
<1> HIDE DEF n
<1>7. copy[i][n] = "none"
  BY <1>1, <1>2, <1>6 DEF Delivered
<1>8. ASSUME NEW j \in Rows, NEW c \in Claims, copy'[j][c] # "none"
      PROVE  c <= task'[j].claims
  BY <1>1, <1>2, <1>5, <1>6, <1>8 DEF Delivered
<1>9. ASSUME NEW k \in Handlers, poll'[k].pc = "respond"
      PROVE  /\ poll'[k].claim <= task'[poll'[k].id].claims
             /\ copy'[poll'[k].id][poll'[k].claim] = "none"
  <2>1. CASE k = h
    BY <1>2, <1>3, <1>7, <2>1
  <2>2. CASE k # h
    <3>1. poll'[k] = poll[k] /\ poll[k].id \in Rows /\ poll[k].claim \in Nat
      BY <1>3, <1>4, <1>5, <1>9, <2>2
    <3>2. /\ poll[k].claim <= task[poll[k].id].claims
          /\ copy[poll[k].id][poll[k].claim] = "none"
      BY <1>9, <3>1 DEF Delivered
    <3>3. task[poll[k].id].claims <= task'[poll[k].id].claims
      BY <1>1, <1>2, <1>6, <3>1
    <3> QED BY <1>1, <1>2, <3>1, <3>2, <3>3
  <2> QED BY <2>1, <2>2
<1>10. ASSUME NEW k \in Handlers, NEW l \in Handlers, k # l,
              poll'[k].pc = "respond", poll'[l].pc = "respond", poll'[k].id = poll'[l].id
       PROVE  poll'[k].claim # poll'[l].claim
  <2>1. ASSUME NEW m \in Handlers \ {h}, poll[m].pc = "respond", poll[m].id = i
        PROVE  poll[m].claim # n
    BY <1>1, <1>2, <1>4, <1>5, <1>6, <2>1 DEF Delivered
  <2>2. CASE k # h /\ l # h
    BY <1>3, <1>10, <2>2 DEF Delivered
  <2>3. CASE k = h \/ l = h
    BY <1>3, <1>10, <2>1, <2>3
  <2> QED BY <2>2, <2>3
<1> QED BY <1>8, <1>9, <1>10 DEF Delivered

\* A delivery turns the handler's claim into the daemon's.
LEMMA DeliverDelivered ==
  ASSUME IInv, Delivered, NEW h \in Handlers, Deliver(h)
  PROVE  Delivered'
<1> DEFINE i == poll[h].id
           n == poll[h].claim
<1>0. poll \in [Handlers -> PollType]
      /\ copy \in [Rows -> [Claims -> {"none", "preparing", "running", "refused", "gone"}]]
  BY DEF IInv, TypeOK
<1>1. /\ poll[h].pc = "respond" /\ i \in Rows /\ n \in Claims /\ n <= task[i].claims
      /\ task' = task
  BY DEF IInv, Referred, Deliver, Delivered
<1>2. /\ poll'[h].pc = "idle"
      /\ \A k \in Handlers \ {h} : poll'[k] = poll[k]
  BY <1>0 DEF Deliver, Answered, NoPoll
<1>3. copy' = [copy EXCEPT ![i][n] = "preparing"]
  BY DEF Deliver
<1> HIDE DEF i, n
<1>4. \A j \in Rows, c \in Claims :
        copy'[j][c] = IF j = i /\ c = n THEN "preparing" ELSE copy[j][c]
  BY <1>0, <1>1, <1>3
<1>5. \A k \in Handlers \ {h} : poll[k].pc = "respond" =>
        /\ poll[k].id \in Rows /\ poll[k].claim \in Claims
        /\ ~(poll[k].id = i /\ poll[k].claim = n)
  BY <1>1 DEF IInv, Referred, Delivered, i, n
<1>6. ASSUME NEW j \in Rows, NEW c \in Claims, copy'[j][c] # "none"
      PROVE  c <= task'[j].claims
  BY <1>1, <1>4, <1>6 DEF Delivered
<1>7. ASSUME NEW k \in Handlers, poll'[k].pc = "respond"
      PROVE  /\ poll'[k].claim <= task'[poll'[k].id].claims
             /\ copy'[poll'[k].id][poll'[k].claim] = "none"
  <2>1. k # h /\ poll'[k] = poll[k]
    BY <1>2, <1>7
  <2> QED BY <1>1, <1>4, <1>5, <1>7, <2>1 DEF Delivered
<1>8. ASSUME NEW k \in Handlers, NEW l \in Handlers,
             poll'[k].pc = "respond", poll'[l].pc = "respond",
             poll'[k].id = poll'[l].id, poll'[k].claim = poll'[l].claim
      PROVE  k = l
  BY <1>2, <1>8 DEF Delivered
<1> QED BY <1>6, <1>7, <1>8 DEF Delivered

\* Every step keeps Delivered.
LEMMA StepDelivered ==
  ASSUME IInv, Delivered, [Next]_vars
  PROVE  Delivered'
<1>0. poll \in [Handlers -> PollType]
      /\ copy \in [Rows -> [Claims -> {"none", "preparing", "running", "refused", "gone"}]]
  BY DEF IInv, TypeOK
<1>1. (UNCHANGED << poll, copy >>) => Still
  BY DEF Still
<1>2. ASSUME NEW h \in Handlers, UNCHANGED copy,
             \A k \in Handlers \ {h} : poll'[k] = poll[k], poll'[h].pc # "respond"
      PROVE  Still
  BY <1>2 DEF Still
<1>3. ASSUME NEW h \in Handlers, Answered(h), UNCHANGED copy
      PROVE  Still
  <2>1. poll'[h].pc # "respond" /\ \A k \in Handlers \ {h} : poll'[k] = poll[k]
    BY <1>0, <1>3 DEF Answered, NoPoll
  <2> QED BY <1>2, <1>3, <2>1
<1>4. ASSUME NEW h \in Handlers, Answer(h)
      PROVE  Delivered'
  <2>1. CASE Deliver(h)
    BY <2>1, DeliverDelivered
  <2>2. ASSUME NEW i \in Rows, Reclaim(h, i) \/ Claim(h, i)
        PROVE  Delivered'
    BY <2>2, HoldDelivered DEF Reclaim, Claim
  <2>3. CASE \/ NothingToClaim(h) \/ PollError(h) \/ LoseResponse(h) \/ Requeue(h) \/ Reject(h)
    <3>1. Still
      BY <1>3, <2>3 DEF NothingToClaim, PollError, LoseResponse, Requeue, Reject
    <3> QED BY <3>1, StillDelivered
  <2>4. CASE CancelSuperseded(h) \/ PromoteSelect(h) \/ PromoteWrite(h)
    <3>1. poll'[h].pc # "respond" /\ \A k \in Handlers \ {h} : poll'[k] = poll[k]
      BY <1>0, <2>4 DEF CancelSuperseded, GoOn, PromoteSelect, PromoteWrite, PollType
    <3>2. UNCHANGED copy
      BY <2>4 DEF CancelSuperseded, PromoteSelect, PromoteWrite
    <3> QED BY <1>2, <3>1, <3>2, StillDelivered
  <2> QED BY <1>4, <2>1, <2>2, <2>3, <2>4 DEF Answer
<1>5. ASSUME NEW i \in Rows, Settle(i)
      PROVE  Still
  BY <1>1, <1>5 DEF Settle, FailStale, FailOffline, ExpireQueued, FailReconnectTimeout, Sweep,
                    HandleFailed, CancelEscalations, FireAtPasses
<1>6. ASSUME NEW i \in Rows, NEW c \in Claims,
             MarkWaiting(i, c) \/ Comment(i, c) \/ Handle(i, c)
      PROVE  Still
  <2>1. CASE UNCHANGED << poll, copy >>
    BY <1>1, <2>1
  <2>2. CASE UNCHANGED poll /\ copy[i][c] # "none" /\ \E st : Becomes(i, c, st)
    <3>1. \A j \in Rows, d \in Claims : j # i \/ d # c => copy'[j][d] = copy[j][d]
      BY <1>0, <2>2 DEF Becomes
    <3> QED BY <2>2, <3>1 DEF Still
  <2>3. MarkWaiting(i, c) \/ Comment(i, c) => UNCHANGED << poll, copy >>
    BY DEF MarkWaiting, Comment
  <2>4. Handle(i, c) => UNCHANGED poll /\ copy[i][c] # "none" /\ \E st : Becomes(i, c, st)
    BY DEF Handle, Start, Complete, Fail, Interrupt, LoseReport
  <2> QED BY <1>6, <2>1, <2>2, <2>3, <2>4
<1>7. CASE Ask
  <2>1. Still
    BY <1>1, <1>7 DEF Ask, Enqueue, EnqueueFallback, RerunBegin, Cancel
  <2> QED BY <2>1, StillDelivered
<1>8. CASE Restart
  <2>1. /\ copy' = [i \in Rows |-> [c \in Claims |->
                     IF copy[i][c] = "none" THEN "none" ELSE "gone"]]
        /\ poll' = [h \in Handlers |-> [poll[h] EXCEPT !.heard = (poll[h].pc = "idle")]]
    BY <1>8 DEF Restart
  <2>2. \A h \in Handlers : /\ poll'[h].pc = poll[h].pc /\ poll'[h].id = poll[h].id
                            /\ poll'[h].claim = poll[h].claim
    BY <1>0, <2>1 DEF PollType
  <2>3. Still
    BY <2>1, <2>2 DEF Still
  <2> QED BY <2>3, StillDelivered
<1>9. CASE ServerCrash
  <2>1. Still
    BY <1>9 DEF ServerCrash, Still, NoPoll
  <2> QED BY <2>1, StillDelivered
<1>10. CASE \/ RerunEnqueue \/ RerunCollides \/ RecoverOrphans
            \/ HeartbeatStops \/ GraceEnds \/ HeartbeatReturns \/ UNCHANGED vars
  <2>1. Still
    BY <1>1, <1>10 DEF RerunEnqueue, RerunCollides, RecoverOrphans, HeartbeatStops, GraceEnds,
                       HeartbeatReturns, vars
  <2> QED BY <2>1, StillDelivered
<1> QED BY <1>4, <1>5, <1>6, <1>7, <1>8, <1>9, <1>10, StillDelivered DEF Next

\* RequeueTaskAfterClaimFailure, compared with the claim's dispatched_at, never
\* takes back a claim that reached the daemon, whatever reclaims and handlers
\* are in flight; only a promotion's stale write can.
THEOREM DeliveryStays == Spec => DeliveredClaimStays
<1> DEFINE Step == \A i \in Rows :
                     task[i].status = "dispatched" /\ task'[i].status = "queued" =>
                       copy[i][task[i].claims] = "none" \/ Overwritten(i)
<1>1. Init => Delivered
  BY DEF Init, Delivered, NoPoll
<1>2. ASSUME IInv, Delivered, [Next]_vars, NEW i \in Rows,
             task[i].status = "dispatched", task'[i].status = "queued"
      PROVE  copy[i][task[i].claims] = "none" \/ Overwritten(i)
  <2>1. Kinds
    BY <1>2, StepKinds
  <2>2. CASE Quietly
    BY <1>2, <2>2 DEF Quietly, Quiet, Moves
  <2>3. CASE \E t, j, y : Adds(t, j, y)
    <3>1. PICK t, j, y : Adds(t, j, y)
      BY <2>3
    <3>2. i # j
      BY <1>2, <3>1 DEF Adds
    <3>3. task'[i] = t[i]
      BY <3>1, <3>2 DEF Adds
    <3> QED BY <1>2, <3>1, <3>3 DEF Adds, Quiet, Moves
  <2>4. CASE \E k \in Rows : Takes(k)
    <3>1. PICK k \in Rows : Takes(k)
      BY <2>4
    <3>2. i # k /\ task \in [Rows -> RowType]
      BY <1>2, <3>1 DEF Takes, Claimable, IInv, TypeOK
    <3> QED BY <1>2, <3>1, <3>2 DEF Takes
  <2>5. CASE \E h \in Handlers : Promotes(h)
    BY <1>2, <2>5 DEF Promotes, Promoted, Overwritten
  <2>6. CASE \E h \in Handlers : Rolls(h)
    <3>1. PICK h \in Handlers : Rolls(h)
      BY <2>6
    <3>2. i = poll[h].id
      BY <1>2, <3>1, RolledRow
    <3> QED BY <1>2, <3>1, <3>2 DEF Rolls, HoldsClaim, Delivered
  <2> QED BY <2>1, <2>2, <2>3, <2>4, <2>5, <2>6 DEF Kinds
<1>3. IInv /\ Delivered /\ [Next]_vars => [Step]_vars
  BY <1>2
<1>4. IInv /\ Delivered /\ [Next]_vars => Delivered'
  BY StepDelivered
<1>5. Spec => [][Step]_vars
  BY <1>1, <1>3, <1>4, Invariance, PTL DEF Spec
<1> QED BY <1>5 DEF DeliveredClaimStays

-----------------------------------------------------------------------------
(* One claim request at a time.  A promotion writes its snapshot back without *)
(* looking again, so it may queue a row that has ended meanwhile.  While the  *)
(* daemon has one request in flight that row cannot have begun or been        *)
(* retried: only another request could have queued and claimed it.            *)

OneRequest == \A g, h \in Handlers : g = h

\* A snapshot's rows have not begun and are not at work; a row that has begun is
\* running or has ended; a delivery runs only what has begun, and alone.
Untouched ==
    /\ \A h \in Handlers : \A i \in poll[h].due :
         task[i].status \in {"deferred"} \cup Terminal /\ ~task[i].began
    /\ \A i \in Rows : task[i].began => task[i].status \in {"running"} \cup Terminal
    /\ \A i \in Rows, c \in Claims : copy[i][c] = "running" => task[i].began
    /\ OneExecution

\* Statuses that a snapshot's rows may have are outside the slot and not at work.
LEMMA Resting ==
  ASSUME NEW st \in {"deferred"} \cup Terminal
  PROVE  /\ st \notin Slot /\ st \notin Active /\ st \notin {"none", "queued", "dispatched", "running"}
         /\ st \in Open => st = "deferred"
BY DEF Terminal, Slot, Active, Open, Waiting

\* The rows of a snapshot stay as they were in this respect.
LEMMA DueStays ==
  ASSUME IInv, OneRequest, Untouched, [Next]_vars,
         NEW h \in Handlers, NEW i \in poll'[h].due
  PROVE  /\ i \in Rows /\ (i \in poll[h].due \/ i \in Due)
         /\ task[i].status \in {"deferred"} \cup Terminal
         /\ task'[i].status \in {"deferred"} \cup Terminal /\ ~task'[i].began
<1>1. Kinds
  BY StepKinds
<1>2. TypeOK /\ task \in [Rows -> RowType] /\ poll[h].due \subseteq Rows
  BY DEF IInv, TypeOK, PollType
<1>3. i \in poll[h].due \/ i \in Due
  BY StepPolls DEF PollsNext, PollNext
<1>4. i \in Rows
  BY <1>2, <1>3 DEF Due
<1>5. task[i].status \in {"deferred"} \cup Terminal /\ ~task[i].began
  <2>1. CASE i \in poll[h].due
    BY <2>1 DEF Untouched
  <2>2. CASE i \in Due
    <3>1. task[i].status = "deferred"
      BY <2>2 DEF Due, Promotable
    <3> QED BY <1>4, <3>1 DEF Untouched, Terminal
  <2> QED BY <1>3, <2>1, <2>2
<1> SUFFICES task'[i].status \in {"deferred"} \cup Terminal /\ ~task'[i].began
  BY <1>3, <1>4, <1>5
<1>6. ASSUME NEW y \in RowType, Moves(task[i], y)
      PROVE  y.status \in {"deferred"} \cup Terminal /\ ~y.began
  <2>1. task[i].status = "deferred"
    BY <1>5, <1>6, Resting DEF Moves
  <2>2. /\ "deferred" \notin Slot /\ "deferred" \notin Active /\ "running" \in Active
        /\ {"queued", "dispatched"} = Slot
    BY DEF Slot, Active, Waiting
  <2>3. y.status \notin Slot /\ y.status \notin Active /\ y.status # "none"
    BY <1>6, <2>1, <2>2 DEF Moves
  <2>4. y.status \in {"none", "completed", "failed", "cancelled", "deferred", "queued"} \cup Active
    BY DEF RowType, Open
  <2> QED BY <1>5, <1>6, <2>2, <2>3, <2>4 DEF Moves, Terminal
<1>7. CASE Quietly
  BY <1>4, <1>5, <1>6, <1>7 DEF Quietly, Quiet
<1>8. CASE \E t, j, y : Adds(t, j, y)
  <2>1. PICK t, j, y : Adds(t, j, y)
    BY <1>8
  <2>2. i # j
    BY <1>5, <2>1, Resting DEF Adds
  <2>3. task'[i] = t[i] /\ t[i] \in RowType /\ (t[i] = task[i] \/ Moves(task[i], t[i]))
    BY <1>4, <2>1, <2>2 DEF Adds, Quiet
  <2> QED BY <1>5, <1>6, <2>3
<1>9. CASE \E j \in Rows : Takes(j)
  <2>1. PICK j \in Rows : Takes(j)
    BY <1>9
  <2>2. i # j
    BY <1>5, <2>1, Resting DEF Takes, Claimable
  <2>3. task'[i] = task[i]
    BY <1>2, <1>4, <2>1, <2>2 DEF Takes
  <2> QED BY <1>5, <2>3
<1>10. CASE \E g \in Handlers : Rolls(g)
  <2>1. PICK g \in Handlers : Rolls(g)
    BY <1>10
  <2>2. i # poll[g].id
    BY <1>5, <2>1, RolledRow, Resting
  <2>3. task'[i] = task[i]
    BY <1>4, <2>1, <2>2, RolledRow
  <2> QED BY <1>5, <2>3
<1>11. CASE \E g \in Handlers : Promotes(g)
  <2>1. PICK g \in Handlers : Promotes(g)
    BY <1>11
  <2>2. g = h
    BY <2>1 DEF OneRequest, Promotes
  <2> QED BY <2>1, <2>2 DEF Promotes
<1> QED BY <1>1, <1>7, <1>8, <1>9, <1>10, <1>11 DEF Kinds

\* A row that has begun is running or has ended.
LEMMA BegunStays ==
  ASSUME IInv, Untouched, [Next]_vars, NEW i \in Rows, task'[i].began
  PROVE  task'[i].status \in {"running"} \cup Terminal
<1>1. Kinds
  BY StepKinds
<1>2. TypeOK /\ task \in [Rows -> RowType]
      /\ (task[i].began => task[i].status \in {"running"} \cup Terminal)
  BY DEF IInv, TypeOK, Untouched
<1>3. ASSUME NEW y, Moves(task[i], y), y.began
      PROVE  y.status \in {"running"} \cup Terminal
  <2>1. CASE task[i].began
    <3>1. task[i].status = "running"
      BY <1>2, <1>3, <2>1 DEF Moves, Terminal, Open, Active, Waiting
    <3> QED BY <1>3, <3>1 DEF Moves
  <2>2. CASE ~task[i].began
    BY <1>3, <2>2 DEF Moves
  <2> QED BY <2>1, <2>2
<1>4. CASE Quietly
  BY <1>2, <1>3, <1>4 DEF Quietly, Quiet
<1>5. CASE \E t, j, y : Adds(t, j, y)
  <2>1. PICK t, j, y : Adds(t, j, y)
    BY <1>5
  <2>2. i # j
    BY <2>1 DEF Adds
  <2>3. task'[i] = t[i] /\ (t[i] = task[i] \/ Moves(task[i], t[i]))
    BY <2>1, <2>2 DEF Adds, Quiet
  <2> QED BY <1>2, <1>3, <2>3
<1>6. CASE \E j \in Rows : Takes(j)
  <2>1. PICK j \in Rows : Takes(j)
    BY <1>6
  <2>2. task[j].status = "queued" /\ task[j].claims < MaxClaims
    BY <2>1 DEF Takes, Claimable
  <2>3. ~task[j].began
    BY <2>2 DEF Untouched, Terminal
  <2>4. task'[j].began = task[j].began /\ \A k \in Rows \ {j} : task'[k] = task[k]
    BY <1>2, <2>1, <2>2, DispatchedRow DEF Takes
  <2> QED BY <1>2, <2>3, <2>4
<1>7. CASE \E g \in Handlers : Rolls(g)
  BY <1>2, <1>7, RolledRow
<1>8. CASE \E g \in Handlers : Promotes(g)
  <2>1. PICK g \in Handlers : Promotes(g)
    BY <1>8
  <2>2. task'[i].began = task[i].began /\ (i \notin poll[g].due => task'[i] = task[i])
    BY <2>1, PromotedRow DEF Promotes
  <2>3. i \in poll[g].due => ~task[i].began
    BY <2>1 DEF Untouched
  <2> QED BY <1>2, <2>2, <2>3
<1> QED BY <1>1, <1>4, <1>5, <1>6, <1>7, <1>8 DEF Kinds

\* A delivery begins to run only by starting a row that has not ended and is not
\* running, and every other delivery stays as it is.
LEMMA Starts ==
  ASSUME IInv, [Next]_vars, NEW i \in Rows, NEW c \in Claims,
         copy'[i][c] = "running", copy[i][c] # "running"
  PROVE  /\ Startable(i) /\ task'[i].began
         /\ \A d \in Claims \ {c} : copy'[i][d] = copy[i][d]
<1>0. TypeOK /\ copy \in [Rows -> [Claims -> {"none", "preparing", "running", "refused", "gone"}]]
  BY DEF IInv, TypeOK
<1>1. copy' # copy
  OBVIOUS
<1>2. ASSUME NEW j, NEW d, NEW st, st # "running"
      PROVE  ~Becomes(j, d, st)
  BY <1>0, <1>2 DEF Becomes
<1>3. ASSUME NEW h \in Handlers, Answer(h)
      PROVE  FALSE
  <2>1. copy' = [copy EXCEPT ![poll[h].id][poll[h].claim] = "preparing"]
    BY <1>1, <1>3 DEF Answer, CancelSuperseded, PromoteSelect, PromoteWrite, NothingToClaim,
       PollError, Deliver, LoseResponse, Requeue, Reject, Reclaim, Claim
  <2> QED BY <1>2, <2>1 DEF Becomes
<1>4. ASSUME NEW j \in Rows, Settle(j)
      PROVE  FALSE
  BY <1>1, <1>4 DEF Settle, FailStale, FailOffline, ExpireQueued, FailReconnectTimeout, Sweep,
                    HandleFailed, CancelEscalations, FireAtPasses
<1>5. ~Ask
  BY <1>1 DEF Ask, Enqueue, EnqueueFallback, RerunBegin, Cancel
<1>6. ~Restart
  BY <1>0 DEF Restart
<1>7. ~(\/ RerunEnqueue \/ RerunCollides \/ RecoverOrphans \/ HeartbeatStops \/ GraceEnds
        \/ HeartbeatReturns \/ ServerCrash \/ UNCHANGED vars)
  BY <1>1 DEF RerunEnqueue, RerunCollides, RecoverOrphans, HeartbeatStops, GraceEnds,
              HeartbeatReturns, ServerCrash, vars
<1>8. PICK j \in Rows, d \in Claims : MarkWaiting(j, d) \/ Comment(j, d) \/ Handle(j, d)
  BY <1>3, <1>4, <1>5, <1>6, <1>7 DEF Next
<1>9. Start(j, d)
  BY <1>1, <1>2, <1>8 DEF MarkWaiting, Comment, Handle, Complete, Fail, Interrupt, LoseReport
<1>10. /\ Startable(j) /\ Becomes(j, d, "running")
       /\ Put(j, [With(j, "running") EXCEPT !.began = TRUE])
  BY <1>2, <1>9 DEF Start
<1>11. j = i /\ d = c
  BY <1>0, <1>10 DEF Becomes
<1>12. \A e \in Claims \ {c} : copy'[i][e] = copy[i][e]
  BY <1>0, <1>10, <1>11 DEF Becomes
<1>13. task'[i].began
  <2>1. With(i, "running") \in RowType
    BY <1>0, WithRow DEF Open, Active
  <2>2. task'[i] = [With(i, "running") EXCEPT !.began = TRUE]
    BY <1>0, <1>10, <1>11 DEF Put, TypeOK
  <2> QED BY <2>1, <2>2, BegunRow
<1> QED BY <1>10, <1>11, <1>12, <1>13

\* With one request in flight, every step keeps Untouched.
LEMMA StepUntouched ==
  ASSUME IInv, OneRequest, Untouched, [Next]_vars
  PROVE  Untouched'
<1>1. ASSUME NEW i \in Rows, NEW c \in Claims, copy'[i][c] = "running"
      PROVE  task'[i].began
  <2>1. CASE copy[i][c] = "running"
    <3>1. task[i].began /\ task[i].status # "none"
      BY <2>1 DEF Untouched, Terminal
    <3> QED BY <3>1, StepKinds, RowsLast
  <2>2. CASE copy[i][c] # "running"
    BY <1>1, <2>2, Starts
  <2> QED BY <2>1, <2>2
<1>2. ASSUME NEW i \in Rows, NEW c \in Claims, NEW d \in Claims,
             copy'[i][c] = "running", copy[i][c] # "running", copy'[i][d] = "running"
      PROVE  c = d
  <2>1. ~task[i].began
    BY <1>2, Starts DEF Untouched, Startable, Terminal, Waiting
  <2>2. copy[i][d] # "running"
    BY <2>1 DEF Untouched
  <2> QED BY <1>2, <2>2, Starts
<1>3. OneExecution'
  <2>1. ASSUME NEW i \in Rows, NEW c \in Claims, NEW d \in Claims,
               copy'[i][c] = "running", copy'[i][d] = "running"
        PROVE  c = d
    BY <1>2, <2>1 DEF Untouched, OneExecution
  <2> QED BY <2>1 DEF OneExecution
<1> QED BY <1>1, <1>3, DueStays, BegunStays DEF Untouched

\* The empty queue satisfies it.
LEMMA InitUntouched == Init => Untouched
BY DEF Init, Untouched, OneExecution, NoPoll, NoTask

\* A row delivered twice, through a reclaim of a claim whose answer was late, is
\* executed by one delivery at a time, as long as the daemon's claim requests do
\* not overlap.
THEOREM ExecutedOnce == ASSUME OneRequest PROVE Spec => []OneExecution
<1>1. IInv /\ Untouched /\ [Next]_vars => Untouched'
  BY StepUntouched
<1>2. Untouched => OneExecution
  BY DEF Untouched
<1> QED BY <1>1, <1>2, Invariance, InitUntouched, PTL DEF Spec

\* Row i has been retried; a sweep has handed i over and it may still be retried.
HasRetry(i) == \E j \in Rows : task[j].kind = "retry" /\ task[j].parent = i
Owing(i) == \E x \in failed : x.id = i /\ Retryable(x.row)

\* A retry is for a failed row, which is owed none; a row is handed over for a
\* retry once, and a snapshot holds neither kind.
Retries ==
    /\ \A j \in Rows : task[j].kind = "retry" => task[j].parent \in Rows
    /\ \A i \in Rows : HasRetry(i) \/ Owing(i) => task[i].status = "failed"
    /\ \A i \in Rows : ~(HasRetry(i) /\ Owing(i))
    /\ \A x, y \in failed : x.id = y.id /\ Retryable(x.row) /\ Retryable(y.row) => x = y
    /\ \A h \in Handlers : \A i \in poll[h].due : ~HasRetry(i) /\ ~Owing(i)
    /\ RetryOnce

\* What a step hands over to HandleFailedTasks: rows it failed while they were at
\* work, each once, or rows that are not retried anyway.
LEMMA HandsOver ==
  ASSUME IInv, [Next]_vars
  PROVE  /\ \A x \in failed' : \/ x \in failed \/ ~Retryable(x.row)
                               \/ /\ x.id \in Rows /\ task[x.id].status \in Active
                                  /\ task'[x.id].status = "failed"
         /\ \A x, y \in failed' : x \notin failed /\ y \notin failed /\ x.id = y.id => x = y
<1>0. TypeOK /\ task \in [Rows -> RowType]
  BY DEF IInv, TypeOK
<1>1. CASE failed' \subseteq failed
  BY <1>1
<1>2. ASSUME NEW i \in Rows, NEW reason \in {"fatal", "transient", "network", "offline"},
             Sweep(i, reason), reason = "fatal" \/ task[i].status \in Active
      PROVE  /\ \A x \in failed' : \/ x \in failed \/ ~Retryable(x.row)
                                   \/ /\ x.id \in Rows /\ task[x.id].status \in Active
                                      /\ task'[x.id].status = "failed"
             /\ \A x, y \in failed' : x \notin failed /\ y \notin failed /\ x.id = y.id => x = y
  <2> DEFINE s == Swept(i, reason)
  <2>1. /\ failed' = failed \cup {s} /\ s.id = i /\ s.row = Failed(i, reason)
        /\ task'[i] = Failed(i, reason)
    BY <1>0, <1>2 DEF Sweep, Swept, Put
  <2>2. Failed(i, reason).status = "failed" /\ Failed(i, reason).reason = reason
    BY <1>0, FailedRow
  <2> HIDE DEF s
  <2>3. reason = "fatal" => ~Retryable(s.row)
    BY <2>1, <2>2 DEF Retryable
  <2> QED BY <1>2, <2>1, <2>2, <2>3
<1>3. ASSUME NEW i \in Rows, Settle(i)
      PROVE  \/ failed' \subseteq failed
             \/ \E reason \in {"fatal", "transient", "network", "offline"} :
                  Sweep(i, reason) /\ (reason = "fatal" \/ task[i].status \in Active)
  <2>1. CASE FailStale(i) \/ FailOffline(i) \/ ExpireQueued(i) \/ FailReconnectTimeout(i)
    BY <2>1 DEF FailStale, FailOffline, ExpireQueued, FailReconnectTimeout, Active
  <2>2. CASE HandleFailed(i) \/ CancelEscalations(i) \/ FireAtPasses(i)
    BY <2>2 DEF HandleFailed, CancelEscalations, FireAtPasses
  <2> QED BY <1>3, <2>1, <2>2 DEF Settle
<1>4. CASE \E i \in Rows : Settle(i)
  BY <1>1, <1>2, <1>3, <1>4
<1>5. CASE RecoverOrphans
  <2>1. CASE /\ task' = [i \in Rows |-> IF i \in Orphans THEN Failed(i, "transient") ELSE task[i]]
             /\ failed' = failed \cup {Swept(i, "transient") : i \in Orphans}
    <3>1. ASSUME NEW i \in Orphans
          PROVE  /\ i \in Rows /\ task[i].status \in Active /\ task'[i].status = "failed"
                 /\ Swept(i, "transient").id = i
      BY <1>0, <2>1, FailedRow DEF Orphans, Swept
    <3>2. \A x \in failed' \ failed : \E i \in Orphans : x = Swept(i, "transient")
      BY <2>1
    <3> QED BY <3>1, <3>2
  <2> QED BY <1>1, <1>5, <2>1 DEF RecoverOrphans
<1>6. ASSUME NEW h \in Handlers, Answer(h)
      PROVE  failed' \subseteq failed
  BY <1>6 DEF Answer, CancelSuperseded, PromoteSelect, PromoteWrite, NothingToClaim,
     PollError, Deliver, LoseResponse, Requeue, Reject, Reclaim, Claim
<1>7. ASSUME NEW i \in Rows, NEW c \in Claims,
             MarkWaiting(i, c) \/ Comment(i, c) \/ Handle(i, c)
      PROVE  failed' \subseteq failed
  BY <1>7 DEF MarkWaiting, Comment, Handle, Start, Complete, Fail, Interrupt, LoseReport
<1>8. CASE Ask
  BY <1>1, <1>8 DEF Ask, Enqueue, EnqueueFallback, RerunBegin, Cancel
<1>9. CASE \/ RerunEnqueue \/ RerunCollides \/ Restart \/ HeartbeatStops \/ GraceEnds
           \/ HeartbeatReturns \/ ServerCrash \/ UNCHANGED vars
  BY <1>1, <1>9 DEF RerunEnqueue, RerunCollides, Restart, HeartbeatStops, GraceEnds,
                    HeartbeatReturns, ServerCrash, vars
<1> QED BY <1>1, <1>4, <1>5, <1>6, <1>7, <1>8, <1>9 DEF Next

\* A failed row that has a retry, or is owed one, stays failed.
LEMMA FailedStays ==
  ASSUME IInv, Retries, [Next]_vars, NEW i \in Rows, HasRetry(i) \/ Owing(i)
  PROVE  task'[i].status = "failed"
<1>1. Kinds /\ TypeOK /\ task \in [Rows -> RowType]
  BY StepKinds DEF IInv, TypeOK
<1>2. task[i].status = "failed" /\ task[i].status \notin Open
      /\ \A h \in Handlers : i \notin poll[h].due
  BY DEF Retries, Open, Active, Waiting
<1>3. CASE Quietly
  BY <1>2, <1>3 DEF Quietly, Quiet, Moves
<1>4. CASE \E t, j, y : Adds(t, j, y)
  <2>1. PICK t, j, y : Adds(t, j, y)
    BY <1>4
  <2>2. i # j
    BY <1>2, <2>1 DEF Adds
  <2>3. task'[i] = t[i] /\ (t[i] = task[i] \/ Moves(task[i], t[i]))
    BY <2>1, <2>2 DEF Adds, Quiet
  <2> QED BY <1>2, <2>3 DEF Moves
<1>5. CASE \E j \in Rows : Takes(j)
  BY <1>1, <1>2, <1>5 DEF Takes, Claimable
<1>6. CASE \E g \in Handlers : Rolls(g)
  BY <1>2, <1>6, RolledRow
<1>7. CASE \E g \in Handlers : Promotes(g)
  BY <1>2, <1>7, PromotedRow DEF Promotes
<1> QED BY <1>1, <1>3, <1>4, <1>5, <1>6, <1>7 DEF Kinds

\* A retry is an old one, or the only new one, of a row that is owed it.
LEMMA NewRetry ==
  ASSUME IInv, Kinds, NEW j \in Rows, task'[j].kind = "retry"
  PROVE  \/ task[j].kind = "retry" /\ task[j].parent = task'[j].parent
         \/ /\ Owed(task'[j].parent)
            /\ \A k \in Rows \ {j} : task'[k].kind = "retry" =>
                 task[k].kind = "retry" /\ task[k].parent = task'[k].parent
<1>0. \A k \in Rows : task[k].status # "none" =>
        task'[k].kind = task[k].kind /\ task'[k].parent = task[k].parent
  BY RowsLast
<1>1. \A k \in Rows : task[k].status = "none" => task[k].kind = "none"
  BY DEF IInv, Existing, NoTask
<1>2. TypeOK /\ task \in [Rows -> RowType]
  BY DEF IInv, TypeOK
<1> SUFFICES ASSUME task[j].status = "none"
             PROVE  /\ Owed(task'[j].parent)
                    /\ \A k \in Rows \ {j} : task'[k].kind = "retry" => task[k].status # "none"
  BY <1>0
<1>3. CASE Quietly
  BY <1>1, <1>3 DEF Quietly, Quiet, Moves, Open, Active, Waiting
<1>4. CASE \E t, l, y : Adds(t, l, y)
  <2>1. PICK t, l, y : Adds(t, l, y)
    BY <1>4
  <2>2. ASSUME NEW k \in Rows \ {l}, task[k].status = "none"
        PROVE  task'[k].kind = "none"
    <3>1. task'[k] = t[k] /\ (t[k] = task[k] \/ Moves(task[k], t[k]))
      BY <2>1, <2>2 DEF Adds, Quiet
    <3> QED BY <1>1, <2>2, <3>1 DEF Moves, Open, Active, Waiting
  <2>3. j = l
    BY <2>2
  <2>4. task'[j] = y
    BY <2>1, <2>3 DEF Adds
  <2> QED BY <2>1, <2>2, <2>3, <2>4 DEF Adds
<1>5. CASE \E k \in Rows : Takes(k)
  BY <1>1, <1>2, <1>5 DEF Takes, Claimable
<1>6. CASE \E g \in Handlers : Rolls(g)
  BY <1>1, <1>6, RolledRow
<1>7. CASE \E g \in Handlers : Promotes(g)
  BY <1>1, <1>7, PromotedRow DEF Promotes
<1> QED BY <1>3, <1>4, <1>5, <1>6, <1>7 DEF Kinds

\* With one request in flight, every step keeps Retries.
LEMMA StepRetries ==
  ASSUME IInv, OneRequest, Untouched, Retries, [Next]_vars
  PROVE  Retries'
<1>0. Kinds
  BY StepKinds
<1>1. ASSUME NEW i \in Rows, task[i].status \in Active
      PROVE  ~HasRetry(i) /\ ~Owing(i)
  BY <1>1 DEF Retries, Active, Waiting
<1>2. ASSUME NEW i, Owed(i)
      PROVE  i \in Rows /\ ~HasRetry(i) /\ task'[i].status = "failed" /\ ~Owing(i)'
  <2>1. i \in Rows
    BY <1>2 DEF Owed
  <2>2. CASE task[i].status \in Active /\ task'[i].status = "failed" /\ failed' = failed
    BY <1>1, <2>1, <2>2 DEF Owing
  <2>3. ASSUME NEW x \in failed, x.id = i, Retryable(x.row), failed' = failed \ {x}
        PROVE  ~HasRetry(i) /\ task'[i].status = "failed" /\ ~Owing(i)'
    <3>1. Owing(i)
      BY <2>3 DEF Owing
    <3>2. ~HasRetry(i) /\ task'[i].status = "failed"
      BY <2>1, <3>1, FailedStays DEF Retries
    <3>3. ~Owing(i)'
      BY <2>3 DEF Owing, Retries
    <3> QED BY <3>2, <3>3
  <2> QED BY <1>2, <2>1, <2>2, <2>3 DEF Owed
<1>3. ASSUME NEW i, HasRetry(i)'
      PROVE  HasRetry(i) \/ Owed(i)
  BY <1>0, <1>3, NewRetry DEF HasRetry
<1>4. ASSUME NEW i, Owing(i)'
      PROVE  \/ Owing(i)
             \/ i \in Rows /\ task[i].status \in Active /\ task'[i].status = "failed"
  BY <1>4, HandsOver DEF Owing
<1>5. ASSUME NEW j \in Rows, task'[j].kind = "retry"
      PROVE  task'[j].parent \in Rows
  BY <1>0, <1>5, <1>2, NewRetry DEF Retries
<1>6. ASSUME NEW i \in Rows, HasRetry(i)' \/ Owing(i)'
      PROVE  task'[i].status = "failed"
  BY <1>2, <1>3, <1>4, <1>6, FailedStays
<1>7. ASSUME NEW i \in Rows, HasRetry(i)', Owing(i)'
      PROVE  FALSE
  BY <1>1, <1>2, <1>3, <1>4, <1>7 DEF Retries
<1>8. ASSUME NEW x \in failed', NEW y \in failed', x.id = y.id,
             Retryable(x.row), Retryable(y.row)
      PROVE  x = y
  <2>1. CASE x \in failed /\ y \in failed
    BY <1>8, <2>1 DEF Retries
  <2>2. CASE x \notin failed /\ y \notin failed
    BY <1>8, <2>2, HandsOver
  <2>3. CASE x \in failed /\ y \notin failed
    BY <1>1, <1>8, <2>3, HandsOver DEF Owing
  <2>4. CASE x \notin failed /\ y \in failed
    BY <1>1, <1>8, <2>4, HandsOver DEF Owing
  <2> QED BY <2>1, <2>2, <2>3, <2>4
<1>9. ASSUME NEW h \in Handlers, NEW i \in poll'[h].due
      PROVE  ~HasRetry(i)' /\ ~Owing(i)'
  <2>1. /\ i \in Rows /\ task[i].status \notin Active
        /\ i \in poll[h].due \/ i \in Due
    BY <1>9, DueStays, Resting
  <2>2. ~HasRetry(i) /\ ~Owing(i)
    BY <2>1 DEF Retries, Due, Promotable
  <2>3. ~Owed(i)
    BY <2>1, <2>2 DEF Owed, Owing
  <2> QED BY <1>3, <1>4, <2>1, <2>2, <2>3
<1>10. ASSUME NEW i \in Rows, NEW j \in Rows, i # j,
              task'[i].kind = "retry", task'[j].kind = "retry",
              task'[i].parent = task'[j].parent
       PROVE  FALSE
  <2> DEFINE old(k) == task[k].kind = "retry" /\ task[k].parent = task'[k].parent
  <2>1. old(i) \/ (Owed(task'[i].parent) /\ old(j))
    BY <1>0, <1>10, NewRetry
  <2>2. old(j) \/ (Owed(task'[j].parent) /\ old(i))
    BY <1>0, <1>10, NewRetry
  <2>3. ~(old(i) /\ old(j))
    BY <1>10 DEF Retries, RetryOnce
  <2>4. Owed(task'[i].parent) /\ HasRetry(task'[i].parent)
    BY <1>10, <2>1, <2>2, <2>3 DEF HasRetry
  <2> QED BY <1>2, <2>4
<1>11. RetryOnce'
  BY <1>10 DEF RetryOnce
<1> QED BY <1>5, <1>6, <1>7, <1>8, <1>9, <1>11 DEF Retries

\* The empty queue satisfies it.
LEMMA InitRetries == Init => Retries
BY DEF Init, Retries, RetryOnce, HasRetry, Owing, NoPoll, NoTask

\* A failed task gets at most one automatic retry, though its report, the sweeps
\* and the recovery of orphans may each notice the failure and a sweep retries it
\* in a later statement, as long as the daemon's claim requests do not overlap.
THEOREM RetriedOnce == ASSUME OneRequest PROVE Spec => []RetryOnce
<1> DEFINE Both == Untouched /\ Retries
<1>1. IInv /\ Both /\ [Next]_vars => Both'
  BY StepUntouched, StepRetries
<1>2. Init => Both
  BY InitUntouched, InitRetries
<1>3. Both => RetryOnce
  BY DEF Retries
<1> HIDE DEF Both
<1> QED BY <1>1, <1>2, <1>3, Invariance, PTL DEF Spec
=============================================================================
