---------------------- MODULE AutopilotDispatchProofs ----------------------
(***************************************************************************)
(* Proofs about AutopilotDispatch, for any occasions, dispatchers, limit,   *)
(* attempts and accidents.                                                  *)
(***************************************************************************)
EXTENDS AutopilotDispatch, FiniteSetTheorems, TLAPS

Outcomes == {"done", "failed", "retry", "ignored"}
AtRun == {"repair", "relink", "resync", "recover", "dispatch", "link", "enqueue", "failing",
          "ensure"}
AtItem == {"relink", "resync", "link", "enqueue", "ensure"}
Pcs == AtRun \cup {"idle", "receive", "reserve", "lookup", "admit", "finish"}
Seen == {"none", "bare", "live", "completed", "failed", "deleted", "done", "retry", "ignored"}

\* What a dispatcher holds where it stands is there.
Placed(pc, r, w, seen) ==
    /\ pc \in AtRun => r \in Runs
    /\ pc \in AtItem => w \in Work
    /\ pc = "resync" => seen \in Finished
    /\ pc \in {"finish", "ensure"} => seen \in Outcomes
Procs ==
    /\ proc \in [Dispatchers -> ProcType]
    /\ \A d \in Dispatchers : Placed(proc[d].pc, proc[d].run, proc[d].item, proc[d].seen)

\* Work belongs to a run, and only the end of work is news.
Items ==
    /\ work \in [Work -> WorkType] /\ news \subseteq Work
    /\ \A w \in Work : /\ work[w].status # "none" => work[w].run \in Runs
                       /\ w \in news => work[w].status \in {"completed", "failed"}

\* The quota's counters, and: a run that is not there holds no slot.
Counted ==
    /\ limit \in Nat /\ held \in Nat /\ used \in Nat
    /\ slot \in [Runs -> {"none", "reserved", "consumed", "released"}]
    /\ QuotaKept
Fresh == \A r \in Runs : run[r].status = "none" => slot[r] = "none"
Ledger == run \in [Runs -> RunType] /\ Counted /\ Fresh

Callers ==
    /\ todo \in [Occasions -> {"never", "unsent", "todo", "done", "failed", "ignored"}]
    /\ tries \in [Occasions -> Nat] /\ owner \in [Occasions -> Dispatchers \cup {Nobody}]
    /\ overtaken \subseteq Plans \cup Hooks

Rest == mode \in {"run_only", "create_issue"} /\ unheard \subseteq Work /\ accidents \in Nat

IInv == Ledger /\ Items /\ Procs /\ Callers /\ Rest

-----------------------------------------------------------------------------

LEMMA UnusedType == Unused \in ProcType /\ Unused.pc = "idle"
BY DEF Unused, ProcType

LEMMA RunsFinite == IsFiniteSet(Runs) /\ \A S \in SUBSET Runs : IsFiniteSet(S)
<1>1. IsFiniteSet(Runs)
  BY DispatchAssumption, FS_Interval DEF Runs
<1> QED BY <1>1, FS_Subset

LEMMA InitHolds == DispatchInit => IInv
<1> SUFFICES ASSUME DispatchInit PROVE IInv OBVIOUS
<1>1. PICK s \in Scenarios :
        /\ limit = s.limit /\ accidents = s.accidents
        /\ todo = [o \in Occasions |-> IF o \notin s.arising THEN "never"
                                       ELSE IF o \in Hooks THEN "unsent" ELSE "todo"]
  BY DEF DispatchInit
<1>2. limit \in Nat /\ accidents \in Nat
  BY <1>1, DispatchAssumption
<1>3. QuotaKept
  <2>1. {r \in Runs : slot[r] = "reserved"} = {} /\ {r \in Runs : slot[r] = "consumed"} = {}
    BY DEF DispatchInit
  <2>2. held = 0 /\ used = 0
    BY DEF DispatchInit
  <2> QED BY <1>2, <2>1, <2>2, FS_EmptySet DEF QuotaKept
<1>4. Ledger
  BY <1>2, <1>3 DEF DispatchInit, Ledger, Counted, Fresh, NoRun, RunType
<1>5. Items
  BY DEF DispatchInit, Items, NoWork, WorkType
<1>6. Procs
  BY UnusedType DEF DispatchInit, Procs, Placed, AtRun, AtItem
<1>7. Callers
  BY <1>1 DEF DispatchInit, Callers
<1> QED BY <1>2, <1>4, <1>5, <1>6, <1>7 DEF DispatchInit, IInv, Rest

LEMMA TypeFollows == IInv => DispatchTypeOK
BY DEF IInv, Ledger, Counted, Items, Procs, Callers, Rest, DispatchTypeOK

-----------------------------------------------------------------------------
(* The quota's counters.                                                      *)

\* Settling a run keeps the counters, and touches its own reservation only.
LEMMA Settles ==
  ASSUME Counted, limit' = limit, NEW r \in Runs, NEW state \in {"consumed", "released"},
         SettleSlot(r, state)
  PROVE  /\ Counted'
         /\ \A q \in Runs : slot[q] = "none" => slot'[q] = "none"
<1> DEFINE R == {q \in Runs : slot[q] = "reserved"}
           C == {q \in Runs : slot[q] = "consumed"}
<1>1. CASE slot[r] # "reserved"
  BY <1>1 DEF SettleSlot, Counted, QuotaKept, quotaVars
<1>2. CASE slot[r] = "reserved"
  <2>1. /\ slot' = [slot EXCEPT ![r] = state] /\ held' = held - 1
        /\ used' = IF state = "consumed" THEN used + 1 ELSE used
    BY <1>2 DEF SettleSlot
  <2>2. /\ {q \in Runs : slot'[q] = "reserved"} = R \ {r}
        /\ {q \in Runs : slot'[q] = "consumed"} = IF state = "consumed" THEN C \cup {r} ELSE C
    BY <1>2, <2>1 DEF Counted
  <2>3. IsFiniteSet(R) /\ IsFiniteSet(C) /\ r \in R /\ r \notin C
    BY <1>2, RunsFinite
  <2>4. Cardinality(R \ {r}) = Cardinality(R) - 1 /\ Cardinality(C \cup {r}) = Cardinality(C) + 1
    BY <2>3, FS_RemoveElement, FS_AddElement
  <2>5. held = Cardinality(R) /\ used = Cardinality(C) /\ used + held <= limit
    BY DEF Counted, QuotaKept
  <2>6. Cardinality(R \ {r}) \in Nat
    BY <2>3, FS_RemoveElement, FS_CardinalityType
  <2>7. held' \in Nat /\ used' \in Nat /\ used' + held' <= limit
    BY <2>1, <2>4, <2>5, <2>6 DEF Counted
  <2>8. QuotaKept'
    BY <2>1, <2>2, <2>4, <2>5, <2>7 DEF QuotaKept
  <2> QED BY <1>2, <2>1, <2>7, <2>8 DEF Counted
<1> QED BY <1>1, <1>2

\* A reservation within the limit keeps the counters.
LEMMA Reserves ==
  ASSUME Counted, limit' = limit, NEW r \in Runs, slot[r] = "none", Room,
         slot' = [slot EXCEPT ![r] = "reserved"], held' = held + 1, used' = used
  PROVE  Counted'
<1> DEFINE R == {q \in Runs : slot[q] = "reserved"}
<1>1. /\ {q \in Runs : slot'[q] = "reserved"} = R \cup {r}
      /\ {q \in Runs : slot'[q] = "consumed"} = {q \in Runs : slot[q] = "consumed"}
  BY DEF Counted
<1>2. Cardinality(R \cup {r}) = Cardinality(R) + 1
  <2>1. IsFiniteSet(R) /\ r \notin R
    BY RunsFinite
  <2> QED BY <2>1, FS_AddElement
<1>3. QuotaKept'
  BY <1>1, <1>2 DEF Counted, QuotaKept, Room
<1> QED BY <1>3 DEF Counted

\* Runs that are written are there.
LEMMA Written ==
  ASSUME Ledger, run' \in [Runs -> RunType], Counted',
         \A q \in Runs : slot[q] = "none" => slot'[q] = "none",
         \A q \in Runs : run'[q].status = "none" => run[q].status = "none"
  PROVE  Ledger'
BY DEF Ledger, Fresh

LEMMA RunEnds ==
  ASSUME Ledger, limit' = limit, NEW r \in Runs, NEW status \in Finished, EndRun(r, status)
  PROVE  Ledger'
<1>1. /\ Counted'
      /\ \A q \in Runs : slot[q] = "none" => slot'[q] = "none"
  <2>1. (IF status = "completed" THEN "consumed" ELSE "released") \in {"consumed", "released"}
    OBVIOUS
  <2> QED BY <2>1, Settles DEF EndRun, Ledger
<1>2. /\ run' \in [Runs -> RunType]
      /\ \A q \in Runs : run'[q].status = "none" => run[q].status = "none"
  BY DEF EndRun, Ledger, RunType, Finished
<1> QED BY <1>1, <1>2, Written

LEMMA RunRecovers ==
  ASSUME Ledger, limit' = limit, NEW r \in Runs, RecoverPartial(r)
  PROVE  Ledger'
<1>1. /\ Counted'
      /\ \A q \in Runs : slot[q] = "none" => slot'[q] = "none"
  BY Settles DEF RecoverPartial, Ledger
<1>2. /\ run' \in [Runs -> RunType]
      /\ \A q \in Runs : run'[q].status = "none" => run[q].status = "none"
  BY DEF RecoverPartial, Ledger, RunType, Finished
<1> QED BY <1>1, <1>2, Written

LEMMA RunLinks ==
  ASSUME Ledger, NEW r \in Runs, NEW w \in Work, Linked(r, w)
  PROVE  /\ run' \in [Runs -> RunType]
         /\ \A q \in Runs : run'[q].status = "none" => run[q].status = "none"
BY DEF Ledger, Linked, RunType, Finished

LEMMA LedgerFrame == ASSUME Ledger, limit' = limit, UNCHANGED << run, quotaVars >> PROVE Ledger'
BY DEF Ledger, Counted, Fresh, QuotaKept, quotaVars

LEMMA LimitStays == ASSUME DispatchNext \/ UNCHANGED dispatchVars PROVE UNCHANGED frozenVars
BY DEF DispatchNext, DispatchStep, WorkStep, dispatchVars, rowVars, frozenVars, ReceiveHook, Take,
       Click, FinishAttempt, Dies, LeaseRunsOut, LookUp, SkipAdmission, ReserveRun, ReuseRun,
       RefuseRun, AdmissionFails, FindTask, Relink, Resync, Recover, SkipDispatch, CreateTask,
       CreateIssue, DispatchFails, LinkTask, EnqueueIssueTask, FailRun, EnsureIssueTask, WorkEnds,
       HearEnd, MissEnd, DeleteIssue, Reconcile

-----------------------------------------------------------------------------
(* The ledger, by the steps that write it.                                    *)

LEMMA DispatcherLedger ==
  ASSUME IInv, UNCHANGED frozenVars, NEW d \in Dispatchers, DispatchStep(d)
  PROVE  Ledger'
<1>1. Ledger /\ limit' = limit
  BY DEF IInv, frozenVars
<1>2. /\ proc[d].pc \in AtRun => Run(d) \in Runs
      /\ proc[d].pc \in AtItem => Item(d) \in Work
      /\ proc[d].pc = "resync" => proc[d].seen \in Finished
  BY DEF IInv, Procs, Placed, Run, Item
<1>3. ASSUME SkipAdmission(d) PROVE Ledger'
  <2>1. PICK r \in Runs : Inserted(r, d, "skipped")
    BY <1>3 DEF SkipAdmission
  <2>2. run' \in [Runs -> RunType]
    <3>1. [occ |-> Occ(d), status |-> "skipped", link |-> 0, anchored |-> Occ(d) \notin Clicks]
            \in RunType
      BY DEF IInv, Procs, ProcType, RunType, Occ, Finished
    <3> QED BY <1>1, <2>1, <3>1 DEF Inserted, Ledger
  <2>3. Fresh' /\ Counted'
    BY <1>1, <1>3, <2>1 DEF SkipAdmission, Inserted, Ledger, Fresh, Counted, QuotaKept, quotaVars
  <2> QED BY <2>2, <2>3 DEF Ledger
<1>4. ASSUME ReserveRun(d) PROVE Ledger'
  <2>1. PICK r \in Runs : /\ Inserted(r, d, "going")
                          /\ slot' = [slot EXCEPT ![r] = "reserved"] /\ held' = held + 1
    BY <1>4 DEF ReserveRun
  <2>2. slot[r] = "none"
    BY <1>1, <2>1 DEF Inserted, NextRun, NoRun, Ledger, Fresh
  <2>3. Counted'
    BY <1>1, <1>4, <2>1, <2>2, Reserves DEF ReserveRun, Ledger
  <2>4. run' \in [Runs -> RunType]
    <3>1. [occ |-> Occ(d), status |-> "going", link |-> 0, anchored |-> Occ(d) \notin Clicks]
            \in RunType
      BY DEF IInv, Procs, ProcType, RunType, Occ
    <3> QED BY <1>1, <2>1, <3>1 DEF Inserted, Ledger
  <2>5. Fresh'
    BY <1>1, <2>1 DEF Inserted, Ledger, Fresh, Counted
  <2> QED BY <2>3, <2>4, <2>5 DEF Ledger
<1>5. ASSUME Relink(d) \/ LinkTask(d) PROVE Ledger'
  <2>1. Run(d) \in Runs /\ Item(d) \in Work /\ UNCHANGED quotaVars
    BY <1>2, <1>5 DEF Relink, LinkTask, Doing, AtRun, AtItem
  <2>2. CASE Linked(Run(d), Item(d))
    <3>1. Counted' /\ \A q \in Runs : slot[q] = "none" => slot'[q] = "none"
      BY <1>1, <2>1 DEF Ledger, Counted, QuotaKept, quotaVars
    <3> QED BY <1>1, <2>1, <2>2, <3>1, RunLinks, Written
  <2> QED BY <1>1, <1>5, <2>1, <2>2, LedgerFrame DEF Relink, LinkTask
<1>6. ASSUME Resync(d) PROVE Ledger'
  <2>1. Run(d) \in Runs /\ proc[d].seen \in Finished
    BY <1>2, <1>6 DEF Resync, Doing, AtRun
  <2> QED BY <1>1, <1>6, <2>1, RunEnds, LedgerFrame DEF Resync
<1>7. ASSUME Recover(d) PROVE Ledger'
  <2>1. Run(d) \in Runs
    BY <1>2, <1>7 DEF Recover, Doing, AtRun
  <2> QED BY <1>1, <1>7, <2>1, RunRecovers, LedgerFrame DEF Recover
<1>8. ASSUME SkipDispatch(d) PROVE Ledger'
  <2>1. Run(d) \in Runs
    BY <1>2, <1>8 DEF SkipDispatch, Doing, AtRun
  <2> QED BY <1>1, <1>8, <2>1, RunEnds DEF SkipDispatch, Finished
<1>9. ASSUME CreateIssue(d) PROVE Ledger'
  <2>1. Run(d) \in Runs
    BY <1>2, <1>9 DEF CreateIssue, Doing, AtRun
  <2>2. PICK w \in Work : Linked(Run(d), w)
    BY <1>9 DEF CreateIssue
  <2>3. Counted' /\ \A q \in Runs : slot[q] = "none" => slot'[q] = "none"
    BY <1>1, <1>9, <2>1, Settles DEF CreateIssue, Ledger
  <2> QED BY <1>1, <2>1, <2>2, <2>3, RunLinks, Written
<1>10. ASSUME FailRun(d) PROVE Ledger'
  <2>1. Run(d) \in Runs
    BY <1>2, <1>10 DEF FailRun, Doing, AtRun
  <2> QED BY <1>1, <1>10, <2>1, RunEnds, LedgerFrame DEF FailRun, Finished
<1>11. ASSUME \/ LookUp(d) \/ ReuseRun(d) \/ RefuseRun(d) \/ AdmissionFails(d) \/ FindTask(d)
              \/ CreateTask(d) \/ DispatchFails(d) \/ EnqueueIssueTask(d) \/ EnsureIssueTask(d)
              \/ FinishAttempt(d)
       PROVE  Ledger'
  <2>1. UNCHANGED << run, quotaVars >>
    BY <1>11 DEF LookUp, ReuseRun, RefuseRun, AdmissionFails, FindTask, CreateTask, DispatchFails,
                 EnqueueIssueTask, EnsureIssueTask, FinishAttempt, rowVars
  <2> QED BY <1>1, <2>1, LedgerFrame
<1> QED BY <1>3, <1>4, <1>5, <1>6, <1>7, <1>8, <1>9, <1>10, <1>11 DEF DispatchStep

LEMMA WorkLedger ==
  ASSUME IInv, UNCHANGED frozenVars, NEW w \in Work, WorkStep(w)
  PROVE  Ledger'
<1>1. Ledger /\ limit' = limit /\ work[w] \in WorkType
  BY DEF IInv, frozenVars, Items
<1>2. ASSUME HearEnd(w) PROVE Ledger'
  <2>1. work[w].run \in Runs /\ work[w].status \in Finished
    BY <1>2 DEF HearEnd, IInv, Items, Finished
  <2> QED BY <1>1, <1>2, <2>1, RunEnds, LedgerFrame DEF HearEnd
<1>3. ASSUME DeleteIssue(w) PROVE Ledger'
  <2> DEFINE r == work[w].run
  <2>1. r \in Runs
    BY <1>3 DEF DeleteIssue, IInv, Items
  <2>2. CASE /\ run' = [run EXCEPT ![r].status = "failed", ![r].link = 0]
             /\ SettleSlot(r, "released")
    <3>1. Counted' /\ \A q \in Runs : slot[q] = "none" => slot'[q] = "none"
      BY <1>1, <2>1, <2>2, Settles DEF Ledger
    <3>2. /\ run' \in [Runs -> RunType]
          /\ \A q \in Runs : run'[q].status = "none" => run[q].status = "none"
      BY <1>1, <2>1, <2>2 DEF Ledger, RunType, Finished
    <3> QED BY <1>1, <3>1, <3>2, Written
  <2>3. CASE /\ run' = IF run[r].link = w THEN [run EXCEPT ![r].link = 0] ELSE run
             /\ UNCHANGED quotaVars
    <3>1. Counted' /\ \A q \in Runs : slot[q] = "none" => slot'[q] = "none"
      BY <1>1, <2>3 DEF Ledger, Counted, QuotaKept, quotaVars
    <3>2. /\ run' \in [Runs -> RunType]
          /\ \A q \in Runs : run'[q].status = "none" => run[q].status = "none"
      BY <1>1, <2>1, <2>3 DEF Ledger, RunType
    <3> QED BY <1>1, <3>1, <3>2, Written
  <2> QED BY <1>3, <2>2, <2>3 DEF DeleteIssue
<1>4. ASSUME WorkEnds(w) \/ MissEnd(w) PROVE Ledger'
  BY <1>1, <1>4, LedgerFrame DEF WorkEnds, MissEnd
<1> QED BY <1>2, <1>3, <1>4 DEF WorkStep

LEMMA LedgerSteps == ASSUME IInv, DispatchNext \/ UNCHANGED dispatchVars PROVE Ledger'
<1>1. UNCHANGED frozenVars /\ Ledger /\ limit' = limit
  BY LimitStays DEF IInv, frozenVars
<1>2. ASSUME NEW d \in Dispatchers, DispatchStep(d) PROVE Ledger'
  BY <1>1, <1>2, DispatcherLedger
<1>3. ASSUME NEW w \in Work, WorkStep(w) PROVE Ledger'
  BY <1>1, <1>3, WorkLedger
<1>4. ASSUME NEW r \in Runs, Reconcile(r) PROVE Ledger'
  <2>1. CASE RecoverPartial(r)
    BY <1>1, <2>1, RunRecovers
  <2>2. CASE /\ UNCHANGED run
             /\ SettleSlot(r, IF run[r].status = "completed" THEN "consumed" ELSE "released")
    <3>1. (IF run[r].status = "completed" THEN "consumed" ELSE "released")
            \in {"consumed", "released"}
      OBVIOUS
    <3>2. Counted' /\ \A q \in Runs : slot[q] = "none" => slot'[q] = "none"
      BY <1>1, <2>2, <3>1, Settles DEF Ledger
    <3> QED BY <1>1, <2>2, <3>2, Written DEF Ledger
  <2> QED BY <1>4, <2>1, <2>2 DEF Reconcile
<1>5. ASSUME \/ \E d \in Dispatchers : \/ Dies(d) \/ \E h \in Hooks : ReceiveHook(d, h)
                                       \/ \E o \in Plans \cup Hooks : Take(d, o)
                                       \/ \E k \in Clicks : Click(d, k)
             \/ \E o \in Plans \cup Hooks : LeaseRunsOut(o)
             \/ UNCHANGED dispatchVars
      PROVE  Ledger'
  <2>1. UNCHANGED << run, quotaVars >>
    BY <1>5 DEF Dies, ReceiveHook, Take, Click, LeaseRunsOut, dispatchVars, rowVars
  <2> QED BY <1>1, <2>1, LedgerFrame
<1> QED BY <1>2, <1>3, <1>4, <1>5 DEF DispatchNext

-----------------------------------------------------------------------------
(* The work.                                                                  *)

LEMMA ItemFrame == ASSUME Items, UNCHANGED << work, news >> PROVE Items'
BY DEF Items

LEMMA EnqueueKeeps ==
  ASSUME Items, UNCHANGED news, NEW w \in Work, TaskEnqueued(w) PROVE Items'
BY DEF Items, WorkType, TaskEnqueued

LEMMA CreateKeeps ==
  ASSUME Items, UNCHANGED news, NEW d \in Dispatchers, Run(d) \in Runs, NEW w \in Work,
         NEW status \in {"live", "bare"}, Created(w, d, status)
  PROVE  Items'
<1>1. [run |-> Run(d), status |-> status] \in WorkType
  BY DEF WorkType
<1>2. w \notin news
  BY DEF Items, Created, NextWork, NoWork
<1> QED BY <1>1, <1>2 DEF Items, Created

LEMMA ItemSteps == ASSUME IInv, DispatchNext \/ UNCHANGED dispatchVars PROVE Items'
<1>1. Items
  BY DEF IInv
<1>2. ASSUME NEW d \in Dispatchers, CreateTask(d) \/ CreateIssue(d) PROVE Items'
  <2>1. Run(d) \in Runs
    BY <1>2 DEF CreateTask, CreateIssue, Doing, IInv, Procs, Placed, AtRun, Run
  <2> QED BY <1>1, <1>2, <2>1, CreateKeeps DEF CreateTask, CreateIssue
<1>3. ASSUME NEW d \in Dispatchers, EnqueueIssueTask(d) \/ EnsureIssueTask(d) PROVE Items'
  <2>1. Item(d) \in Work
    BY <1>3 DEF EnqueueIssueTask, EnsureIssueTask, Doing, IInv, Procs, Placed, AtItem, Item
  <2> QED BY <1>1, <1>3, <2>1, EnqueueKeeps, ItemFrame DEF EnqueueIssueTask, EnsureIssueTask
<1>4. ASSUME NEW d \in Dispatchers, DispatchStep(d),
             ~CreateTask(d), ~CreateIssue(d), ~EnqueueIssueTask(d), ~EnsureIssueTask(d)
      PROVE  Items'
  <2>1. UNCHANGED << work, news >>
    BY <1>4 DEF DispatchStep, LookUp, SkipAdmission, ReserveRun, ReuseRun, RefuseRun,
                AdmissionFails, FindTask, Relink, Resync, Recover, SkipDispatch, DispatchFails,
                LinkTask, FailRun, FinishAttempt, rowVars
  <2> QED BY <1>1, <2>1, ItemFrame
<1>5. ASSUME NEW w \in Work, WorkStep(w) PROVE Items'
  <2>1. CASE WorkEnds(w)
    BY <1>1, <2>1 DEF WorkEnds, Items, WorkType
  <2>2. CASE DeleteIssue(w)
    BY <1>1, <2>2 DEF DeleteIssue, Items, WorkType
  <2>3. CASE HearEnd(w) \/ MissEnd(w)
    BY <1>1, <2>3 DEF HearEnd, MissEnd, Items
  <2> QED BY <1>5, <2>1, <2>2, <2>3 DEF WorkStep
<1>6. ASSUME \/ \E d \in Dispatchers : \/ Dies(d) \/ \E h \in Hooks : ReceiveHook(d, h)
                                       \/ \E o \in Plans \cup Hooks : Take(d, o)
                                       \/ \E k \in Clicks : Click(d, k)
             \/ \E o \in Plans \cup Hooks : LeaseRunsOut(o)
             \/ \E r \in Runs : Reconcile(r)
             \/ UNCHANGED dispatchVars
      PROVE  Items'
  <2>1. UNCHANGED << work, news >>
    BY <1>6 DEF Dies, ReceiveHook, Take, Click, LeaseRunsOut, Reconcile, dispatchVars, rowVars
  <2> QED BY <1>1, <2>1, ItemFrame
<1> QED BY <1>2, <1>3, <1>4, <1>5, <1>6 DEF DispatchNext

-----------------------------------------------------------------------------
(* The dispatchers.                                                           *)

LEMMA Going ==
  ASSUME Procs, NEW d \in Dispatchers, NEW pc \in Pcs, NEW r \in {0} \cup Runs,
         NEW w \in {0} \cup Work, NEW seen \in Seen, Placed(pc, r, w, seen),
         Goes(d, pc, r, w, seen)
  PROVE  Procs'
<1>1. /\ proc' \in [Dispatchers -> ProcType]
      /\ proc'[d].pc = pc /\ proc'[d].run = r /\ proc'[d].item = w /\ proc'[d].seen = seen
      /\ \A e \in Dispatchers \ {d} : proc'[e] = proc[e]
  <2> DEFINE p == [proc[d] EXCEPT !.pc = pc, !.run = r, !.item = w, !.seen = seen]
  <2>1. p \in ProcType
    <3>1. proc[d] \in ProcType
      BY DEF Procs
    <3> DEFINE q == [proc[d] EXCEPT !.pc = pc, !.run = r]
    <3>2. q \in ProcType
      BY <3>1 DEF ProcType, Pcs, AtRun
    <3> HIDE DEF q
    <3>3. [q EXCEPT !.item = w, !.seen = seen] \in ProcType
      BY <3>2 DEF ProcType, Seen
    <3> QED BY <3>3 DEF q
  <2>2. proc' = [proc EXCEPT ![d] = p]
    BY DEF Goes, Procs
  <2> HIDE DEF p
  <2>3. proc'[d].pc = pc /\ proc'[d].run = r
    BY DEF Goes, Procs, ProcType
  <2>4. proc'[d].item = w /\ proc'[d].seen = seen
    BY DEF Goes, Procs, ProcType
  <2>5. \A e \in Dispatchers \ {d} : proc'[e] = proc[e]
    BY DEF Goes, Procs
  <2> QED BY <2>1, <2>2, <2>3, <2>4, <2>5 DEF Procs
<1> QED BY <1>1 DEF Procs, Placed

LEMMA Ending == ASSUME Procs, NEW d \in Dispatchers, Ends(d) PROVE Procs'
<1>1. /\ proc' \in [Dispatchers -> ProcType] /\ proc'[d].pc = "idle"
      /\ \A e \in Dispatchers \ {d} : proc'[e] = proc[e]
  BY UnusedType DEF Procs, Ends
<1> QED BY <1>1 DEF Procs, Placed, AtRun, AtItem

LEMMA Beginning ==
  ASSUME Procs, NEW d \in Dispatchers, NEW pc \in {"receive", "lookup", "admit"},
         NEW o \in Occasions, Begins(d, pc, o)
  PROVE  Procs'
<1>1. /\ proc' \in [Dispatchers -> ProcType] /\ proc'[d].pc = pc
      /\ \A e \in Dispatchers \ {d} : proc'[e] = proc[e]
  BY DEF Procs, Begins, Unused, ProcType
<1> QED BY <1>1 DEF Procs, Placed, AtRun, AtItem

LEMMA Returning ==
  ASSUME Procs, NEW d \in Dispatchers, NEW outcome \in Outcomes, Returns(d, outcome) PROVE Procs'
<1>1. Placed("finish", 0, 0, outcome) /\ "finish" \in Pcs /\ outcome \in Seen
  BY DEF Placed, AtRun, AtItem, Pcs, Seen, Outcomes
<1> QED BY <1>1, Going, Ending DEF Returns

LEMMA OutcomeType == ASSUME NEW d, NEW status PROVE Outcome(d, status) \in Outcomes \cap Seen
BY DEF Outcome, Outcomes, Seen

LEMMA GoingOn ==
  ASSUME Procs, run \in [Runs -> RunType], NEW d \in Dispatchers, NEW r \in Runs,
         GoesOnWith(d, r)
  PROVE  Procs'
<1>1. CASE Ends(d)
  BY <1>1, Ending
<1>2. CASE Ensured(d, r) /\ Goes(d, "ensure", r, run[r].link, Outcome(d, run[r].status))
  <2>1. run[r].link \in Work
    BY <1>2 DEF Ensured, RunType
  <2>2. Placed("ensure", r, run[r].link, Outcome(d, run[r].status)) /\ "ensure" \in Pcs
    BY <2>1, OutcomeType DEF Placed, Pcs, AtRun
  <2> QED BY <1>2, <2>1, <2>2, OutcomeType, Going
<1>3. CASE Returns(d, Outcome(d, run[r].status))
  BY <1>3, OutcomeType, Returning
<1>4. CASE \E pc \in {"repair", "recover", "dispatch"} : Goes(d, pc, r, 0, "none")
  <2>1. PICK pc \in {"repair", "recover", "dispatch"} : Goes(d, pc, r, 0, "none")
    BY <1>4
  <2>2. Placed(pc, r, 0, "none") /\ pc \in Pcs /\ "none" \in Seen
    BY DEF Placed, AtItem, Pcs, AtRun, Seen
  <2> QED BY <2>1, <2>2, Going
<1> QED BY <1>1, <1>2, <1>3, <1>4 DEF GoesOnWith

\* Steps to a place that needs nothing but the run.
LEMMA GoingToRun ==
  ASSUME Procs, NEW d \in Dispatchers,
         NEW pc \in {"repair", "recover", "dispatch", "failing"}, NEW r \in Runs,
         Goes(d, pc, r, 0, "none")
  PROVE  Procs'
<1>1. Placed(pc, r, 0, "none") /\ pc \in Pcs /\ "none" \in Seen
  BY DEF Placed, AtItem, Pcs, AtRun, Seen
<1> QED BY <1>1, Going

LEMMA GoingToAdmit ==
  ASSUME Procs, NEW d \in Dispatchers, NEW pc \in {"admit", "reserve"}, Goes(d, pc, 0, 0, "none")
  PROVE  Procs'
<1>1. Placed(pc, 0, 0, "none") /\ pc \in Pcs /\ "none" \in Seen
  BY DEF Placed, AtItem, AtRun, Pcs, Seen
<1> QED BY <1>1, Going

LEMMA GoingToItem ==
  ASSUME Procs, NEW d \in Dispatchers, NEW pc \in {"relink", "link", "enqueue"}, NEW r \in Runs,
         NEW w \in Work, NEW seen \in Seen, Goes(d, pc, r, w, seen)
  PROVE  Procs'
<1>1. Placed(pc, r, w, seen) /\ pc \in Pcs
  BY DEF Placed, AtItem, AtRun, Pcs
<1> QED BY <1>1, Going

LEMMA Breaking == ASSUME Procs, NEW d \in Dispatchers, Breaks(d) PROVE Procs'
<1>1. (IF Occ(d) \in Plans THEN "retry" ELSE "failed") \in Outcomes
  BY DEF Outcomes
<1> QED BY <1>1, Returning DEF Breaks

LEMMA DispatcherProcs == ASSUME IInv, NEW d \in Dispatchers, DispatchStep(d) PROVE Procs'
<1> USE DEF IInv
<1>1. Procs /\ run \in [Runs -> RunType] /\ work \in [Work -> WorkType]
  BY DEF Ledger, Items
<1>2. /\ proc[d].pc \in AtRun => Run(d) \in Runs
      /\ proc[d].pc \in AtItem => Item(d) \in Work
      /\ proc[d].pc = "resync" => proc[d].seen \in Finished
      /\ proc[d].pc \in {"finish", "ensure"} => proc[d].seen \in Outcomes
  BY DEF Procs, Placed, Run, Item
<1>3. {"done", "retry", "ignored", "failed"} = Outcomes /\ "none" \in Seen
  BY DEF Outcomes, Seen
<1>4. ASSUME LookUp(d) PROVE Procs'
  <2>1. CASE \E r \in Anchored(Occ(d)) : GoesOnWith(d, r)
    BY <1>1, <2>1, GoingOn DEF Anchored
  <2>2. CASE Goes(d, IF Ingress(d) THEN "reserve" ELSE "admit", 0, 0, "none")
    <3>1. (IF Ingress(d) THEN "reserve" ELSE "admit") \in {"admit", "reserve"}
      OBVIOUS
    <3> QED BY <1>1, <2>2, <3>1, GoingToAdmit
  <2>3. CASE Returns(d, "ignored") \/ Returns(d, "retry")
    BY <1>1, <1>3, <2>3, Returning
  <2> QED BY <1>4, <2>1, <2>2, <2>3 DEF LookUp
<1>5. ASSUME SkipAdmission(d) \/ RefuseRun(d) \/ AdmissionFails(d) PROVE Procs'
  BY <1>1, <1>3, <1>5, Returning DEF SkipAdmission, RefuseRun, AdmissionFails
<1>6. ASSUME ReserveRun(d) PROVE Procs'
  <2> DEFINE pc == IF Occ(d) \in Hooks /\ mode = "run_only" THEN "repair" ELSE "dispatch"
  <2>1. pc \in {"repair", "recover", "dispatch", "failing"}
    OBVIOUS
  <2>2. PICK r \in Runs : IF Ingress(d) THEN Ends(d) ELSE Goes(d, pc, r, 0, "none")
    BY <1>6 DEF ReserveRun
  <2> HIDE DEF pc
  <2> QED BY <1>1, <2>1, <2>2, GoingToRun, Ending
<1>7. ASSUME ReuseRun(d) PROVE Procs'
  <2>1. PICK r \in Keyed(Occ(d)) \cup Anchored(Occ(d)) :
          IF Occ(d) \in Hooks THEN GoesOnWith(d, r)
          ELSE Returns(d, IF r \in Keyed(Occ(d)) THEN "done" ELSE "retry")
    BY <1>7 DEF ReuseRun
  <2>2. r \in Runs /\ (IF r \in Keyed(Occ(d)) THEN "done" ELSE "retry") \in Outcomes
    BY <1>3 DEF Keyed, Anchored
  <2> QED BY <1>1, <2>1, <2>2, GoingOn, Returning
<1>8. ASSUME FindTask(d) PROVE Procs'
  <2>1. Run(d) \in Runs
    BY <1>2, <1>8 DEF FindTask, Doing, AtRun
  <2>2. CASE Goes(d, IF Occ(d) \in Plans THEN "recover" ELSE "dispatch", Run(d), 0, "none")
    <3>1. (IF Occ(d) \in Plans THEN "recover" ELSE "dispatch")
            \in {"repair", "recover", "dispatch", "failing"}
      OBVIOUS
    <3> QED BY <1>1, <2>1, <2>2, <3>1, GoingToRun
  <2>3. CASE \E w \in Tasks(Run(d)) : Goes(d, "relink", Run(d), w, work[w].status)
    <3>1. PICK w \in Work : Goes(d, "relink", Run(d), w, work[w].status)
      BY <2>3 DEF Tasks
    <3>2. work[w].status \in Seen
      BY <1>1 DEF WorkType, Seen
    <3> QED BY <1>1, <2>1, <3>1, <3>2, GoingToItem
  <2> QED BY <1>1, <1>8, <2>2, <2>3, Breaking DEF FindTask
<1>9. ASSUME Relink(d) PROVE Procs'
  <2>1. Run(d) \in Runs /\ Item(d) \in Work
    BY <1>2, <1>9 DEF Relink, Doing, AtRun, AtItem
  <2>2. CASE proc[d].seen \in Finished /\ Goes(d, "resync", Run(d), Item(d), proc[d].seen)
    <3>1. Placed("resync", Run(d), Item(d), proc[d].seen) /\ "resync" \in Pcs
      BY <2>1, <2>2 DEF Placed, Pcs, AtRun
    <3>2. proc[d].seen \in Seen
      BY <1>1 DEF Procs, ProcType, Seen
    <3> QED BY <1>1, <2>1, <2>2, <3>1, <3>2, Going
  <2> QED BY <1>1, <1>3, <1>9, <2>2, Returning, Breaking DEF Relink
<1>10. ASSUME Resync(d) PROVE Procs'
  BY <1>1, <1>3, <1>10, OutcomeType, Returning DEF Resync
<1>11. ASSUME Recover(d) PROVE Procs'
  BY <1>1, <1>3, <1>11, Returning, Breaking, GoingToAdmit DEF Recover
<1>12. ASSUME SkipDispatch(d) \/ LinkTask(d) PROVE Procs'
  BY <1>1, <1>3, <1>12, Returning DEF SkipDispatch, LinkTask
<1>13. ASSUME CreateTask(d) \/ CreateIssue(d) PROVE Procs'
  <2>1. Run(d) \in Runs
    BY <1>2, <1>13 DEF CreateTask, CreateIssue, Doing, AtRun
  <2> QED BY <1>1, <1>3, <1>13, <2>1, GoingToItem DEF CreateTask, CreateIssue
<1>14. ASSUME DispatchFails(d) PROVE Procs'
  <2>1. Run(d) \in Runs
    BY <1>2, <1>14 DEF DispatchFails, Doing, AtRun
  <2> QED BY <1>1, <1>14, <2>1, GoingToRun DEF DispatchFails
<1>15. ASSUME EnqueueIssueTask(d) PROVE Procs'
  <2>1. Run(d) \in Runs
    BY <1>2, <1>15 DEF EnqueueIssueTask, Doing, AtRun
  <2> QED BY <1>1, <1>3, <1>15, <2>1, GoingToRun, Returning DEF EnqueueIssueTask
<1>16. ASSUME FailRun(d) PROVE Procs'
  <2>1. (IF Occ(d) \in Plans THEN "retry" ELSE "failed") \in Outcomes
    BY <1>3
  <2> QED BY <1>1, <1>16, <2>1, Returning DEF FailRun
<1>17. ASSUME EnsureIssueTask(d) PROVE Procs'
  <2>1. proc[d].seen \in Outcomes
    BY <1>2, <1>17 DEF EnsureIssueTask, Doing
  <2> QED BY <1>1, <1>3, <1>17, <2>1, Returning, Breaking DEF EnsureIssueTask
<1>18. ASSUME FinishAttempt(d) PROVE Procs'
  BY <1>1, <1>18, Ending DEF FinishAttempt
<1> QED BY <1>4, <1>5, <1>6, <1>7, <1>8, <1>9, <1>10, <1>11, <1>12, <1>13, <1>14, <1>15, <1>16,
          <1>17, <1>18 DEF DispatchStep

LEMMA ProcSteps == ASSUME IInv, DispatchNext \/ UNCHANGED dispatchVars PROVE Procs'
<1>1. Procs
  BY DEF IInv
<1>2. ASSUME NEW d \in Dispatchers, DispatchStep(d) PROVE Procs'
  BY <1>2, DispatcherProcs
<1>3. ASSUME NEW d \in Dispatchers, Dies(d) PROVE Procs'
  BY <1>1, <1>3, Ending DEF Dies
<1>4. ASSUME NEW d \in Dispatchers,
             \/ \E h \in Hooks : ReceiveHook(d, h)
             \/ \E o \in Plans \cup Hooks : Take(d, o)
             \/ \E k \in Clicks : Click(d, k)
      PROVE  Procs'
  BY <1>1, <1>4, Beginning DEF ReceiveHook, Take, Click, Occasions
<1>5. ASSUME \/ \E o \in Plans \cup Hooks : LeaseRunsOut(o)
             \/ \E w \in Work : WorkStep(w)
             \/ \E r \in Runs : Reconcile(r)
             \/ UNCHANGED dispatchVars
      PROVE  Procs'
  <2>1. UNCHANGED proc
    BY <1>5 DEF LeaseRunsOut, WorkStep, WorkEnds, HearEnd, MissEnd, DeleteIssue, Reconcile,
                dispatchVars
  <2> QED BY <1>1, <2>1 DEF Procs
<1> QED BY <1>2, <1>3, <1>4, <1>5 DEF DispatchNext

-----------------------------------------------------------------------------
(* The callers, and what is left.                                             *)

LEMMA CallerFrame == ASSUME Callers, UNCHANGED callerVars PROVE Callers'
BY DEF Callers, callerVars

LEMMA FinishKeeps ==
  ASSUME Callers, NEW d \in Dispatchers, proc[d].seen \in Outcomes, FinishAttempt(d)
  PROVE  Callers'
<1>1. RowAfter(Occ(d), proc[d].seen) \in {"todo", "done", "failed", "ignored"}
  BY DEF RowAfter, Outcomes
<1>2. todo' = todo \/ todo' = [todo EXCEPT ![Occ(d)] = RowAfter(Occ(d), proc[d].seen)]
  BY DEF FinishAttempt
<1>3. tries' = tries \/ tries' = [tries EXCEPT ![Occ(d)] = @ + 1]
  BY DEF FinishAttempt
<1>4. owner' = owner \/ owner' = [owner EXCEPT ![Occ(d)] = Nobody]
  BY DEF FinishAttempt
<1>5. tries' \in [Occasions -> Nat]
  BY <1>3 DEF Callers
<1> QED BY <1>1, <1>2, <1>4, <1>5 DEF Callers, FinishAttempt

LEMMA CallerSteps == ASSUME IInv, DispatchNext \/ UNCHANGED dispatchVars PROVE Callers'
<1>1. Callers
  BY DEF IInv
<1>2. ASSUME NEW d \in Dispatchers, FinishAttempt(d) PROVE Callers'
  <2>1. proc[d].seen \in Outcomes
    BY <1>2 DEF FinishAttempt, Doing, IInv, Procs, Placed
  <2> QED BY <1>1, <1>2, <2>1, FinishKeeps
<1>3. ASSUME NEW d \in Dispatchers, RefuseRun(d) PROVE Callers'
  BY <1>1, <1>3 DEF RefuseRun, Callers
<1>4. ASSUME NEW d \in Dispatchers, DispatchStep(d), ~FinishAttempt(d), ~RefuseRun(d)
      PROVE  Callers'
  <2>1. UNCHANGED callerVars
    BY <1>4 DEF DispatchStep, LookUp, SkipAdmission, ReserveRun, ReuseRun, AdmissionFails,
                FindTask, Relink, Resync, Recover, SkipDispatch, CreateTask, CreateIssue,
                DispatchFails, LinkTask, EnqueueIssueTask, FailRun, EnsureIssueTask
  <2> QED BY <1>1, <2>1, CallerFrame
<1>5. ASSUME NEW d \in Dispatchers, Dies(d) PROVE Callers'
  BY <1>1, <1>5 DEF Dies, Callers
<1>6. ASSUME NEW d \in Dispatchers, NEW h \in Hooks, ReceiveHook(d, h) PROVE Callers'
  BY <1>1, <1>6 DEF ReceiveHook, Callers
<1>7. ASSUME NEW d \in Dispatchers, NEW o \in Plans \cup Hooks, Take(d, o) PROVE Callers'
  <2>1. owner' \in [Occasions -> Dispatchers \cup {Nobody}]
    BY <1>1, <1>7 DEF Take, Callers
  <2>2. tries' \in [Occasions -> Nat]
    BY <1>1, <1>7 DEF Take, Callers, Occasions
  <2> QED BY <1>1, <1>7, <2>1, <2>2 DEF Take, Callers
<1>8. ASSUME NEW d \in Dispatchers, NEW k \in Clicks, Click(d, k) PROVE Callers'
  BY <1>1, <1>8 DEF Click, Callers, Occasions
<1>9. ASSUME NEW o \in Plans \cup Hooks, LeaseRunsOut(o) PROVE Callers'
  BY <1>1, <1>9 DEF LeaseRunsOut, Callers
<1>10. ASSUME (\E w \in Work : WorkStep(w)) \/ (\E r \in Runs : Reconcile(r))
              \/ UNCHANGED dispatchVars
       PROVE  Callers'
  <2>1. UNCHANGED callerVars
    BY <1>10 DEF WorkStep, WorkEnds, HearEnd, MissEnd, DeleteIssue, Reconcile, dispatchVars
  <2> QED BY <1>1, <2>1, CallerFrame
<1> QED BY <1>2, <1>3, <1>4, <1>5, <1>6, <1>7, <1>8, <1>9, <1>10 DEF DispatchNext

LEMMA Accidents ==
  ASSUME accidents \in Nat, DispatchNext \/ UNCHANGED dispatchVars PROVE accidents' \in Nat
<1>1. Accident \/ NoAccident => accidents' \in Nat
  BY DEF Accident, NoAccident
<1>2. Accident \/ NoAccident
  <2>1. ASSUME NEW d \in Dispatchers, DispatchStep(d) PROVE Accident \/ NoAccident
    BY <2>1 DEF DispatchStep, LookUp, SkipAdmission, ReserveRun, ReuseRun, RefuseRun,
                AdmissionFails, FindTask, Relink, Resync, Recover, SkipDispatch, CreateTask,
                CreateIssue, DispatchFails, LinkTask, EnqueueIssueTask, FailRun, EnsureIssueTask,
                FinishAttempt, Breaks, NoAccident
  <2>2. ASSUME NEW w \in Work, WorkStep(w) PROVE Accident \/ NoAccident
    BY <2>2 DEF WorkStep, WorkEnds, HearEnd, MissEnd, DeleteIssue, NoAccident
  <2> QED BY <2>1, <2>2 DEF DispatchNext, Dies, ReceiveHook, Take, Click, LeaseRunsOut, Reconcile,
                           dispatchVars, NoAccident
<1> QED BY <1>1, <1>2

LEMMA RestSteps == ASSUME IInv, DispatchNext \/ UNCHANGED dispatchVars PROVE Rest'
<1>1. mode' = mode
  BY LimitStays DEF frozenVars
<1>2. accidents' \in Nat
  BY Accidents DEF IInv, Rest
<1>3. unheard' \subseteq Work
  <2>1. unheard \subseteq Work
    BY DEF IInv, Rest
  <2>2. ASSUME NEW d \in Dispatchers, Resync(d) PROVE unheard' \subseteq Work
    <3>1. Item(d) \in Work
      BY <2>2 DEF Resync, Doing, IInv, Procs, Placed, AtItem, Item
    <3> QED BY <2>1, <2>2, <3>1 DEF Resync
  <2>3. ASSUME NEW w \in Work, MissEnd(w) PROVE unheard' \subseteq Work
    BY <2>1, <2>3 DEF MissEnd
  <2>4. ASSUME NEW d \in Dispatchers, DispatchStep(d), ~Resync(d) PROVE unheard' \subseteq Work
    BY <2>1, <2>4 DEF DispatchStep, LookUp, SkipAdmission, ReserveRun, ReuseRun, RefuseRun,
                AdmissionFails, FindTask, Relink, Recover, SkipDispatch, CreateTask,
                CreateIssue, DispatchFails, LinkTask, EnqueueIssueTask, FailRun, EnsureIssueTask,
                FinishAttempt
  <2> QED BY <2>1, <2>2, <2>3, <2>4
       DEF DispatchNext, WorkStep, Dies, ReceiveHook, Take, Click, LeaseRunsOut, Reconcile,
           WorkEnds, HearEnd, DeleteIssue, dispatchVars
<1> QED BY <1>1, <1>2, <1>3 DEF IInv, Rest

LEMMA Inductive == ASSUME IInv, [DispatchNext]_dispatchVars PROVE IInv'
BY LedgerSteps, ItemSteps, ProcSteps, CallerSteps, RestSteps DEF IInv

-----------------------------------------------------------------------------

\* Every variable keeps its type, whatever retries, crashes and deletions do.
THEOREM DispatchTypeCorrect == DispatchSpec => []DispatchTypeOK
<1>1. DispatchSpec => []IInv
  BY InitHolds, Inductive, PTL DEF DispatchSpec
<1> QED BY <1>1, TypeFollows, PTL

\* The period's counters are its reservations, and never exceed the limit: no death,
\* retry, second end or deletion charges a run twice or loses the count.
THEOREM QuotaIsKept == DispatchSpec => []QuotaKept
<1>1. DispatchSpec => []IInv
  BY InitHolds, Inductive, PTL DEF DispatchSpec
<1>2. IInv => QuotaKept
  BY DEF IInv, Ledger, Counted
<1> QED BY <1>1, <1>2, PTL

-----------------------------------------------------------------------------
(* One item of work for an occasion, and what is charged for it.              *)

\* A worker, or a plan's handler: it has the lease, unless it outlived it.
Serves(d) == proc[d].pc \notin {"idle", "receive", "reserve"}
Leases ==
    /\ \A d \in Dispatchers : Serves(d) /\ Occ(d) \notin Clicks \cup overtaken => owner[Occ(d)] = d
    /\ \A h \in Hooks : todo[h] = "done" => owner[h] = Nobody
\* A click has no lease: its request dispatches the run it admitted itself.
OwnRuns ==
    \A d, e \in Dispatchers :
        /\ d # e /\ Occ(d) \in Clicks /\ Occ(e) = Occ(d)
        /\ proc[d].pc \in AtRun /\ proc[e].pc \in AtRun
        => Run(d) # Run(e)

Holds(r) == slot[r] \in {"reserved", "consumed"}
NoneLeft(r) == \A w \in Tasks(r) : work[w].status = "deleted"
BareFree(o) == \A w \in WorkOf(o) : work[w].status # "bare"

\* A run is let go of the index only by a plan, when nothing is left of its work; until
\* it has ended or is linked it holds its slot.
RunRow(r) ==
    /\ run[r].occ = NoOccasion <=> run[r].status = "none"
    /\ run[r].occ \in Hooks => run[r].anchored
    /\ run[r].occ \in Plans \ overtaken /\ ~run[r].anchored => NoneLeft(r)
    /\ slot[r] = "reserved" => run[r].status = "going"
    /\ Partial(r) /\ run[r].occ \notin overtaken => Holds(r)
    /\ run[r].link # 0 => work[run[r].link].run = r
OneRun ==
    \A q, r \in Runs :
        run[q].occ = run[r].occ => /\ run[q].anchored /\ run[r].anchored => q = r
                                   /\ Holds(q) /\ Holds(r) => q = r
\* An issue is charged and linked at once; a task is its run's only one, and charged when
\* its end is heard.
ItemOf(w, r) ==
    /\ mode = "create_issue" => /\ slot[r] = "consumed"
                                /\ work[w].status = "deleted" \/ run[r].link = w
    /\ mode = "run_only" => Tasks(r) = {w}
    /\ ~Holds(r) => work[w].status = "failed"
    /\ work[w].status = "completed" => slot[r] = "consumed" \/ w \in news \cup unheard
ItemRow(w) ==
    /\ work[w].status = "none" <=> work[w].run = 0
    /\ work[w].run # 0 => run[work[w].run].occ # NoOccasion
    /\ work[w].status \in {"bare", "deleted"} => mode = "create_issue"
    /\ work[w].run # 0 /\ run[work[w].run].occ \notin overtaken => ItemOf(w, work[w].run)
Rows == /\ \A r \in Runs : RunRow(r)
        /\ OneRun
        /\ \A w \in Work : ItemRow(w)

\* Who may be where, what it stands on, and what it found there.
Kind(d) ==
    /\ proc[d].pc # "idle" => Occ(d) \in Occasions
    /\ proc[d].pc \in {"receive", "reserve", "ensure"} => Occ(d) \in Hooks
    /\ proc[d].pc \in {"lookup", "finish"} => Occ(d) \notin Clicks
    /\ proc[d].pc = "recover" => Occ(d) \in Plans
    /\ proc[d].pc \in {"repair", "relink", "resync", "link"} => mode = "run_only"
    /\ proc[d].pc \in {"enqueue", "ensure"} => mode = "create_issue"
\* A delivery's run keeps the index, a plan's unless another attempt recovered it.
Indexed(o) == o \in Hooks \cup (Plans \ overtaken)
Stands(d) ==
    /\ proc[d].pc \in AtRun => /\ run[Run(d)].occ = Occ(d)
                               /\ Indexed(Occ(d)) => run[Run(d)].anchored
    /\ proc[d].pc \in AtItem => work[Item(d)].run = Run(d)
Found(d) ==
    /\ proc[d].pc = "dispatch" => NoneLeft(Run(d)) /\ Holds(Run(d))
    /\ proc[d].pc = "repair" /\ Tasks(Run(d)) = {} => Holds(Run(d))
    /\ proc[d].pc \in {"relink", "resync"} /\ proc[d].seen \in Finished
          => work[Item(d)].status = proc[d].seen
    /\ proc[d].pc = "failing" /\ mode = "run_only" => Tasks(Run(d)) = {}
    /\ proc[d].pc = "finish" /\ proc[d].seen = "done" /\ Occ(d) \in Hooks => BareFree(Occ(d))
Position(d) == Kind(d) /\ Stands(d) /\ (Occ(d) \notin overtaken => Found(d))

OnceInv ==
    /\ Leases /\ OwnRuns /\ Rows /\ DispatchedIsWorked
    /\ \A d \in Dispatchers : Position(d)

LEMMA Kinds ==
  /\ 0 \notin Runs /\ 0 \notin Work /\ NoOccasion \notin Occasions /\ Nobody \notin Dispatchers
  /\ Occasions = Plans \cup Hooks \cup Clicks
  /\ Plans \cap Hooks = {} /\ Plans \cap Clicks = {} /\ Hooks \cap Clicks = {}
BY DispatchAssumption DEF Runs, Work, Occasions

LEMMA OnceTypes ==
  ASSUME IInv
  PROVE  /\ run \in [Runs -> RunType] /\ work \in [Work -> WorkType]
         /\ slot \in [Runs -> {"none", "reserved", "consumed", "released"}]
         /\ proc \in [Dispatchers -> ProcType] /\ overtaken \subseteq Plans \cup Hooks
         /\ mode \in {"run_only", "create_issue"}
         /\ \A d \in Dispatchers : Placed(proc[d].pc, Run(d), Item(d), proc[d].seen)
         /\ \A w \in Work : work[w].run \in {0} \cup Runs
BY DEF IInv, Ledger, Counted, Items, Procs, Callers, Rest, WorkType, Run, Item

\* Two that stand on the run of an occasion nobody was overtaken at are one.
LEMMA Alone ==
  ASSUME IInv, OnceInv, NEW d \in Dispatchers, NEW e \in Dispatchers, proc[d].pc \in AtRun,
         proc[e].pc \in AtRun, Run(d) = Run(e), Occ(d) \notin overtaken
  PROVE  d = e
<1>1. Occ(d) = Occ(e) /\ Serves(d) /\ Serves(e)
  BY DEF OnceInv, Position, Stands, Serves, AtRun
<1> QED BY <1>1 DEF OnceInv, Leases, OwnRuns

\* The work of a plan or a delivery is that of its one run.
LEMMA WorkOfRun ==
  ASSUME IInv, OnceInv, NEW r \in Runs, run[r].occ \in Hooks, NEW w \in WorkOf(run[r].occ)
  PROVE  w \in Tasks(r) /\ work[w].status # "deleted"
<1>1. w \in Work /\ work[w].run \in Runs /\ run[work[w].run].occ = run[r].occ
      /\ work[w].status # "deleted"
  BY OnceTypes DEF WorkOf
<1>2. run[work[w].run].anchored /\ run[r].anchored
  BY <1>1 DEF OnceInv, Rows, RunRow
<1> QED BY <1>1, <1>2 DEF OnceInv, Rows, OneRun, Tasks

LEMMA OnceInitHolds == DispatchInit => OnceInv
<1> SUFFICES ASSUME DispatchInit PROVE OnceInv OBVIOUS
<1>1. /\ \A d \in Dispatchers : proc[d] = Unused /\ Unused.pc = "idle"
      /\ \A r \in Runs : run[r] = NoRun /\ slot[r] = "none"
      /\ \A w \in Work : work[w] = NoWork
      /\ \A o \in Occasions : todo[o] # "done"
      /\ NoRun.occ = NoOccasion /\ NoRun.status = "none" /\ NoRun.link = 0
      /\ NoRun.anchored = FALSE /\ NoWork.run = 0 /\ NoWork.status = "none"
  BY DEF DispatchInit, Unused, NoRun, NoWork
<1>2. Leases /\ OwnRuns /\ DispatchedIsWorked
  BY <1>1 DEF Leases, OwnRuns, DispatchedIsWorked, Worked, Serves, AtRun, Occasions
<1>3. Rows
  BY <1>1, Kinds DEF Rows, RunRow, OneRun, ItemRow, Partial, Holds, Occasions
<1>4. \A d \in Dispatchers : Position(d)
  BY <1>1 DEF Position, Kind, Stands, Found, AtRun, AtItem
<1> QED BY <1>2, <1>3, <1>4 DEF OnceInv

-----------------------------------------------------------------------------
(* What the steps do to the rows.                                             *)

\* What a dispatcher that stands on a run may rely on.
OccStays(q) == run'[q].occ = run[q].occ \/ run[q].occ = NoOccasion
Kept(q) ==
    /\ Holds(q) => Holds(q)' \/ ~NoneLeft(q)
    /\ Tasks(q)' = Tasks(q)
    /\ \A w \in Tasks(q) : \/ work'[w].status = work[w].status
                           \/ work[w].status \in {"bare", "live"}
                           \/ mode = "create_issue" /\ work'[w].status = "deleted"

LEMMA BareStays ==
  ASSUME IInv, Rows, NEW o \in Occasions, \A q \in Runs : OccStays(q),
         \A w \in Work : work'[w].run = work[w].run
                         /\ (work'[w].status = "bare" => work[w].status = "bare"),
         BareFree(o)
  PROVE  BareFree(o)'
<1> SUFFICES ASSUME NEW w \in WorkOf(o)', work'[w].status = "bare" PROVE FALSE
  BY DEF BareFree
<1>1. w \in Work /\ work[w].status = "bare" /\ work[w].run \in Runs /\ run'[work[w].run].occ = o
  BY OnceTypes DEF WorkOf
<1>2. run[work[w].run].occ = o
  BY <1>1, Kinds DEF OccStays, Rows, ItemRow
<1>3. w \in WorkOf(o)
  BY <1>1, <1>2, Kinds DEF WorkOf
<1> QED BY <1>1, <1>3 DEF BareFree

LEMMA RowsStay ==
  ASSUME IInv, Rows, UNCHANGED << mode, run, slot, work >>, overtaken \subseteq overtaken',
         mode = "run_only" => news \cup unheard \subseteq news' \cup unheard'
  PROVE  /\ Rows' /\ \A q \in Runs : Kept(q) /\ OccStays(q) /\ run'[q].anchored = run[q].anchored
         /\ \A o \in Occasions : BareFree(o) => BareFree(o)'
<1>1. \A q \in Runs : Tasks(q)' = Tasks(q) /\ (Holds(q)' <=> Holds(q))
                      /\ (NoneLeft(q)' <=> NoneLeft(q)) /\ (Partial(q)' <=> Partial(q))
  BY DEF Tasks, Holds, NoneLeft, Partial
<1>2. \A q \in Runs : RunRow(q)'
  BY <1>1 DEF Rows, RunRow
<1>3. OneRun'
  BY <1>1 DEF Rows, OneRun
<1>4. \A w \in Work : ItemRow(w)'
  <2>1. ASSUME NEW w \in Work, work[w].run # 0, run[work[w].run].occ \notin overtaken
        PROVE  ItemOf(w, work[w].run)'
    <3>1. ItemOf(w, work[w].run) /\ work[w].run \in Runs
      BY <2>1, OnceTypes DEF Rows, ItemRow
    <3>2. mode \in {"run_only", "create_issue"}
      BY OnceTypes
    <3> QED BY <1>1, <3>1, <3>2 DEF ItemOf
  <2> QED BY <2>1 DEF Rows, ItemRow
<1>5. \A q \in Runs : Kept(q) /\ OccStays(q)
  BY <1>1 DEF Kept, OccStays
<1>6. \A o \in Occasions : BareFree(o) => BareFree(o)'
  BY <1>5, BareStays
<1> QED BY <1>2, <1>3, <1>4, <1>5, <1>6 DEF Rows

\* A run ends, is recovered, or settles its slot.
LEMMA RowEnds ==
  ASSUME IInv, IInv', Rows, UNCHANGED << mode, work, overtaken >>, NEW r \in Runs,
         run[r].occ # NoOccasion,
         \A q \in Runs : /\ run'[q].occ = run[q].occ /\ run'[q].link = run[q].link
                         /\ q # r => run'[q] = run[q],
         run'[r].status \in Finished,
         \/ run'[r].anchored = run[r].anchored
         \/ run'[r].anchored = FALSE /\ run[r].occ \notin Hooks
            /\ (run[r].occ \in Plans \ overtaken => NoneLeft(r)),
         NEW state \in {"consumed", "released"}, SettleSlot(r, state),
         state = "released" /\ slot[r] = "reserved" /\ run[r].occ \notin overtaken
            => \A w \in Tasks(r) : work[w].status = "failed",
         \A w \in news \cup unheard : \/ w \in news' \cup unheard'
                                      \/ w \in Tasks(r) /\ work[w].status = "failed"
                                      \/ w \in Tasks(r) /\ state = "consumed"
  PROVE  /\ Rows' /\ \A q \in Runs \ {r} : Kept(q) /\ run'[q].anchored = run[q].anchored
         /\ \A q \in Runs : OccStays(q)
         /\ \A o \in Occasions : BareFree(o) => BareFree(o)'
<1>0. slot \in [Runs -> {"none", "reserved", "consumed", "released"}]
  BY OnceTypes
<1>1. \A q \in Runs : /\ Tasks(q)' = Tasks(q) /\ (NoneLeft(q)' <=> NoneLeft(q))
                      /\ slot[q] = "consumed" => slot'[q] = "consumed"
                      /\ q # r => slot'[q] = slot[q]
                      /\ Holds(q)' => Holds(q)
  BY <1>0 DEF Tasks, NoneLeft, SettleSlot, quotaVars, Holds
<1>2. /\ slot'[r] # "reserved"
      /\ slot'[r] = slot[r] \/ (slot[r] = "reserved" /\ slot'[r] = state)
  BY <1>0 DEF SettleSlot, quotaVars
<1>3. \A q \in Runs : RunRow(q)'
  <2>1. ASSUME NEW q \in Runs, q # r PROVE RunRow(q)'
    BY <1>1, <2>1 DEF Rows, RunRow, Partial, Holds
  <2>2. RunRow(r)'
    <3>1. RunRow(r) /\ run'[r].status # "none" /\ run'[r].status # "going"
      BY DEF Rows, Finished
    <3>2. ~Partial(r)' /\ run'[r].occ = run[r].occ
      BY <3>1 DEF Partial
    <3>3. run'[r].anchored \in BOOLEAN /\ run[r].anchored \in BOOLEAN
      BY OnceTypes DEF IInv, Ledger, RunType
    <3>4. run'[r].occ \in Hooks => run'[r].anchored
      BY <3>1, <3>2 DEF RunRow
    <3>5. run'[r].occ \in Plans \ overtaken' /\ ~run'[r].anchored => NoneLeft(r)'
      BY <1>1, <3>1, <3>2 DEF RunRow
    <3> QED BY <1>2, <3>1, <3>2, <3>4, <3>5 DEF RunRow
  <2> QED BY <2>1, <2>2
<1>4. OneRun'
  <2>1. \A q \in Runs : run'[q].anchored => run[q].anchored
    BY DEF OccStays
  <2> QED BY <1>1, <2>1 DEF Rows, OneRun
<1>5. \A w \in Work : ItemRow(w)'
  <2>1. ASSUME NEW w \in Work, work[w].run # 0, run[work[w].run].occ \notin overtaken
        PROVE  ItemOf(w, work[w].run)'
    <3>1. ItemOf(w, work[w].run) /\ work[w].run \in Runs /\ w \in Tasks(work[w].run)
      BY <2>1, OnceTypes DEF Rows, ItemRow, Tasks
    <3>2. CASE work[w].run # r
      <4>1. w \in news \cup unheard => w \in news' \cup unheard'
        BY <3>2 DEF Tasks
      <4> QED BY <1>1, <3>1, <3>2, <4>1 DEF ItemOf, Holds
    <3>3. CASE work[w].run = r
      <4>1. mode = "create_issue" => /\ slot'[r] = "consumed"
                                     /\ work[w].status = "deleted" \/ run'[r].link = w
        BY <1>1, <3>1, <3>3 DEF ItemOf
      <4>2. ~Holds(r)' => work[w].status = "failed"
        <5>1. CASE slot'[r] = slot[r]
          BY <3>1, <3>3, <5>1 DEF ItemOf, Holds
        <5>2. CASE slot[r] = "reserved" /\ slot'[r] = state
          BY <2>1, <3>1, <3>3, <5>2 DEF Holds
        <5> QED BY <1>2, <5>1, <5>2
      <4>3. work[w].status = "completed" => slot'[r] = "consumed" \/ w \in news' \cup unheard'
        <5>1. CASE slot[r] = "consumed"
          BY <1>1, <5>1
        <5>2. ASSUME slot[r] # "consumed", work[w].status = "completed" PROVE slot[r] = "reserved"
          BY <1>0, <3>1, <3>3, <5>2 DEF ItemOf, Holds
        <5>3. ASSUME slot[r] = "reserved", work[w].status = "completed"
              PROVE  slot'[r] = "consumed" \/ w \in news' \cup unheard'
          BY <1>0, <1>2, <2>1, <3>1, <3>3, <5>3 DEF ItemOf, SettleSlot
        <5> QED BY <5>1, <5>2, <5>3
      <4> QED BY <1>1, <3>1, <3>3, <4>1, <4>2, <4>3 DEF ItemOf
    <3> QED BY <3>2, <3>3
  <2> QED BY <2>1, OnceTypes DEF Rows, ItemRow
<1>6. \A q \in Runs : OccStays(q) /\ (q # r => Kept(q))
  BY <1>1 DEF Kept, OccStays, Holds
<1>7. \A o \in Occasions : BareFree(o) => BareFree(o)'
  BY <1>6, BareStays
<1> QED BY <1>3, <1>4, <1>5, <1>6, <1>7 DEF Rows

\* A task is linked to its run.
LEMMA RowLinks ==
  ASSUME IInv, IInv', Rows, UNCHANGED << mode, slot, work, news, unheard, overtaken >>,
         NEW r \in Runs, NEW w \in Work, run[r].occ # NoOccasion, mode = "run_only",
         work[w].run = r, Linked(r, w)
  PROVE  /\ Rows' /\ \A q \in Runs : Kept(q) /\ OccStays(q) /\ run'[q].anchored = run[q].anchored
<1>1. /\ run'[r].status = "going" /\ run'[r].link = w
      /\ \A q \in Runs : /\ run'[q].occ = run[q].occ /\ run'[q].anchored = run[q].anchored
                         /\ q # r => run'[q] = run[q]
  BY OnceTypes DEF Linked, RunType
<1>2. \A q \in Runs : Tasks(q)' = Tasks(q) /\ (Holds(q)' <=> Holds(q))
                      /\ (NoneLeft(q)' <=> NoneLeft(q))
  BY DEF Tasks, Holds, NoneLeft
<1>3. \A q \in Runs : RunRow(q)'
  <2>1. ASSUME NEW q \in Runs, q # r PROVE RunRow(q)'
    BY <1>1, <1>2, <2>1 DEF Rows, RunRow, Partial
  <2>2. RunRow(r)'
    <3>1. RunRow(r) /\ ~Partial(r)'
      BY <1>1, Kinds DEF Rows, Partial
    <3> QED BY <1>1, <1>2, <3>1 DEF RunRow
  <2> QED BY <2>1, <2>2
<1>4. OneRun'
  BY <1>1, <1>2 DEF Rows, OneRun
<1>5. \A v \in Work : ItemRow(v)'
  <2>1. ASSUME NEW v \in Work, work[v].run # 0, run[work[v].run].occ \notin overtaken
        PROVE  ItemOf(v, work[v].run)'
    <3>1. ItemOf(v, work[v].run) /\ work[v].run \in Runs
      BY <2>1, OnceTypes DEF Rows, ItemRow
    <3> QED BY <1>2, <3>1 DEF ItemOf
  <2> QED BY <1>1, <2>1, OnceTypes DEF Rows, ItemRow
<1>6. \A q \in Runs : Kept(q) /\ OccStays(q)
  BY <1>1, <1>2 DEF Kept, OccStays
<1> QED BY <1>1, <1>3, <1>4, <1>5, <1>6 DEF Rows

\* A run is admitted: skipped, or with a slot reserved.
LEMMA RowBegins ==
  ASSUME IInv, IInv', Rows, UNCHANGED << mode, work, news, unheard, overtaken >>,
         NEW d \in Dispatchers, Occ(d) \in Occasions, Anchored(Occ(d)) = {},
         NEW r \in Runs, NEW status \in {"skipped", "going"}, Inserted(r, d, status),
         \/ status = "skipped" /\ slot' = slot
         \/ status = "going" /\ slot' = [slot EXCEPT ![r] = "reserved"] /\ Keyed(Occ(d)) = {}
  PROVE  /\ Rows'
         /\ \A q \in Runs : Kept(q) /\ OccStays(q) /\ (run[q].anchored => run'[q].anchored)
         /\ \A o \in Occasions : BareFree(o) => BareFree(o)'
         /\ run'[r].occ = Occ(d) /\ (Indexed(Occ(d)) => run'[r].anchored)
         /\ Tasks(r)' = {} /\ run[r].occ = NoOccasion
         /\ status = "going" => Holds(r)'
<1>1. /\ run'[r].occ = Occ(d) /\ run'[r].status = status /\ run'[r].link = 0
      /\ run'[r].anchored = (Occ(d) \notin Clicks)
      /\ run[r].occ = NoOccasion /\ run[r].status = "none" /\ run[r].anchored = FALSE
      /\ \A q \in Runs \ {r} : run'[q] = run[q]
  BY OnceTypes DEF Inserted, NextRun, NoRun
<1>2. /\ \A q \in Runs \ {r} : slot'[q] = slot[q]
      /\ slot[r] = "none" /\ slot'[r] = IF status = "going" THEN "reserved" ELSE "none"
  BY <1>1, OnceTypes DEF IInv, Ledger, Fresh
<1>3. \A q \in Runs : Tasks(q)' = Tasks(q) /\ (q # r => (Holds(q)' <=> Holds(q)))
                      /\ (NoneLeft(q)' <=> NoneLeft(q))
  BY <1>2 DEF Tasks, Holds, NoneLeft
<1>4. Tasks(r) = {}
  BY <1>1, Kinds DEF Tasks, Rows, ItemRow
<1>5. \A q \in Runs : RunRow(q)'
  <2>1. ASSUME NEW q \in Runs, q # r PROVE RunRow(q)'
    BY <1>1, <1>2, <1>3, <2>1 DEF Rows, RunRow, Partial
  <2>2. RunRow(r)'
    BY <1>1, <1>2, Kinds DEF RunRow, Partial, Holds
  <2> QED BY <2>1, <2>2
<1>6. OneRun'
  <2>1. ASSUME NEW q \in Runs, q # r, run[q].occ = Occ(d)
        PROVE  ~run[q].anchored /\ (status = "going" => ~Holds(q))
    BY <2>1 DEF Anchored, Keyed, Holds
  <2>2. status # "going" => ~Holds(r)'
    BY <1>2 DEF Holds
  <2>3. ASSUME NEW q \in Runs, NEW p \in Runs, q # r, p # r, run'[q].occ = run'[p].occ
        PROVE  /\ run'[q].anchored /\ run'[p].anchored => q = p
               /\ Holds(q)' /\ Holds(p)' => q = p
    BY <1>1, <1>3, <2>3 DEF Rows, OneRun
  <2>4. ASSUME NEW q \in Runs, q # r, run'[q].occ = run'[r].occ
        PROVE  ~run'[q].anchored /\ ~(Holds(q)' /\ Holds(r)')
    BY <1>1, <1>3, <2>1, <2>2, <2>4
  <2> QED BY <2>3, <2>4 DEF OneRun
<1>7. \A v \in Work : ItemRow(v)'
  <2>1. ASSUME NEW v \in Work, work[v].run # 0
        PROVE  /\ work[v].run \in Runs \ {r}
               /\ run[work[v].run].occ \notin overtaken => ItemOf(v, work[v].run)'
    <3>1. work[v].run \in Runs \ {r}
      BY <1>4, <2>1, OnceTypes DEF Tasks
    <3>2. run[work[v].run].occ \notin overtaken => ItemOf(v, work[v].run)
      BY <2>1 DEF Rows, ItemRow
    <3> QED BY <1>1, <1>2, <1>3, <3>1, <3>2 DEF ItemOf
  <2> QED BY <1>1, <2>1 DEF Rows, ItemRow
<1>8. \A q \in Runs : Kept(q) /\ OccStays(q) /\ (run[q].anchored => run'[q].anchored)
  BY <1>1, <1>2, <1>3 DEF Kept, OccStays, Holds
<1>9. \A o \in Occasions : BareFree(o) => BareFree(o)'
  BY <1>8, BareStays
<1>10. status = "going" => Holds(r)'
  BY <1>2 DEF Holds
<1>11. Indexed(Occ(d)) => run'[r].anchored
  BY <1>1, Kinds DEF Indexed
<1> QED BY <1>1, <1>3, <1>4, <1>5, <1>6, <1>7, <1>8, <1>9, <1>10, <1>11 DEF Rows

\* What an item's new status leaves of the rows.
LEMMA ItemMoves ==
  ASSUME IInv, IInv', Rows, UNCHANGED << mode, run, slot, overtaken >>,
         NEW w \in Work, NEW status \in {"live", "completed", "failed"},
         work[w].status \in {"bare", "live"}, work' = [work EXCEPT ![w].status = status],
         news \cup unheard \subseteq news' \cup unheard',
         status \in {"completed", "failed"} => w \in news'
  PROVE  /\ Rows' /\ \A q \in Runs : Kept(q) /\ OccStays(q) /\ run'[q].anchored = run[q].anchored
         /\ \A o \in Occasions : BareFree(o) => BareFree(o)'
<1>1. /\ work'[w].status = status /\ \A v \in Work : work'[v].run = work[v].run
      /\ \A v \in Work \ {w} : work'[v].status = work[v].status
  BY OnceTypes DEF WorkType
<1>2. \A q \in Runs : Tasks(q)' = Tasks(q) /\ (Holds(q)' <=> Holds(q))
                      /\ (NoneLeft(q)' <=> NoneLeft(q)) /\ (Partial(q)' <=> Partial(q))
  BY <1>1 DEF Tasks, Holds, NoneLeft, Partial
<1>3. \A q \in Runs : RunRow(q)'
  <2>1. ASSUME NEW q \in Runs, run[q].link # 0 PROVE run[q].link \in Work
    BY <2>1, OnceTypes DEF RunType
  <2> QED BY <1>1, <1>2, <2>1 DEF Rows, RunRow
<1>4. OneRun'
  BY <1>2 DEF Rows, OneRun
<1>5. \A v \in Work : ItemRow(v)'
  <2>1. ASSUME NEW v \in Work, work[v].run # 0, run[work[v].run].occ \notin overtaken
        PROVE  ItemOf(v, work[v].run)'
    <3>1. ItemOf(v, work[v].run) /\ work[v].run \in Runs
      BY <2>1, OnceTypes DEF Rows, ItemRow
    <3>2. CASE v = w
      BY <1>1, <1>2, <3>1, <3>2 DEF ItemOf, Holds
    <3>3. CASE v # w
      BY <1>1, <1>2, <3>1, <3>3 DEF ItemOf, Holds
    <3> QED BY <3>2, <3>3
  <2> QED BY <1>1, <2>1, OnceTypes DEF Rows, ItemRow
<1>6. \A q \in Runs : Kept(q) /\ OccStays(q)
  BY <1>1, <1>2 DEF Kept, OccStays
<1>7. \A o \in Occasions : BareFree(o) => BareFree(o)'
  BY <1>1, <1>6, BareStays
<1> QED BY <1>3, <1>4, <1>5, <1>6, <1>7 DEF Rows

LEMMA ItemCreated ==
  ASSUME IInv, Rows, NEW d \in Dispatchers, Run(d) \in Runs, NEW w \in Work,
         NEW status \in {"live", "bare"}, Created(w, d, status)
  PROVE  /\ work'[w].run = Run(d) /\ work'[w].status = status
         /\ work[w].run = 0 /\ work[w].status = "none"
         /\ \A v \in Work \ {w} : work'[v] = work[v]
         /\ \A q \in Runs : Tasks(q)' = IF q = Run(d) THEN Tasks(q) \cup {w} ELSE Tasks(q)
         /\ \A q \in Runs : w \notin Tasks(q)
<1>1. /\ work'[w].run = Run(d) /\ work'[w].status = status
      /\ work[w].run = 0 /\ work[w].status = "none"
      /\ \A v \in Work \ {w} : work'[v] = work[v]
  BY OnceTypes DEF Created, NextWork, NoWork
<1>2. ASSUME NEW q \in Runs PROVE w \notin Tasks(q)
  BY <1>1, Kinds DEF Tasks
<1>3. ASSUME NEW q \in Runs
      PROVE  Tasks(q)' = IF q = Run(d) THEN Tasks(q) \cup {w} ELSE Tasks(q)
  BY <1>1, Kinds DEF Tasks
<1> QED BY <1>1, <1>2, <1>3

LEMMA RowTask ==
  ASSUME IInv, IInv', Rows, UNCHANGED << mode, run, slot, news, unheard, overtaken >>,
         NEW d \in Dispatchers, NEW r \in Runs, r = Run(d), NEW w \in Work, Created(w, d, "live"),
         mode = "run_only", run[r].occ # NoOccasion,
         run[r].occ \in Plans \ overtaken => run[r].anchored,
         run[r].occ \notin overtaken => NoneLeft(r) /\ Holds(r)
  PROVE  /\ Rows' /\ \A q \in Runs \ {r} : Kept(q)
         /\ \A q \in Runs : OccStays(q) /\ run'[q].anchored = run[q].anchored
         /\ work'[w].run = r
         /\ \A o \in Occasions : BareFree(o)'
<1>1. /\ work'[w].run = r /\ work'[w].status = "live"
      /\ work[w].run = 0 /\ work[w].status = "none"
      /\ \A v \in Work \ {w} : work'[v] = work[v]
      /\ \A q \in Runs : Tasks(q)' = IF q = r THEN Tasks(q) \cup {w} ELSE Tasks(q)
      /\ \A q \in Runs : w \notin Tasks(q)
  BY ItemCreated
<1>2. \A v \in Work : work[v].status \notin {"bare", "deleted"}
  BY DEF Rows, ItemRow
<1>3. \A q \in Runs : /\ Holds(q)' <=> Holds(q)
                      /\ Partial(q)' <=> Partial(q)
                      /\ q # r => (NoneLeft(q)' <=> NoneLeft(q))
  <2>1. ASSUME NEW q \in Runs, q # r PROVE NoneLeft(q)' <=> NoneLeft(q)
    BY <1>1, <2>1 DEF NoneLeft, Tasks
  <2> QED BY <2>1 DEF Holds, Partial
<1>4. \A q \in Runs : RunRow(q)'
  <2>1. ASSUME NEW q \in Runs, run[q].link # 0 PROVE run[q].link \in Work /\ run[q].link # w
    BY <1>1, <2>1, Kinds, OnceTypes DEF RunType, Rows, RunRow
  <2> QED BY <1>1, <1>3, <2>1 DEF Rows, RunRow
<1>5. OneRun'
  BY <1>3 DEF Rows, OneRun
<1>6. run[r].occ \notin overtaken => Tasks(r) = {}
  BY <1>2 DEF NoneLeft, Tasks
<1>7. \A v \in Work : ItemRow(v)'
  <2>1. ItemRow(w)'
    BY <1>1, <1>3, <1>6, Kinds DEF ItemRow, ItemOf
  <2>2. ASSUME NEW v \in Work \ {w} PROVE ItemRow(v)'
    <3>1. ASSUME work[v].run # 0, run[work[v].run].occ \notin overtaken
          PROVE  ItemOf(v, work[v].run)'
      <4>1. ItemOf(v, work[v].run) /\ work[v].run \in Runs
        BY <2>2, <3>1, OnceTypes DEF Rows, ItemRow
      <4>2. work[v].run # r
        BY <1>6, <3>1 DEF Tasks
      <4> QED BY <1>1, <1>3, <4>1, <4>2 DEF ItemOf
    <3> QED BY <1>1, <2>2, <3>1 DEF Rows, ItemRow
  <2> QED BY <2>1, <2>2
<1>8. \A q \in Runs \ {r} : Kept(q)
  BY <1>1, <1>3 DEF Kept, Tasks
<1>9. \A v \in Work : work'[v].status # "bare"
  BY <1>1, <1>2
<1> QED BY <1>1, <1>4, <1>5, <1>7, <1>8, <1>9 DEF Rows, OccStays, BareFree, WorkOf

LEMMA RowIssue ==
  ASSUME IInv, IInv', Rows, UNCHANGED << mode, news, unheard, overtaken >>,
         NEW d \in Dispatchers, NEW r \in Runs, r = Run(d), NEW w \in Work, Created(w, d, "bare"),
         Linked(r, w), SettleSlot(r, "consumed"),
         mode = "create_issue", run[r].occ # NoOccasion,
         run[r].occ \in Plans \ overtaken => run[r].anchored,
         run[r].occ \notin overtaken => NoneLeft(r) /\ Holds(r)
  PROVE  /\ Rows' /\ \A q \in Runs \ {r} : Kept(q)
         /\ \A q \in Runs : OccStays(q) /\ run'[q].anchored = run[q].anchored
         /\ work'[w].run = r
         /\ \A o \in Occasions : o # run[r].occ /\ BareFree(o) => BareFree(o)'
<1>1. /\ work'[w].run = r /\ work'[w].status = "bare"
      /\ work[w].run = 0 /\ work[w].status = "none"
      /\ \A v \in Work \ {w} : work'[v] = work[v]
      /\ \A q \in Runs : Tasks(q)' = IF q = r THEN Tasks(q) \cup {w} ELSE Tasks(q)
      /\ \A q \in Runs : w \notin Tasks(q)
  BY ItemCreated
<1>2. /\ run'[r].status = "going" /\ run'[r].link = w
      /\ \A q \in Runs : /\ run'[q].occ = run[q].occ /\ run'[q].anchored = run[q].anchored
                         /\ q # r => run'[q] = run[q]
  BY OnceTypes DEF Linked, RunType
<1>3. /\ slot'[r] # "reserved" /\ (Holds(r)' <=> Holds(r))
      /\ Holds(r) => slot'[r] = "consumed"
      /\ \A q \in Runs \ {r} : slot'[q] = slot[q]
  BY OnceTypes DEF SettleSlot, quotaVars, Holds
<1>4. \A q \in Runs : /\ Holds(q)' <=> Holds(q)
                      /\ q # r => (Partial(q)' <=> Partial(q)) /\ (NoneLeft(q)' <=> NoneLeft(q))
  <2>1. ASSUME NEW q \in Runs, q # r PROVE NoneLeft(q)' <=> NoneLeft(q)
    BY <1>1, <2>1 DEF NoneLeft, Tasks
  <2> QED BY <1>2, <1>3, <2>1 DEF Holds, Partial
<1>5. \A q \in Runs : RunRow(q)'
  <2>1. ASSUME NEW q \in Runs, q # r PROVE RunRow(q)'
    <3>1. run[q].link # 0 => run[q].link \in Work /\ run[q].link # w
      BY <1>1, Kinds, OnceTypes DEF RunType, Rows, RunRow
    <3> QED BY <1>1, <1>2, <1>3, <1>4, <2>1, <3>1 DEF Rows, RunRow
  <2>2. RunRow(r)'
    <3>1. RunRow(r) /\ ~Partial(r)'
      BY <1>2, Kinds DEF Rows, Partial
    <3> QED BY <1>1, <1>2, <1>3, <3>1 DEF RunRow
  <2> QED BY <2>1, <2>2
<1>6. OneRun'
  BY <1>2, <1>4 DEF Rows, OneRun
<1>7. \A v \in Work : ItemRow(v)'
  <2>1. ItemRow(w)'
    <3>1. run[r].occ \notin overtaken => slot'[r] = "consumed" /\ Holds(r)'
      BY <1>3
    <3> QED BY <1>1, <1>2, <3>1, Kinds DEF ItemRow, ItemOf
  <2>2. ASSUME NEW v \in Work \ {w} PROVE ItemRow(v)'
    <3>1. ASSUME work[v].run # 0, run[work[v].run].occ \notin overtaken
          PROVE  ItemOf(v, work[v].run)'
      <4>1. ItemOf(v, work[v].run) /\ work[v].run \in Runs
        BY <2>2, <3>1, OnceTypes DEF Rows, ItemRow
      <4>2. CASE work[v].run # r
        BY <1>1, <1>2, <1>3, <1>4, <4>1, <4>2 DEF ItemOf
      <4>3. CASE work[v].run = r
        <5>1. work[v].status = "deleted" /\ Holds(r)' /\ slot'[r] = "consumed"
          BY <1>3, <3>1, <4>3 DEF NoneLeft, Tasks
        <5> QED BY <1>1, <4>3, <5>1 DEF ItemOf
      <4> QED BY <4>2, <4>3
    <3> QED BY <1>1, <1>2, <2>2, <3>1, OnceTypes DEF Rows, ItemRow
  <2> QED BY <2>1, <2>2
<1>8. \A q \in Runs \ {r} : Kept(q)
  BY <1>1, <1>4 DEF Kept, Tasks
<1>9. ASSUME NEW o \in Occasions, o # run[r].occ, BareFree(o) PROVE BareFree(o)'
  <2>1. ASSUME NEW v \in WorkOf(o)' PROVE v \in WorkOf(o) /\ work'[v] = work[v]
    <3>1. v \in Work \ {w} /\ work'[v] = work[v]
      BY <1>1, <1>2, <1>9, <2>1 DEF WorkOf
    <3> QED BY <1>2, <2>1, <3>1, OnceTypes, Kinds DEF WorkOf
  <2> QED BY <1>9, <2>1 DEF BareFree
<1> QED BY <1>1, <1>2, <1>5, <1>6, <1>7, <1>8, <1>9 DEF Rows, OccStays

LEMMA IssueDeleted ==
  ASSUME IInv, IInv', Rows, UNCHANGED << mode, overtaken >>, NEW w \in Work, DeleteIssue(w),
         NEW r \in Runs, work[w].run = r
  PROVE  /\ Rows' /\ \A q \in Runs : Kept(q) /\ OccStays(q) /\ run'[q].anchored = run[q].anchored
         /\ \A o \in Occasions : BareFree(o) => BareFree(o)'
<1>1. /\ mode = "create_issue" /\ work[w].status \notin {"none", "deleted"} /\ r \in Runs
      /\ work' = [work EXCEPT ![w].status = "deleted"] /\ news' = news \ {w} /\ unheard' = unheard
  BY OnceTypes DEF DeleteIssue, Rows, ItemRow
<1>2. /\ work'[w].status = "deleted" /\ \A v \in Work : work'[v].run = work[v].run
      /\ \A v \in Work \ {w} : work'[v].status = work[v].status
  BY <1>1, OnceTypes DEF WorkType
<1>3. /\ \A q \in Runs : /\ run'[q].occ = run[q].occ /\ run'[q].anchored = run[q].anchored
                         /\ q # r => run'[q] = run[q] /\ slot'[q] = slot[q]
      /\ run'[r].link = IF run[r].link = w THEN 0 ELSE run[r].link
      /\ slot[r] = "consumed" => slot'[r] = "consumed"
      /\ slot'[r] = slot[r] \/ slot'[r] = "released"
      /\ \/ run'[r].status = "failed" /\ slot'[r] # "reserved" /\ run[r].status = "going"
         \/ run'[r].status = run[r].status /\ slot'[r] = slot[r]
  <2>1. run \in [Runs -> RunType] /\ slot \in [Runs -> {"none", "reserved", "consumed", "released"}]
    BY OnceTypes
  <2>2. CASE /\ run[r].link = w /\ run[r].status = "going"
             /\ run' = [run EXCEPT ![r].status = "failed", ![r].link = 0]
             /\ SettleSlot(r, "released")
    BY <1>1, <2>1, <2>2 DEF RunType, SettleSlot, quotaVars
  <2>3. CASE /\ run' = IF run[r].link = w THEN [run EXCEPT ![r].link = 0] ELSE run
             /\ UNCHANGED quotaVars
    BY <1>1, <2>1, <2>3 DEF RunType, quotaVars
  <2> QED BY <2>2, <2>3 DEF DeleteIssue
<1>4. \A q \in Runs : Tasks(q)' = Tasks(q) /\ (NoneLeft(q) => NoneLeft(q)')
  BY <1>2 DEF Tasks, NoneLeft
<1>5. \A q \in Runs : q # r => (Holds(q)' <=> Holds(q)) /\ (Partial(q)' <=> Partial(q))
  BY <1>3 DEF Holds, Partial
<1>6. run[r].occ # NoOccasion /\ (run[r].occ \notin overtaken => ItemOf(w, r))
  BY <1>1, Kinds DEF Rows, ItemRow
<1>7. \A q \in Runs : RunRow(q)'
  <2>0. \A q \in Runs : run[q].link # 0 => run[q].link \in Work
    BY OnceTypes DEF RunType
  <2>1. ASSUME NEW q \in Runs, q # r PROVE RunRow(q)'
    <3>1. RunRow(q) /\ run'[q] = run[q] /\ slot'[q] = slot[q]
      BY <1>3, <2>1 DEF Rows
    <3> QED BY <1>2, <1>4, <1>5, <2>0, <2>1, <3>1 DEF RunRow
  <2>2. RunRow(r)'
    <3>1. RunRow(r)
      BY <1>1 DEF Rows
    <3>2. Partial(r)' /\ run[r].occ \notin overtaken => Holds(r)'
      <4>1. ASSUME run'[r].status = "going", run[r].occ \notin overtaken PROVE slot[r] = "consumed"
        BY <1>1, <1>6, <4>1 DEF ItemOf
      <4> QED BY <1>2, <1>3, <4>1 DEF Partial, Holds
    <3>4. run'[r].link # 0 => run[r].link # 0 /\ run'[r].link = run[r].link
      BY <1>3
    <3> QED BY <1>1, <1>2, <1>3, <1>4, <2>0, <3>1, <3>2, <3>4 DEF RunRow
  <2> QED BY <2>1, <2>2
<1>8. \A q \in Runs : Holds(q)' => Holds(q) \/ slot'[q] = "released"
  BY <1>3, OnceTypes DEF Holds
<1>9. OneRun'
  <2>1. \A q \in Runs : Holds(q)' => Holds(q)
    BY <1>8 DEF Holds
  <2> QED BY <1>3, <2>1 DEF Rows, OneRun
<1>10. \A v \in Work : ItemRow(v)'
  <2>1. ASSUME NEW v \in Work, work[v].run # 0, run[work[v].run].occ \notin overtaken
        PROVE  ItemOf(v, work[v].run)'
    <3>1. ItemOf(v, work[v].run) /\ work[v].run \in Runs
      BY <2>1, OnceTypes DEF Rows, ItemRow
    <3>2. slot'[work[v].run] = "consumed" /\ (work'[v].status = "deleted" \/ run'[work[v].run].link = v)
      BY <1>1, <1>2, <1>3, <3>1 DEF ItemOf
    <3>3. work'[v].run = work[v].run
      BY <1>2
    <3> QED BY <1>1, <3>2, <3>3 DEF ItemOf, Holds
  <2>2. \A v \in Work : work[v].status # "none" <=> work'[v].status # "none"
    BY <1>1, <1>2
  <2>3. \A v \in Work : work[v].run # 0 => run'[work[v].run].occ = run[work[v].run].occ
    BY <1>3, OnceTypes
  <2> QED BY <1>1, <1>2, <2>1, <2>2, <2>3 DEF Rows, ItemRow
<1>11. \A q \in Runs : Kept(q) /\ OccStays(q)
  <2>1. ~NoneLeft(r)
    BY <1>1 DEF NoneLeft, Tasks
  <2> QED BY <1>1, <1>2, <1>3, <1>4, <1>5, <2>1 DEF Kept, OccStays
<1>12. \A o \in Occasions : BareFree(o) => BareFree(o)'
  BY <1>2, <1>11, BareStays
<1> QED BY <1>3, <1>7, <1>9, <1>10, <1>11, <1>12 DEF Rows

-----------------------------------------------------------------------------
(* Whoever does not move stays where the invariant has it.                     *)

LEMMA OthersStand ==
  ASSUME IInv, OnceInv, UNCHANGED mode, overtaken \subseteq overtaken', NEW e \in Dispatchers,
         proc'[e] = proc[e], \A q \in Runs : OccStays(q),
         \A w \in Work : work[w].run # 0 => work'[w].run = work[w].run,
         proc[e].pc \in AtRun /\ Indexed(Occ(e)) /\ run[Run(e)].anchored => run'[Run(e)].anchored,
         proc[e].pc \in AtRun /\ Occ(e) \notin overtaken => Kept(Run(e)),
         \A h \in Hooks \ overtaken : proc[e].pc = "finish" /\ Occ(e) = h /\ BareFree(h)
                                       => BareFree(h)'
  PROVE  Position(e)'
<1>1. /\ Kind(e) /\ Stands(e) /\ Run(e)' = Run(e) /\ Item(e)' = Item(e) /\ Occ(e)' = Occ(e)
      /\ Placed(proc[e].pc, Run(e), Item(e), proc[e].seen)
  BY OnceTypes DEF OnceInv, Position, Run, Item, Occ
<1>2. Kind(e)'
  BY <1>1 DEF Kind
<1>3. Stands(e)'
  <2>1. CASE proc[e].pc \in AtRun
    <3>1. Run(e) \in Runs /\ Occ(e) \in Occasions /\ "idle" \notin AtRun
      BY <1>1, <2>1 DEF Placed, Kind, AtRun
    <3>2. run'[Run(e)].occ = Occ(e)
      BY <1>1, <2>1, <3>1, Kinds DEF Stands, OccStays
    <3>3. proc[e].pc \in AtItem => work'[Item(e)].run = Run(e)
      BY <1>1, <3>1, Kinds DEF Stands, Placed
    <3> QED BY <1>1, <2>1, <3>2, <3>3 DEF Stands, Indexed
  <2>2. CASE proc[e].pc \notin AtRun
    BY <1>1, <2>2 DEF Stands, AtRun, AtItem
  <2> QED BY <2>1, <2>2
<1>4. ASSUME Occ(e) \notin overtaken' PROVE Found(e)'
  <2>1. Found(e)
    BY <1>4 DEF OnceInv, Position
  <2>2. CASE proc[e].pc \in AtRun
    <3>1. Kept(Run(e)) /\ Run(e) \in Runs
      BY <1>1, <1>4, <2>2 DEF Placed
    <3>2. proc[e].pc = "dispatch" => NoneLeft(Run(e))' /\ Holds(Run(e))'
      <4>1. ASSUME proc[e].pc = "dispatch" PROVE NoneLeft(Run(e)) /\ Holds(Run(e))
        BY <2>1, <4>1 DEF Found
      <4> QED BY <1>1, <3>1, <4>1 DEF Kept, NoneLeft
    <3>3. proc[e].pc = "repair" /\ Tasks(Run(e))' = {} => Holds(Run(e))'
      BY <1>1, <2>1, <3>1 DEF Found, Kept, NoneLeft
    <3>4. ASSUME proc[e].pc \in {"relink", "resync"}, proc[e].seen \in Finished
          PROVE  work'[Item(e)].status = proc[e].seen
      <4>1. work[Item(e)].status = proc[e].seen /\ mode = "run_only" /\ Item(e) \in Tasks(Run(e))
        BY <1>1, <2>1, <3>4 DEF Found, Kind, Stands, Placed, AtItem, Tasks
      <4> QED BY <3>1, <3>4, <4>1 DEF Kept, Finished
    <3>5. proc[e].pc = "failing" /\ mode = "run_only" => Tasks(Run(e))' = {}
      BY <2>1, <3>1 DEF Found, Kept
    <3> QED BY <1>1, <2>2, <3>2, <3>3, <3>4, <3>5 DEF Found, AtRun
  <2>3. CASE proc[e].pc \notin AtRun
    <3>1. ASSUME proc[e].pc = "finish", proc[e].seen = "done", Occ(e) \in Hooks
          PROVE  BareFree(Occ(e))'
      <4>1. BareFree(Occ(e)) /\ Occ(e) \in Hooks \ overtaken
        BY <1>4, <1>1, <2>1, <3>1 DEF Found
      <4>2. PICK h \in Hooks \ overtaken : h = Occ(e)
        BY <4>1
      <4>3. BareFree(h)'
        BY <3>1, <4>1, <4>2
      <4> QED BY <1>1, <4>2, <4>3 DEF BareFree, WorkOf
    <3> QED BY <1>1, <2>3, <3>1 DEF Found, AtRun
  <2> QED BY <2>2, <2>3
<1> QED BY <1>1, <1>2, <1>3, <1>4 DEF Position

\* The run the one who moves stands on.
Mine(d, q) == d \in Dispatchers /\ proc[d].pc \in AtRun /\ Run(d) = q

LEMMA StepKeeps ==
  ASSUME IInv, OnceInv, UNCHANGED mode, overtaken \subseteq overtaken',
         overtaken' \subseteq Plans \cup Hooks,
         NEW d \in Dispatchers \cup {Nobody}, Rows', Leases', OwnRuns',
         \A e \in Dispatchers \ {d} : proc'[e] = proc[e],
         d \in Dispatchers => Position(d)',
         \A q \in Runs : /\ OccStays(q)
                         /\ Kept(q) \/ Mine(d, q) \/ \A e \in Dispatchers : Run(e) # q
                         /\ run[q].anchored => \/ run'[q].anchored \/ ~Indexed(run[q].occ)
                                               \/ Mine(d, q) /\ Occ(d) \notin overtaken,
         \A w \in Work : work[w].run # 0 => work'[w].run = work[w].run,
         \A h \in Hooks \ overtaken : \/ BareFree(h) => BareFree(h)'
                                      \/ d \in Dispatchers /\ Serves(d) /\ Occ(d) = h,
         \A h \in Hooks \ overtaken' :
             todo'[h] = "done" => BareFree(h)' \/ todo[h] = "done"
  PROVE  OnceInv'
<1>1. ASSUME NEW e \in Dispatchers \ {d} PROVE Position(e)'
  <2>1. ASSUME proc[e].pc \in AtRun, Occ(e) \notin overtaken PROVE ~Mine(d, Run(e))
    <3>1. ASSUME Mine(d, Run(e)) PROVE e = d
      BY <2>1, <3>1, Alone DEF Mine
    <3> QED BY <3>1
  <2>2. ASSUME proc[e].pc \in AtRun PROVE Run(e) \in Runs /\ run[Run(e)].occ = Occ(e)
    BY <2>2, OnceTypes DEF Placed, OnceInv, Position, Stands
  <2>3. ASSUME proc[e].pc \in AtRun, Mine(d, Run(e)), Occ(d) \notin overtaken
        PROVE  FALSE
    <3>1. Occ(d) = Occ(e)
      BY <2>2, <2>3 DEF Mine, OnceInv, Position, Stands
    <3> QED BY <2>1, <2>3, <3>1
  <2>4. proc[e].pc \in AtRun /\ Indexed(Occ(e)) /\ run[Run(e)].anchored => run'[Run(e)].anchored
    BY <2>2, <2>3
  <2>5. proc[e].pc \in AtRun /\ Occ(e) \notin overtaken => Kept(Run(e))
    BY <2>1, <2>2
  <2>6. ASSUME NEW h \in Hooks \ overtaken, proc[e].pc = "finish", Occ(e) = h, BareFree(h)
        PROVE  BareFree(h)'
    <3>1. CASE d \in Dispatchers /\ Serves(d) /\ Occ(d) = h
      <4>1. Serves(e)
        BY <2>6 DEF Serves
      <4>2. owner[h] = d /\ owner[h] = e
        BY <2>6, <3>1, <4>1, Kinds DEF OnceInv, Leases
      <4> QED BY <4>2
    <3> QED BY <2>6, <3>1
  <2> QED BY <2>4, <2>5, <2>6, OthersStand
<1>2. ASSUME NEW h \in Hooks \ overtaken', todo'[h] = "done" PROVE BareFree(h)'
  <2>1. ASSUME todo[h] = "done" PROVE BareFree(h)'
    <3>1. BareFree(h) /\ owner[h] = Nobody
      BY <1>2, <2>1 DEF OnceInv, DispatchedIsWorked, Worked, BareFree, Leases
    <3>2. ~(d \in Dispatchers /\ Serves(d) /\ Occ(d) = h)
      BY <1>2, <3>1, Kinds DEF OnceInv, Leases
    <3> QED BY <1>2, <3>1, <3>2
  <2> QED BY <1>2, <2>1
<1>3. DispatchedIsWorked'
  BY <1>2 DEF DispatchedIsWorked, Worked, BareFree
<1> QED BY <1>1, <1>3, Kinds DEF OnceInv

-----------------------------------------------------------------------------
(* A dispatcher's own moves.                                                   *)

LEMMA GoesTo ==
  ASSUME IInv, NEW d \in Dispatchers, NEW pc, NEW r, NEW w, NEW seen, Goes(d, pc, r, w, seen)
  PROVE  /\ proc'[d].pc = pc /\ Run(d)' = r /\ Item(d)' = w /\ proc'[d].seen = seen
         /\ Occ(d)' = Occ(d) /\ \A e \in Dispatchers \ {d} : proc'[e] = proc[e]
<1>1. proc \in [Dispatchers -> ProcType]
  BY OnceTypes
<1>2. proc'[d].pc = pc /\ proc'[d].run = r
  BY <1>1 DEF Goes, ProcType
<1>3. proc'[d].item = w /\ proc'[d].seen = seen
  BY <1>1 DEF Goes, ProcType
<1>4. proc'[d].occ = proc[d].occ /\ \A e \in Dispatchers \ {d} : proc'[e] = proc[e]
  BY <1>1 DEF Goes, ProcType
<1> QED BY <1>2, <1>3, <1>4 DEF Run, Item, Occ

LEMMA EndsAt ==
  ASSUME IInv, NEW d \in Dispatchers, Ends(d)
  PROVE  proc'[d].pc = "idle" /\ \A e \in Dispatchers \ {d} : proc'[e] = proc[e]
BY OnceTypes, UnusedType DEF Ends

Steered(d) ==
    /\ \A e \in Dispatchers \ {d} : proc'[e] = proc[e]
    /\ proc'[d].pc = "idle" \/ (Occ(d)' = Occ(d) /\ (Serves(d)' => Serves(d)))
    /\ proc'[d].pc \in AtRun /\ Occ(d) \in Clicks
          => \/ proc[d].pc \in AtRun /\ proc'[d].run = proc[d].run
             \/ run[proc'[d].run].occ = NoOccasion
    /\ Position(d)'

LEMMA SteeredKeeps ==
  ASSUME IInv, OnceInv, NEW d \in Dispatchers, Steered(d), UNCHANGED << owner, overtaken >>,
         \A h \in Hooks : todo'[h] = "done" => todo[h] = "done"
  PROVE  Leases' /\ OwnRuns'
<1>1. \A e \in Dispatchers \ {d} : Occ(e)' = Occ(e) /\ Run(e)' = Run(e) /\ (Serves(e)' <=> Serves(e))
  BY DEF Steered, Occ, Run, Serves
<1>2. Leases'
  <2>1. ASSUME NEW e \in Dispatchers, Serves(e)', Occ(e)' \notin Clicks \cup overtaken
        PROVE  owner'[Occ(e)'] = e
    <3>1. Serves(e) /\ Occ(e)' = Occ(e)
      BY <1>1, <2>1 DEF Steered, Serves
    <3> QED BY <2>1, <3>1 DEF OnceInv, Leases
  <2> QED BY <2>1 DEF OnceInv, Leases
<1>3. OwnRuns'
  <2>1. ASSUME NEW e \in Dispatchers, proc[e].pc \in AtRun
        PROVE  run[Run(e)].occ # NoOccasion /\ run[Run(e)].occ = Occ(e)
    BY <2>1, Kinds DEF OnceInv, Position, Stands, Kind, AtRun
  <2>2. ASSUME NEW e \in Dispatchers \ {d}, proc[e].pc \in AtRun, proc'[d].pc \in AtRun,
               Occ(d)' \in Clicks, Occ(e) = Occ(d)'
        PROVE  Run(e) # proc'[d].run
    <3>1. Occ(d)' = Occ(d)
      BY <2>2 DEF Steered, AtRun
    <3>2. ASSUME Run(e) = proc'[d].run PROVE FALSE
      <4>1. proc[d].pc \in AtRun /\ Run(d) = Run(e)
        BY <2>1, <2>2, <3>1, <3>2 DEF Steered, Run
      <4> QED BY <2>2, <3>1, <4>1 DEF OnceInv, OwnRuns
    <3> QED BY <3>2
  <2> QED BY <1>1, <2>2 DEF OnceInv, OwnRuns, Run, Occ, Steered
<1> QED BY <1>2, <1>3

LEMMA SteeredStep ==
  ASSUME IInv, IInv', OnceInv, NEW d \in Dispatchers, Steered(d), Rows',
         UNCHANGED << mode, owner, overtaken >>,
         \A h \in Hooks : todo'[h] = "done" => todo[h] = "done",
         \A q \in Runs : /\ OccStays(q) /\ (Kept(q) \/ Mine(d, q))
                         /\ run[q].anchored => \/ run'[q].anchored \/ ~Indexed(run[q].occ)
                                               \/ Mine(d, q) /\ Occ(d) \notin overtaken,
         \A w \in Work : work[w].run # 0 => work'[w].run = work[w].run,
         \A h \in Hooks \ overtaken : \/ BareFree(h) => BareFree(h)'
                                      \/ Serves(d) /\ Occ(d) = h
  PROVE  OnceInv'
<1>1. Leases' /\ OwnRuns'
  BY SteeredKeeps
<1>2. Position(d)' /\ \A e \in Dispatchers \ {d} : proc'[e] = proc[e]
  BY DEF Steered
<1>3. overtaken \subseteq overtaken' /\ overtaken' \subseteq Plans \cup Hooks
  BY OnceTypes
<1>4. \A h \in Hooks \ overtaken' : todo'[h] = "done" => BareFree(h)' \/ todo[h] = "done"
  OBVIOUS
<1> QED BY <1>1, <1>2, <1>3, <1>4, StepKeeps

\* A dispatcher that leaves the rows alone.
LEMMA SteeredOnly ==
  ASSUME IInv, IInv', OnceInv, NEW d \in Dispatchers, Steered(d),
         UNCHANGED << mode, run, slot, work, owner, overtaken >>,
         news \cup unheard \subseteq news' \cup unheard',
         \A h \in Hooks : todo'[h] = "done" => todo[h] = "done"
  PROVE  OnceInv'
<1>1. /\ Rows' /\ \A q \in Runs : Kept(q) /\ OccStays(q) /\ run'[q].anchored = run[q].anchored
      /\ \A o \in Occasions : BareFree(o) => BareFree(o)'
  BY RowsStay DEF OnceInv
<1>2. \A h \in Hooks \ overtaken : BareFree(h) => BareFree(h)'
  BY <1>1, Kinds
<1>3. \A w \in Work : work[w].run # 0 => work'[w].run = work[w].run
  OBVIOUS
<1>4. \A q \in Runs : /\ OccStays(q) /\ (Kept(q) \/ Mine(d, q))
                      /\ run[q].anchored => \/ run'[q].anchored \/ ~Indexed(run[q].occ)
                                            \/ Mine(d, q) /\ Occ(d) \notin overtaken
  BY <1>1
<1> QED BY <1>1, <1>2, <1>3, <1>4, SteeredStep

LEMMA SteersEnds == ASSUME IInv, NEW d \in Dispatchers, Ends(d) PROVE Steered(d)
<1>1. proc'[d].pc = "idle" /\ \A e \in Dispatchers \ {d} : proc'[e] = proc[e]
  BY EndsAt
<1> QED BY <1>1 DEF Steered, Position, Kind, Stands, Found, AtRun, AtItem

LEMMA SteersReturn ==
  ASSUME IInv, OnceInv, UNCHANGED << mode, overtaken >>, NEW d \in Dispatchers,
         proc[d].pc # "idle", NEW outcome, Returns(d, outcome),
         outcome = "done" => \A h \in Hooks \ overtaken : Occ(d) = h => BareFree(h)'
  PROVE  Steered(d)
<1>1. CASE Ends(d)
  BY <1>1, SteersEnds
<1>2. CASE ~Ingress(d) /\ Occ(d) \notin Clicks /\ Goes(d, "finish", 0, 0, outcome)
  <2>1. /\ proc'[d].pc = "finish" /\ proc'[d].seen = outcome /\ Occ(d)' = Occ(d)
        /\ \A e \in Dispatchers \ {d} : proc'[e] = proc[e]
    BY <1>2, GoesTo
  <2>2. Serves(d) /\ Occ(d) \in Occasions
    BY <1>2 DEF Serves, Ingress, OnceInv, Position, Kind
  <2>3. Kind(d)' /\ Stands(d)'
    BY <1>2, <2>1, <2>2 DEF Kind, Stands, AtRun, AtItem
  <2>4. ASSUME Occ(d) \notin overtaken PROVE Found(d)'
    <3>1. ASSUME outcome = "done", Occ(d)' \in Hooks PROVE BareFree(Occ(d))'
      <4>1. PICK h \in Hooks \ overtaken : h = Occ(d)
        BY <2>1, <2>4, <3>1
      <4>2. BareFree(h)'
        BY <3>1, <4>1
      <4> QED BY <2>1, <4>1, <4>2 DEF BareFree, WorkOf
    <3> QED BY <2>1, <3>1 DEF Found
  <2> QED BY <2>1, <2>2, <2>3, <2>4 DEF Steered, Position, AtRun
<1> QED BY <1>1, <1>2 DEF Returns

LEMMA SteersTo ==
  ASSUME IInv, IInv', OnceInv, UNCHANGED << mode, overtaken >>, NEW d \in Dispatchers, Serves(d),
         NEW pc \in AtRun, NEW r \in Runs, NEW w, NEW seen, Goes(d, pc, r, w, seen),
         run'[r].occ = Occ(d), Indexed(Occ(d)) => run'[r].anchored,
         pc \in AtItem => work'[w].run = r,
         pc = "ensure" => Occ(d) \in Hooks, pc = "recover" => Occ(d) \in Plans,
         pc \in {"repair", "relink", "resync", "link"} => mode = "run_only",
         pc \in {"enqueue", "ensure"} => mode = "create_issue",
         Occ(d) \in Clicks => \/ proc[d].pc \in AtRun /\ Run(d) = r
                              \/ run[r].occ = NoOccasion,
         Occ(d) \notin overtaken =>
             /\ pc = "dispatch" => NoneLeft(r)' /\ Holds(r)'
             /\ pc = "repair" /\ Tasks(r)' = {} => Holds(r)'
             /\ pc \in {"relink", "resync"} /\ seen \in Finished => work'[w].status = seen
             /\ pc = "failing" /\ mode = "run_only" => Tasks(r)' = {}
  PROVE  Steered(d)
<1>1. /\ proc'[d].pc = pc /\ Run(d)' = r /\ proc'[d].run = r /\ Item(d)' = w
      /\ proc'[d].seen = seen /\ Occ(d)' = Occ(d)
      /\ \A e \in Dispatchers \ {d} : proc'[e] = proc[e]
  BY GoesTo DEF Run
<1>2. Occ(d) \in Occasions /\ pc \notin {"idle", "receive", "reserve", "lookup", "finish"}
  BY DEF Serves, OnceInv, Position, Kind, AtRun
<1>3. Kind(d)'
  BY <1>1, <1>2 DEF Kind
<1>4. Stands(d)'
  BY <1>1 DEF Stands, Indexed
<1>5. Occ(d) \notin overtaken => Found(d)'
  <2>1. Holds(r)' <=> Holds(Run(d))'
    BY <1>1 DEF Holds
  <2>2. Tasks(r)' = Tasks(Run(d))'
    BY <1>1 DEF Tasks
  <2>3. NoneLeft(r)' <=> NoneLeft(Run(d))'
    BY <1>1 DEF NoneLeft, Tasks
  <2> QED BY <1>1, <1>2, <2>1, <2>2, <2>3 DEF Found
<1> QED BY <1>1, <1>3, <1>4, <1>5 DEF Steered, Position, Run

LEMMA SteersAdmit ==
  ASSUME IInv, OnceInv, NEW d \in Dispatchers, proc[d].pc # "idle", NEW pc \in {"admit", "reserve"},
         pc = "reserve" <=> Ingress(d), Goes(d, pc, 0, 0, "none")
  PROVE  Steered(d)
<1>1. /\ proc'[d].pc = pc /\ Occ(d)' = Occ(d)
      /\ \A e \in Dispatchers \ {d} : proc'[e] = proc[e]
  BY GoesTo
<1>2. Occ(d) \in Occasions /\ (Ingress(d) => Occ(d) \in Hooks)
  BY DEF OnceInv, Position, Kind, Ingress
<1>3. Kind(d)' /\ Stands(d)' /\ Found(d)'
  BY <1>1, <1>2 DEF Kind, Stands, Found, AtRun, AtItem
<1>4. Serves(d)' => Serves(d)
  BY <1>1 DEF Serves, Ingress
<1> QED BY <1>1, <1>3, <1>4 DEF Steered, Position, AtRun

\* What is left of a delivery's work has a task, unless it is the run's linked issue.
LEMMA NothingBare ==
  ASSUME IInv, OnceInv, NEW r \in Runs, NEW h \in Hooks \ overtaken, run[r].occ = h,
         mode = "run_only" \/ run[r].link = 0 \/ work[run[r].link].status # "bare"
  PROVE  BareFree(h)
<1> SUFFICES ASSUME NEW w \in WorkOf(h), work[w].status = "bare" PROVE FALSE
  BY DEF BareFree
<1>1. w \in Work /\ work[w].run = r
  BY WorkOfRun DEF Tasks
<1>2. mode = "create_issue" /\ run[r].link = w
  BY <1>1, Kinds DEF OnceInv, Rows, ItemRow, ItemOf
<1> QED BY <1>1, <1>2, Kinds

\* A dispatcher that goes on with the run it found.
LEMMA SteersOn ==
  ASSUME IInv, IInv', OnceInv, UNCHANGED << mode, run, slot, work, overtaken >>,
         NEW d \in Dispatchers, proc[d].pc \in {"lookup", "receive", "admit", "reserve"},
         Occ(d) \in Plans \cup Hooks, NEW r \in Runs, run[r].occ = Occ(d), run[r].anchored,
         GoesOnWith(d, r)
  PROVE  Steered(d)
<1>1. RunRow(r) /\ run[r].status # "none" /\ proc[d].pc # "idle"
  BY Kinds DEF OnceInv, Rows, RunRow
<1>2. CASE Ends(d)
  BY <1>2, SteersEnds
<1>3. CASE ~Ingress(d) /\ Ensured(d, r) /\ \E seen : Goes(d, "ensure", r, run[r].link, seen)
  <2>1. PICK seen : Goes(d, "ensure", r, run[r].link, seen)
    BY <1>3
  <2>2. Serves(d) /\ Occ(d) \in Hooks /\ mode = "create_issue" /\ work[run[r].link].run = r
    BY <1>1, <1>3 DEF Serves, Ingress, Ensured, RunRow
  <2> QED BY <2>1, <2>2, Kinds, SteersTo DEF AtRun
<1>4. CASE RunComplete(r) /\ ~Ensured(d, r) /\ Returns(d, Outcome(d, run[r].status))
  <2>1. ASSUME NEW h \in Hooks \ overtaken, Occ(d) = h PROVE BareFree(h)'
    <3>1. BareFree(h)
      BY <1>4, <2>1, NothingBare, OnceTypes DEF Ensured
    <3> QED BY <3>1 DEF BareFree, WorkOf
  <2> QED BY <1>1, <1>4, <2>1, SteersReturn
<1>5. ASSUME ~Ingress(d), ~RunComplete(r),
             \/ mode = "run_only" /\ Goes(d, "repair", r, 0, "none")
             \/ mode # "run_only"
                /\ Goes(d, IF Occ(d) \in Plans THEN "recover" ELSE "dispatch", r, 0, "none")
      PROVE  Steered(d)
  <2>1. Partial(r) /\ run[r].link = 0 /\ Serves(d)
    BY <1>1, <1>5, OnceTypes DEF Partial, RunComplete, RunType, Serves, Ingress
  <2>2. Occ(d) \notin overtaken => Holds(r)
    BY <1>1, <2>1 DEF RunRow
  <2>3. ASSUME mode # "run_only", Occ(d) \notin overtaken PROVE NoneLeft(r)
    <3>1. ASSUME NEW w \in Tasks(r) PROVE ItemOf(w, r) /\ w \in Work
      BY <2>3, <3>1, Kinds DEF OnceInv, Rows, ItemRow, Tasks
    <3> QED BY <2>1, <2>3, <3>1, Kinds, OnceTypes DEF NoneLeft, ItemOf
  <2>4. (Holds(r)' <=> Holds(r)) /\ (NoneLeft(r)' <=> NoneLeft(r))
    BY DEF Holds, NoneLeft, Tasks
  <2>5. CASE mode = "run_only" /\ Goes(d, "repair", r, 0, "none")
    BY <2>1, <2>2, <2>4, <2>5, Kinds, SteersTo DEF AtRun, AtItem
  <2>6. CASE mode # "run_only" /\ Occ(d) \in Plans /\ Goes(d, "recover", r, 0, "none")
    BY <2>1, <2>6, Kinds, SteersTo DEF AtRun, AtItem
  <2>7. CASE mode # "run_only" /\ Occ(d) \notin Plans /\ Goes(d, "dispatch", r, 0, "none")
    BY <2>1, <2>2, <2>3, <2>4, <2>7, Kinds, SteersTo DEF AtRun, AtItem
  <2> QED BY <1>5, <2>5, <2>6, <2>7
<1> QED BY <1>2, <1>3, <1>4, <1>5 DEF GoesOnWith, Ensured

-----------------------------------------------------------------------------
(* The dispatchers' steps: admission.                                          *)

LEMMA OnceLookUp ==
  ASSUME IInv, IInv', OnceInv, NEW d \in Dispatchers, LookUp(d) PROVE OnceInv'
<1>1. proc[d].pc \in {"lookup", "receive"} /\ Occ(d) \in Plans \cup Hooks
  BY Kinds DEF LookUp, Doing, OnceInv, Position, Kind
<1>2. UNCHANGED << mode, run, slot, work, news, unheard, owner, overtaken, todo >>
  BY DEF LookUp, rowVars, frozenVars, quotaVars, callerVars
<1>3. Steered(d)
  <2>1. ASSUME NEW r \in Anchored(Occ(d)), GoesOnWith(d, r) PROVE Steered(d)
    BY <1>1, <1>2, <2>1, SteersOn DEF Anchored
  <2>2. CASE Goes(d, IF Ingress(d) THEN "reserve" ELSE "admit", 0, 0, "none")
    <3>1. CASE Ingress(d)
      BY <1>1, <2>2, <3>1, SteersAdmit
    <3>2. CASE ~Ingress(d)
      BY <1>1, <2>2, <3>2, SteersAdmit
    <3> QED BY <3>1, <3>2
  <2>3. CASE Returns(d, "ignored") \/ Returns(d, "retry")
    BY <1>1, <1>2, <2>3, SteersReturn
  <2> QED BY <2>1, <2>2, <2>3 DEF LookUp
<1> QED BY <1>2, <1>3, SteeredOnly

LEMMA OnceReuse ==
  ASSUME IInv, IInv', OnceInv, NEW d \in Dispatchers, ReuseRun(d) PROVE OnceInv'
<1>1. proc[d].pc \in {"admit", "reserve"} /\ Occ(d) \in Occasions
  BY DEF ReuseRun, Admits, Doing, OnceInv, Position, Kind
<1>2. UNCHANGED << mode, run, slot, work, news, unheard, owner, overtaken, todo >>
  BY DEF ReuseRun, rowVars, frozenVars, quotaVars, callerVars
<1>3. Steered(d)
  <2>1. PICK r \in Keyed(Occ(d)) \cup Anchored(Occ(d)) :
          IF Occ(d) \in Hooks THEN GoesOnWith(d, r)
          ELSE Returns(d, IF r \in Keyed(Occ(d)) THEN "done" ELSE "retry")
    BY DEF ReuseRun
  <2>2. r \in Runs /\ run[r].occ = Occ(d)
    BY DEF Keyed, Anchored
  <2>3. CASE Occ(d) \in Hooks
    <3>1. run[r].anchored
      BY <2>2, <2>3 DEF OnceInv, Rows, RunRow
    <3> QED BY <1>1, <1>2, <2>1, <2>2, <2>3, <3>1, SteersOn
  <2>4. CASE Occ(d) \notin Hooks
    BY <1>1, <1>2, <2>1, <2>4, SteersReturn
  <2> QED BY <2>3, <2>4
<1> QED BY <1>2, <1>3, SteeredOnly

LEMMA OnceRefuse ==
  ASSUME IInv, IInv', OnceInv, NEW d \in Dispatchers, RefuseRun(d) \/ AdmissionFails(d)
  PROVE  OnceInv'
<1>1. proc[d].pc # "idle"
  BY DEF RefuseRun, AdmissionFails, Admits, Doing
<1>2. UNCHANGED << mode, run, slot, work, news, unheard, owner, overtaken >>
  BY DEF RefuseRun, AdmissionFails, rowVars, frozenVars, quotaVars, callerVars
<1>3. \A h \in Hooks : todo'[h] = "done" => todo[h] = "done"
  BY DEF RefuseRun, AdmissionFails, callerVars, IInv, Callers, Occasions
<1>4. Steered(d)
  BY <1>1, <1>2, SteersReturn DEF RefuseRun, AdmissionFails
<1> QED BY <1>2, <1>3, <1>4, SteeredOnly

LEMMA OnceSkipAdmission ==
  ASSUME IInv, IInv', OnceInv, NEW d \in Dispatchers, SkipAdmission(d) PROVE OnceInv'
<1>1. proc[d].pc # "idle" /\ Occ(d) \in Occasions /\ Anchored(Occ(d)) = {}
  BY DEF SkipAdmission, Admits, Doing, OnceInv, Position, Kind
<1>2. UNCHANGED << mode, slot, work, news, unheard, owner, overtaken, todo >>
  BY DEF SkipAdmission, frozenVars, quotaVars, callerVars
<1>3. PICK r \in Runs : Inserted(r, d, "skipped")
  BY DEF SkipAdmission
<1>4. /\ Rows'
      /\ \A q \in Runs : Kept(q) /\ OccStays(q) /\ (run[q].anchored => run'[q].anchored)
      /\ \A o \in Occasions : BareFree(o) => BareFree(o)'
  BY <1>1, <1>2, <1>3, RowBegins DEF OnceInv
<1>5. ASSUME NEW h \in Hooks, Occ(d) = h PROVE BareFree(h)
  <2>1. WorkOf(h) = {}
    BY <1>1, <1>5, OnceTypes DEF WorkOf, Anchored, OnceInv, Rows, RunRow
  <2> QED BY <2>1 DEF BareFree
<1>6. Steered(d)
  <2>1. \A h \in Hooks \ overtaken : Occ(d) = h => BareFree(h)'
    BY <1>4, <1>5, Kinds
  <2> QED BY <1>1, <1>2, <2>1, SteersReturn DEF SkipAdmission
<1>7. \A h \in Hooks : BareFree(h) => BareFree(h)'
  BY <1>4, Kinds
<1> QED BY <1>2, <1>4, <1>6, <1>7, SteeredStep

LEMMA OnceReserve ==
  ASSUME IInv, IInv', OnceInv, NEW d \in Dispatchers, ReserveRun(d) PROVE OnceInv'
<1>1. proc[d].pc \in {"admit", "reserve"} /\ Occ(d) \in Occasions /\ Anchored(Occ(d)) = {}
      /\ Keyed(Occ(d)) = {}
  BY DEF ReserveRun, Admits, Doing, OnceInv, Position, Kind
<1>2. UNCHANGED << mode, work, news, unheard, owner, overtaken, todo >>
  BY DEF ReserveRun, frozenVars, callerVars
<1>3. PICK r \in Runs :
        /\ Inserted(r, d, "going") /\ slot' = [slot EXCEPT ![r] = "reserved"]
        /\ IF Ingress(d) THEN Ends(d)
           ELSE Goes(d, IF Occ(d) \in Hooks /\ mode = "run_only" THEN "repair" ELSE "dispatch",
                     r, 0, "none")
  BY DEF ReserveRun
<1>4. /\ Rows'
      /\ \A q \in Runs : Kept(q) /\ OccStays(q) /\ (run[q].anchored => run'[q].anchored)
      /\ \A o \in Occasions : BareFree(o) => BareFree(o)'
      /\ run'[r].occ = Occ(d) /\ (Indexed(Occ(d)) => run'[r].anchored)
      /\ Tasks(r)' = {} /\ run[r].occ = NoOccasion /\ Holds(r)'
  BY <1>1, <1>2, <1>3, RowBegins DEF OnceInv
<1>5. NoneLeft(r)'
  BY <1>4 DEF NoneLeft
<1>6. Steered(d)
  <2>1. CASE Ends(d)
    BY <2>1, SteersEnds
  <2>2. ASSUME ~Ingress(d), NEW pc \in {"repair", "dispatch"},
               pc = "repair" => mode = "run_only", Goes(d, pc, r, 0, "none")
        PROVE  Steered(d)
    <3>1. Serves(d)
      BY <1>1, <2>2 DEF Serves, Ingress
    <3> QED BY <1>2, <1>4, <1>5, <2>2, <3>1, SteersTo DEF AtRun, AtItem
  <2> QED BY <1>3, <2>1, <2>2
<1>7. \A h \in Hooks : BareFree(h) => BareFree(h)'
  BY <1>4, Kinds
<1> QED BY <1>2, <1>4, <1>6, <1>7, SteeredStep

-----------------------------------------------------------------------------
(* Repair, and the ends of a run.                                              *)

LEMMA Place ==
  ASSUME IInv, OnceInv, NEW d \in Dispatchers, proc[d].pc \in AtRun
  PROVE  \E r \in Runs : /\ r = Run(d) /\ run[r].occ = Occ(d) /\ Occ(d) \in Occasions
                         /\ Occ(d) # NoOccasion
                         /\ Indexed(Occ(d)) => run[r].anchored
                         /\ proc[d].pc \in AtItem => Item(d) \in Tasks(r)
                         /\ Serves(d) /\ Mine(d, r) /\ ~Ingress(d)
<1>1. Run(d) \in Runs /\ (proc[d].pc \in AtItem => Item(d) \in Work) /\ Position(d)
  BY OnceTypes DEF Placed, OnceInv
<1>2. Serves(d) /\ ~Ingress(d) /\ Mine(d, Run(d)) /\ proc[d].pc # "idle"
  BY DEF AtRun, Serves, Ingress, Mine
<1>3. Stands(d) /\ Occ(d) \in Occasions
  BY <1>1, <1>2 DEF Position, Kind
<1> QED BY <1>1, <1>2, <1>3, Kinds DEF Stands, Tasks

LEMMA NoBare ==
  ASSUME Rows', mode' = "run_only" PROVE \A o \in Occasions : BareFree(o)'
BY DEF Rows, ItemRow, BareFree, WorkOf

\* A slot that is still reserved has no work, unless there are tasks.
LEMMA Emptied ==
  ASSUME IInv, OnceInv, NEW r \in Runs, run[r].occ \notin overtaken, slot[r] = "reserved",
         mode = "run_only" => NoneLeft(r)
  PROVE  Tasks(r) = {}
<1> SUFFICES ASSUME NEW w \in Tasks(r) PROVE FALSE OBVIOUS
<1>1. w \in Work /\ work[w].run = r /\ ItemRow(w)
  BY DEF Tasks, OnceInv, Rows
<1>2. CASE mode = "run_only"
  BY <1>1, <1>2 DEF NoneLeft, ItemRow
<1>3. CASE mode = "create_issue"
  BY <1>1, <1>3, Kinds DEF ItemRow, ItemOf
<1> QED BY <1>2, <1>3, OnceTypes

\* The dispatcher at a run ends it.
LEMMA OnceEndRun ==
  ASSUME IInv, IInv', OnceInv, UNCHANGED << mode, work, news, unheard, owner, overtaken, todo >>,
         NEW d \in Dispatchers, NEW r \in Runs, run[r].occ \in Occasions, Mine(d, r),
         NEW status \in Finished, EndRun(r, status),
         status # "completed" /\ slot[r] = "reserved" /\ run[r].occ \notin overtaken
            => \A w \in Tasks(r) : work[w].status = "failed"
  PROVE  /\ Rows' /\ \A o \in Occasions : BareFree(o) => BareFree(o)'
         /\ Steered(d) => OnceInv'
<1> DEFINE state == IF status = "completed" THEN "consumed" ELSE "released"
<1>1. /\ \A q \in Runs : /\ run'[q].occ = run[q].occ /\ run'[q].link = run[q].link
                         /\ run'[q].anchored = run[q].anchored
                         /\ q # r => run'[q] = run[q]
      /\ run'[r].status = status
  BY OnceTypes DEF EndRun, RunType
<1>2. state \in {"consumed", "released"} /\ SettleSlot(r, state)
      /\ (state = "released" => status # "completed")
  BY DEF EndRun
<1> HIDE DEF state
<1>3. run[r].occ # NoOccasion /\ Rows
  BY Kinds DEF OnceInv
<1>4. \A w \in news \cup unheard : w \in news' \cup unheard'
  OBVIOUS
<1>5. /\ Rows' /\ \A q \in Runs \ {r} : Kept(q) /\ run'[q].anchored = run[q].anchored
      /\ \A q \in Runs : OccStays(q)
      /\ \A o \in Occasions : BareFree(o) => BareFree(o)'
  BY <1>1, <1>2, <1>3, <1>4, RowEnds
<1>6. ASSUME Steered(d) PROVE OnceInv'
  <2>1. \A h \in Hooks : BareFree(h) => BareFree(h)'
    BY <1>5, Kinds
  <2> QED BY <1>1, <1>5, <1>6, <2>1, SteeredStep
<1> QED BY <1>5, <1>6

LEMMA OnceFindTask ==
  ASSUME IInv, IInv', OnceInv, NEW d \in Dispatchers, FindTask(d) PROVE OnceInv'
<1>1. proc[d].pc = "repair" /\ proc[d].pc \in AtRun /\ mode = "run_only"
  BY DEF FindTask, Doing, AtRun, OnceInv, Position, Kind
<1>2. UNCHANGED << mode, run, slot, work, news, unheard, owner, overtaken, todo >>
  BY DEF FindTask, rowVars, frozenVars, quotaVars, callerVars
<1>3. PICK r \in Runs : /\ r = Run(d) /\ run[r].occ = Occ(d)
                        /\ Indexed(Occ(d)) => run[r].anchored
                        /\ Serves(d)
  BY <1>1, Place
<1>4. CASE /\ Tasks(r) = {}
           /\ Goes(d, IF Occ(d) \in Plans THEN "recover" ELSE "dispatch", r, 0, "none")
  <2>1. Occ(d) \notin overtaken => Holds(r)
    BY <1>1, <1>3, <1>4 DEF OnceInv, Position, Found
  <2>2. (Holds(r)' <=> Holds(r)) /\ NoneLeft(r)'
    BY <1>2, <1>4 DEF Holds, NoneLeft, Tasks
  <2>3. ASSUME NEW pc \in {"recover", "dispatch"}, pc = "recover" => Occ(d) \in Plans,
               Goes(d, pc, r, 0, "none")
        PROVE  Steered(d)
    BY <1>1, <1>2, <1>3, <2>1, <2>2, <2>3, SteersTo DEF AtRun, AtItem
  <2>4. Steered(d)
    BY <1>4, <2>3
  <2> QED BY <1>2, <2>4, SteeredOnly
<1>5. ASSUME NEW w \in Tasks(r), Goes(d, "relink", r, w, work[w].status) PROVE OnceInv'
  <2>1. work[w].run = r
    BY DEF Tasks
  <2>2. Steered(d)
    BY <1>1, <1>2, <1>3, <1>5, <2>1, SteersTo DEF AtRun, AtItem
  <2> QED BY <1>2, <2>2, SteeredOnly
<1>6. CASE Breaks(d)
  <2>1. Steered(d)
    BY <1>1, <1>2, <1>6, SteersReturn DEF Breaks
  <2> QED BY <1>2, <2>1, SteeredOnly
<1> QED BY <1>3, <1>4, <1>5, <1>6 DEF FindTask

LEMMA OnceRelink ==
  ASSUME IInv, IInv', OnceInv, NEW d \in Dispatchers, Relink(d) PROVE OnceInv'
<1>1. proc[d].pc = "relink" /\ proc[d].pc \in AtRun \cap AtItem /\ mode = "run_only"
  BY DEF Relink, Doing, AtRun, AtItem, OnceInv, Position, Kind
<1>2. UNCHANGED << mode, slot, work, news, unheard, owner, overtaken, todo >>
  BY DEF Relink, frozenVars, quotaVars, callerVars
<1>3. PICK r \in Runs : /\ r = Run(d) /\ run[r].occ = Occ(d) /\ Occ(d) # NoOccasion
                        /\ Indexed(Occ(d)) => run[r].anchored
                        /\ Serves(d) /\ Item(d) \in Tasks(r)
  BY <1>1, Place
<1>4. CASE /\ Linked(r, Item(d))
           /\ IF proc[d].seen \in Finished
              THEN Goes(d, "resync", r, Item(d), proc[d].seen) ELSE Returns(d, "done")
  <2> DEFINE w == Item(d)
  <2>1. /\ Rows' /\ \A q \in Runs : Kept(q) /\ OccStays(q) /\ run'[q].anchored = run[q].anchored
    BY <1>1, <1>2, <1>3, <1>4, RowLinks DEF OnceInv, Tasks
  <2>2. \A o \in Occasions : BareFree(o)'
    BY <1>1, <1>2, <2>1, NoBare
  <2>3. Steered(d)
    <3>1. CASE proc[d].seen \in Finished
      <4>1. Occ(d) \notin overtaken => work[w].status = proc[d].seen
        BY <1>1, <3>1 DEF OnceInv, Position, Found
      <4>2. run'[r].occ = Occ(d) /\ (Indexed(Occ(d)) => run'[r].anchored)
        BY <1>3, <2>1, Kinds DEF OccStays
      <4>3. work'[w].run = r
        BY <1>2, <1>3 DEF Tasks
      <4> QED BY <1>1, <1>2, <1>3, <1>4, <3>1, <4>1, <4>2, <4>3, SteersTo DEF AtRun
    <3>2. CASE Returns(d, "done")
      <4>1. \A h \in Hooks \ overtaken : Occ(d) = h => BareFree(h)'
        BY <2>2, Kinds
      <4> QED BY <1>1, <1>2, <3>2, <4>1, SteersReturn
    <3> QED BY <1>4, <3>1, <3>2
  <2>4. \A h \in Hooks : BareFree(h)'
    BY <2>2, Kinds
  <2> QED BY <1>2, <2>1, <2>3, <2>4, SteeredStep
<1>5. CASE Breaks(d) /\ UNCHANGED run
  <2>1. Steered(d)
    BY <1>1, <1>2, <1>5, SteersReturn DEF Breaks
  <2> QED BY <1>2, <1>5, <2>1, SteeredOnly
<1> QED BY <1>3, <1>4, <1>5 DEF Relink

LEMMA OnceResync ==
  ASSUME IInv, IInv', OnceInv, NEW d \in Dispatchers, Resync(d) PROVE OnceInv'
<1>1. proc[d].pc = "resync" /\ proc[d].pc \in AtRun \cap AtItem /\ mode = "run_only"
  BY DEF Resync, Doing, AtRun, AtItem, OnceInv, Position, Kind
<1>2. UNCHANGED << mode, work, news, owner, overtaken, todo >>
  BY DEF Resync, frozenVars, callerVars
<1>3. PICK r \in Runs : /\ r = Run(d) /\ run[r].occ = Occ(d) /\ Occ(d) \in Occasions
                        /\ Occ(d) # NoOccasion /\ Mine(d, r) /\ Item(d) \in Tasks(r)
  BY <1>1, Place
<1>4. proc[d].seen \in Finished
  BY <1>1, OnceTypes DEF Placed
<1>5. CASE /\ EndRun(r, proc[d].seen) /\ Returns(d, Outcome(d, proc[d].seen))
           /\ UNCHANGED unheard
  <2>1. ASSUME proc[d].seen # "completed", run[r].occ \notin overtaken, NEW w \in Tasks(r)
        PROVE  work[w].status = "failed"
    <3>1. work[Item(d)].status = proc[d].seen
      BY <1>1, <1>3, <1>4, <2>1 DEF OnceInv, Position, Found
    <3>2. w = Item(d) /\ w \in Work
      BY <1>1, <1>3, <2>1, Kinds DEF OnceInv, Rows, ItemRow, ItemOf, Tasks
    <3> QED BY <1>4, <2>1, <3>1, <3>2, OnceTypes DEF Finished, WorkType
  <2>2. Rows' /\ (Steered(d) => OnceInv')
    BY <1>2, <1>3, <1>4, <1>5, <2>1, OnceEndRun
  <2>3. \A h \in Hooks \ overtaken : Occ(d) = h => BareFree(h)'
    BY <1>1, <1>2, <2>2, NoBare, Kinds
  <2>4. Steered(d)
    BY <1>1, <1>2, <1>5, <2>3, SteersReturn
  <2> QED BY <2>2, <2>4
<1>6. CASE /\ Returns(d, "done") /\ unheard' = unheard \cup {Item(d)}
           /\ UNCHANGED << run, quotaVars >>
  <2>1. Rows'
    BY <1>2, <1>6, RowsStay DEF OnceInv, quotaVars
  <2>2. \A h \in Hooks \ overtaken : Occ(d) = h => BareFree(h)'
    BY <1>1, <1>2, <2>1, NoBare, Kinds
  <2>3. Steered(d)
    BY <1>1, <1>2, <1>6, <2>2, SteersReturn
  <2> QED BY <1>2, <1>6, <2>3, SteeredOnly DEF quotaVars
<1> QED BY <1>3, <1>5, <1>6 DEF Resync

LEMMA OnceRecover ==
  ASSUME IInv, IInv', OnceInv, NEW d \in Dispatchers, Recover(d) PROVE OnceInv'
<1>1. proc[d].pc = "recover" /\ proc[d].pc \in AtRun /\ Occ(d) \in Plans
  BY DEF Recover, Doing, AtRun, OnceInv, Position, Kind
<1>2. UNCHANGED << mode, work, news, unheard, owner, overtaken, todo >>
  BY DEF Recover, frozenVars, callerVars
<1>3. PICK r \in Runs : /\ r = Run(d) /\ run[r].occ = Occ(d) /\ Occ(d) # NoOccasion
                        /\ Serves(d) /\ Mine(d, r) /\ ~Ingress(d)
  BY <1>1, Place
<1>4. Occ(d) \notin Hooks
  BY <1>1, Kinds
<1>5. CASE Recoverable(r) /\ RecoverPartial(r) /\ Goes(d, "admit", 0, 0, "none")
  <2>1. ASSUME NEW w \in Tasks(r), Occ(d) \notin overtaken
        PROVE  work[w].status = "deleted" /\ slot[r] # "reserved"
    <3>1. w \in Work /\ ItemOf(w, r) /\ mode = "create_issue" /\ run[r].link = 0
      BY <1>3, <1>5, <2>1, Kinds, OnceTypes
         DEF OnceInv, Rows, ItemRow, Tasks, Recoverable, Partial
    <3> QED BY <3>1, Kinds DEF ItemOf
  <2>2. Occ(d) \notin overtaken =>
          NoneLeft(r) /\ (slot[r] = "reserved" => \A w \in Tasks(r) : work[w].status = "failed")
    BY <2>1 DEF NoneLeft
  <2>3. /\ \A q \in Runs : /\ run'[q].occ = run[q].occ /\ run'[q].link = run[q].link
                           /\ q # r => run'[q] = run[q]
        /\ run'[r].status = "failed" /\ run'[r].anchored = FALSE /\ SettleSlot(r, "released")
    BY <1>5, OnceTypes DEF RecoverPartial, RunType
  <2>4. Rows /\ "failed" \in Finished /\ \A w \in news \cup unheard : w \in news' \cup unheard'
    BY <1>2 DEF OnceInv, Finished
  <2>5. /\ Rows' /\ \A q \in Runs \ {r} : Kept(q) /\ run'[q].anchored = run[q].anchored
        /\ \A q \in Runs : OccStays(q)
        /\ \A o \in Occasions : BareFree(o) => BareFree(o)'
    BY <1>2, <1>3, <1>4, <2>2, <2>3, <2>4, RowEnds
  <2>6. Steered(d)
    BY <1>1, <1>3, <1>5, SteersAdmit
  <2>7. \A h \in Hooks : BareFree(h) => BareFree(h)'
    BY <2>5, Kinds
  <2>8. ~Indexed(run[r].occ) \/ (Mine(d, r) /\ Occ(d) \notin overtaken)
    BY <1>1, <1>3, <1>4 DEF Indexed
  <2> QED BY <1>2, <1>3, <1>4, <2>5, <2>6, <2>7, <2>8, SteeredStep
<1>6. CASE (Returns(d, "retry") \/ Breaks(d)) /\ UNCHANGED << run, quotaVars >>
  <2>1. Steered(d)
    BY <1>1, <1>2, <1>6, SteersReturn DEF Breaks
  <2> QED BY <1>2, <1>6, <2>1, SteeredOnly DEF quotaVars
<1> QED BY <1>3, <1>5, <1>6 DEF Recover

-----------------------------------------------------------------------------
(* Dispatch, and its outcome.                                                  *)

LEMMA OnceSkipDispatch ==
  ASSUME IInv, IInv', OnceInv, NEW d \in Dispatchers, SkipDispatch(d) PROVE OnceInv'
<1>1. proc[d].pc = "dispatch" /\ proc[d].pc \in AtRun /\ proc[d].pc # "idle"
  BY DEF SkipDispatch, Doing, AtRun
<1>2. UNCHANGED << mode, work, news, unheard, owner, overtaken, todo >>
  BY DEF SkipDispatch, frozenVars, callerVars
<1>3. PICK r \in Runs : /\ r = Run(d) /\ run[r].occ = Occ(d) /\ Occ(d) \in Occasions
                        /\ Mine(d, r)
  BY <1>1, Place
<1>4. Occ(d) \notin overtaken => NoneLeft(r)
  BY <1>1, <1>3 DEF OnceInv, Position, Found
<1>5. "skipped" \in Finished /\ EndRun(r, "skipped") /\ Returns(d, "done")
  BY <1>3 DEF SkipDispatch, Finished
<1>6. slot[r] = "reserved" /\ run[r].occ \notin overtaken
         => \A w \in Tasks(r) : work[w].status = "failed"
  BY <1>3, <1>4, Emptied
<1>7. /\ \A o \in Occasions : BareFree(o) => BareFree(o)'
      /\ Steered(d) => OnceInv'
  BY <1>2, <1>3, <1>5, <1>6, OnceEndRun
<1>8. ASSUME NEW h \in Hooks \ overtaken, Occ(d) = h PROVE BareFree(h)'
  <2>1. WorkOf(h) = {}
    BY <1>3, <1>4, <1>8, WorkOfRun DEF NoneLeft
  <2> QED BY <1>7, <2>1, Kinds DEF BareFree
<1>9. Steered(d)
  BY <1>1, <1>2, <1>5, <1>8, SteersReturn
<1> QED BY <1>7, <1>9

LEMMA OnceCreateTask ==
  ASSUME IInv, IInv', OnceInv, NEW d \in Dispatchers, CreateTask(d) PROVE OnceInv'
<1>1. proc[d].pc = "dispatch" /\ proc[d].pc \in AtRun /\ mode = "run_only"
  BY DEF CreateTask, Doing, AtRun
<1>2. UNCHANGED << mode, run, slot, news, unheard, owner, overtaken, todo >>
  BY DEF CreateTask, frozenVars, quotaVars, callerVars
<1>3. PICK r \in Runs : /\ r = Run(d) /\ run[r].occ = Occ(d) /\ Occ(d) # NoOccasion
                        /\ Indexed(Occ(d)) => run[r].anchored
                        /\ Serves(d) /\ Mine(d, r)
  BY <1>1, Place
<1>4. PICK w \in Work : Created(w, d, "live") /\ Goes(d, "link", r, w, "none")
  BY <1>3 DEF CreateTask
<1>5. Occ(d) \notin overtaken => NoneLeft(r) /\ Holds(r)
  BY <1>1, <1>3 DEF OnceInv, Position, Found
<1>6. /\ Rows' /\ \A q \in Runs \ {r} : Kept(q)
      /\ \A q \in Runs : OccStays(q) /\ run'[q].anchored = run[q].anchored
      /\ work'[w].run = r
      /\ \A o \in Occasions : BareFree(o)'
  BY <1>1, <1>2, <1>3, <1>4, <1>5, RowTask, Kinds DEF OnceInv, Indexed
<1>7. \A v \in Work : work[v].run # 0 => work'[v].run = work[v].run
  <2>1. work[w].run = 0 /\ \A v \in Work \ {w} : work'[v] = work[v]
    BY <1>3, <1>4, ItemCreated DEF OnceInv
  <2> QED BY <2>1
<1>8. Steered(d)
  BY <1>1, <1>2, <1>3, <1>4, <1>6, SteersTo DEF AtRun
<1>9. \A h \in Hooks : BareFree(h)'
  BY <1>6, Kinds
<1> QED BY <1>2, <1>3, <1>6, <1>7, <1>8, <1>9, SteeredStep

LEMMA OnceCreateIssue ==
  ASSUME IInv, IInv', OnceInv, NEW d \in Dispatchers, CreateIssue(d) PROVE OnceInv'
<1>1. proc[d].pc = "dispatch" /\ proc[d].pc \in AtRun /\ mode = "create_issue"
  BY DEF CreateIssue, Doing, AtRun
<1>2. UNCHANGED << mode, news, unheard, owner, overtaken, todo >>
  BY DEF CreateIssue, frozenVars, callerVars
<1>3. PICK r \in Runs : /\ r = Run(d) /\ run[r].occ = Occ(d) /\ Occ(d) # NoOccasion
                        /\ Indexed(Occ(d)) => run[r].anchored
                        /\ Serves(d) /\ Mine(d, r)
  BY <1>1, Place
<1>4. PICK w \in Work : /\ Created(w, d, "bare") /\ Linked(r, w)
                        /\ Goes(d, "enqueue", r, w, "none")
  BY <1>3 DEF CreateIssue
<1>5. Occ(d) \notin overtaken => NoneLeft(r) /\ Holds(r)
  BY <1>1, <1>3 DEF OnceInv, Position, Found
<1>6. /\ Rows' /\ \A q \in Runs \ {r} : Kept(q)
      /\ \A q \in Runs : OccStays(q) /\ run'[q].anchored = run[q].anchored
      /\ work'[w].run = r
      /\ \A o \in Occasions : o # run[r].occ /\ BareFree(o) => BareFree(o)'
  <2>1. SettleSlot(r, "consumed")
    BY <1>3 DEF CreateIssue
  <2> QED BY <1>1, <1>2, <1>3, <1>4, <1>5, <2>1, RowIssue, Kinds DEF OnceInv, Indexed
<1>7. \A v \in Work : work[v].run # 0 => work'[v].run = work[v].run
  <2>1. work[w].run = 0 /\ \A v \in Work \ {w} : work'[v] = work[v]
    BY <1>3, <1>4, ItemCreated DEF OnceInv
  <2> QED BY <2>1
<1>8. run'[r].occ = Occ(d) /\ (Indexed(Occ(d)) => run'[r].anchored)
  BY <1>3, <1>6 DEF OccStays
<1>9. Steered(d)
  BY <1>1, <1>2, <1>3, <1>4, <1>6, <1>8, SteersTo DEF AtRun
<1>10. ASSUME NEW h \in Hooks \ overtaken
       PROVE  (BareFree(h) => BareFree(h)') \/ (Serves(d) /\ Occ(d) = h)
  BY <1>3, <1>6, Kinds
<1> QED BY <1>2, <1>3, <1>6, <1>7, <1>9, <1>10, SteeredStep

LEMMA OnceDispatchFails ==
  ASSUME IInv, IInv', OnceInv, NEW d \in Dispatchers, DispatchFails(d) PROVE OnceInv'
<1>1. proc[d].pc = "dispatch" /\ proc[d].pc \in AtRun
  BY DEF DispatchFails, Doing, AtRun
<1>2. UNCHANGED << mode, run, slot, work, news, unheard, owner, overtaken, todo >>
  BY DEF DispatchFails, rowVars, frozenVars, quotaVars, callerVars
<1>3. PICK r \in Runs : /\ r = Run(d) /\ run[r].occ = Occ(d)
                        /\ Indexed(Occ(d)) => run[r].anchored
                        /\ Serves(d)
  BY <1>1, Place
<1>4. ASSUME mode = "run_only", Occ(d) \notin overtaken PROVE Tasks(r)' = {}
  <2>1. NoneLeft(r)
    BY <1>1, <1>3, <1>4 DEF OnceInv, Position, Found
  <2>2. Tasks(r) = {}
    BY <1>4, <2>1 DEF OnceInv, Rows, ItemRow, NoneLeft, Tasks
  <2> QED BY <1>2, <2>2 DEF Tasks
<1>5. Goes(d, "failing", r, 0, "none")
  BY <1>3 DEF DispatchFails
<1>6. Steered(d)
  BY <1>1, <1>2, <1>3, <1>4, <1>5, SteersTo DEF AtRun, AtItem
<1> QED BY <1>2, <1>6, SteeredOnly

LEMMA OnceLinkTask ==
  ASSUME IInv, IInv', OnceInv, NEW d \in Dispatchers, LinkTask(d) PROVE OnceInv'
<1>1. proc[d].pc = "link" /\ proc[d].pc \in AtRun \cap AtItem /\ mode = "run_only"
      /\ proc[d].pc # "idle"
  BY DEF LinkTask, Doing, AtRun, AtItem, OnceInv, Position, Kind
<1>2. UNCHANGED << mode, slot, work, news, unheard, owner, overtaken, todo >>
  BY DEF LinkTask, frozenVars, quotaVars, callerVars
<1>3. PICK r \in Runs : /\ r = Run(d) /\ run[r].occ = Occ(d) /\ Occ(d) # NoOccasion
                        /\ Item(d) \in Tasks(r)
  BY <1>1, Place
<1>4. /\ Rows' /\ \A q \in Runs : Kept(q) /\ OccStays(q) /\ run'[q].anchored = run[q].anchored
  <2>1. CASE Linked(r, Item(d))
    BY <1>1, <1>2, <1>3, <2>1, RowLinks DEF OnceInv, Tasks
  <2>2. CASE UNCHANGED run
    BY <1>2, <2>2, RowsStay DEF OnceInv
  <2> QED BY <1>3, <2>1, <2>2 DEF LinkTask
<1>5. \A h \in Hooks : BareFree(h)'
  BY <1>1, <1>2, <1>4, NoBare, Kinds
<1>6. Steered(d)
  BY <1>1, <1>2, <1>5, SteersReturn DEF LinkTask
<1> QED BY <1>2, <1>4, <1>5, <1>6, SteeredStep

\* An issue gets its task.
LEMMA Enqueued ==
  ASSUME IInv, IInv', OnceInv, UNCHANGED << mode, run, slot, overtaken, news, unheard >>,
         mode = "create_issue", NEW r \in Runs, NEW w \in Tasks(r), work[w].status # "deleted",
         TaskEnqueued(w)
  PROVE  /\ Rows' /\ \A q \in Runs : Kept(q) /\ OccStays(q) /\ run'[q].anchored = run[q].anchored
         /\ \A o \in Occasions : BareFree(o) => BareFree(o)'
         /\ \A v \in Work : work'[v].run = work[v].run
         /\ \A h \in Hooks \ overtaken : run[r].occ = h => BareFree(h)'
<1>1. w \in Work /\ work[w].run = r
  BY DEF Tasks
<1>2. /\ \A v \in Work : work'[v].run = work[v].run
      /\ \A v \in Work \ {w} : work'[v].status = work[v].status
      /\ work'[w].status # "bare"
  BY <1>1, OnceTypes DEF TaskEnqueued, WorkType
<1>3. /\ Rows' /\ \A q \in Runs : Kept(q) /\ OccStays(q) /\ run'[q].anchored = run[q].anchored
      /\ \A o \in Occasions : BareFree(o) => BareFree(o)'
  <2>1. CASE work[w].status = "bare"
    <3>1. work' = [work EXCEPT ![w].status = "live"]
      BY <2>1 DEF TaskEnqueued
    <3> QED BY <1>1, <2>1, <3>1, ItemMoves DEF OnceInv
  <2>2. CASE work[w].status # "bare"
    BY <2>2, RowsStay DEF TaskEnqueued, OnceInv
  <2> QED BY <2>1, <2>2
<1>4. ASSUME NEW h \in Hooks \ overtaken, run[r].occ = h PROVE BareFree(h)'
  <2> SUFFICES ASSUME NEW v \in WorkOf(h)', work'[v].status = "bare" PROVE FALSE
    BY DEF BareFree
  <2>1. v \in Work \ {w} /\ work[v].status = "bare"
    BY <1>2 DEF WorkOf
  <2>2. v \in WorkOf(h)
    BY <1>2, <2>1 DEF WorkOf
  <2>3. work[v].run = r
    BY <1>4, <2>2, WorkOfRun DEF Tasks
  <2>4. ItemOf(v, r) /\ ItemOf(w, r)
    BY <1>1, <1>4, <2>1, <2>3, Kinds DEF OnceInv, Rows, ItemRow
  <2> QED BY <2>1, <2>4 DEF ItemOf
<1> QED BY <1>2, <1>3, <1>4

LEMMA OnceEnqueue ==
  ASSUME IInv, IInv', OnceInv, NEW d \in Dispatchers, EnqueueIssueTask(d) PROVE OnceInv'
<1>1. proc[d].pc = "enqueue" /\ proc[d].pc \in AtRun \cap AtItem /\ mode = "create_issue"
      /\ proc[d].pc # "idle"
  BY DEF EnqueueIssueTask, Doing, AtRun, AtItem, OnceInv, Position, Kind
<1>2. UNCHANGED << mode, run, slot, news, unheard, owner, overtaken, todo >>
  BY DEF EnqueueIssueTask, frozenVars, quotaVars, callerVars
<1>3. PICK r \in Runs : /\ r = Run(d) /\ run[r].occ = Occ(d)
                        /\ Indexed(Occ(d)) => run[r].anchored
                        /\ Serves(d) /\ Item(d) \in Tasks(r)
  BY <1>1, Place
<1>4. CASE /\ work[Item(d)].status # "deleted" /\ TaskEnqueued(Item(d)) /\ Returns(d, "done")
  <2>1. /\ Rows' /\ \A q \in Runs : Kept(q) /\ OccStays(q) /\ run'[q].anchored = run[q].anchored
        /\ \A o \in Occasions : BareFree(o) => BareFree(o)'
        /\ \A v \in Work : work'[v].run = work[v].run
        /\ \A h \in Hooks \ overtaken : run[r].occ = h => BareFree(h)'
    BY <1>1, <1>2, <1>3, <1>4, Enqueued
  <2>2. Steered(d)
    BY <1>1, <1>2, <1>3, <1>4, <2>1, SteersReturn
  <2>3. \A h \in Hooks : BareFree(h) => BareFree(h)'
    BY <2>1, Kinds
  <2> QED BY <1>2, <2>1, <2>2, <2>3, SteeredStep
<1>5. CASE Goes(d, "failing", r, 0, "none") /\ UNCHANGED work
  <2>1. Steered(d)
    BY <1>1, <1>2, <1>3, <1>5, SteersTo DEF AtRun, AtItem
  <2> QED BY <1>2, <1>5, <2>1, SteeredOnly
<1> QED BY <1>3, <1>4, <1>5 DEF EnqueueIssueTask

LEMMA OnceEnsure ==
  ASSUME IInv, IInv', OnceInv, NEW d \in Dispatchers, EnsureIssueTask(d) PROVE OnceInv'
<1>1. proc[d].pc = "ensure" /\ proc[d].pc \in AtRun \cap AtItem /\ mode = "create_issue"
      /\ proc[d].pc # "idle"
  BY DEF EnsureIssueTask, Doing, AtRun, AtItem, OnceInv, Position, Kind
<1>2. UNCHANGED << mode, run, slot, news, unheard, owner, overtaken, todo >>
  BY DEF EnsureIssueTask, frozenVars, quotaVars, callerVars
<1>3. PICK r \in Runs : r = Run(d) /\ run[r].occ = Occ(d) /\ Item(d) \in Tasks(r)
  BY <1>1, Place
<1>4. CASE /\ work[Item(d)].status # "deleted" /\ TaskEnqueued(Item(d))
           /\ Returns(d, proc[d].seen)
  <2>1. /\ Rows' /\ \A q \in Runs : Kept(q) /\ OccStays(q) /\ run'[q].anchored = run[q].anchored
        /\ \A o \in Occasions : BareFree(o) => BareFree(o)'
        /\ \A v \in Work : work'[v].run = work[v].run
        /\ \A h \in Hooks \ overtaken : run[r].occ = h => BareFree(h)'
    BY <1>1, <1>2, <1>3, <1>4, Enqueued
  <2>2. Steered(d)
    BY <1>1, <1>2, <1>3, <1>4, <2>1, SteersReturn
  <2>3. \A h \in Hooks : BareFree(h) => BareFree(h)'
    BY <2>1, Kinds
  <2> QED BY <1>2, <2>1, <2>2, <2>3, SteeredStep
<1>5. CASE (Returns(d, "failed") \/ Breaks(d)) /\ UNCHANGED work
  <2>1. Steered(d)
    BY <1>1, <1>2, <1>5, SteersReturn DEF Breaks
  <2> QED BY <1>2, <1>5, <2>1, SteeredOnly
<1> QED BY <1>4, <1>5 DEF EnsureIssueTask

LEMMA OnceFailRun ==
  ASSUME IInv, IInv', OnceInv, NEW d \in Dispatchers, FailRun(d) PROVE OnceInv'
<1>1. proc[d].pc = "failing" /\ proc[d].pc \in AtRun /\ proc[d].pc # "idle"
  BY DEF FailRun, Doing, AtRun
<1>2. UNCHANGED << mode, work, news, unheard, owner, overtaken, todo >>
  BY DEF FailRun, frozenVars, callerVars
<1>3. PICK r \in Runs : /\ r = Run(d) /\ run[r].occ = Occ(d) /\ Occ(d) \in Occasions
                        /\ Mine(d, r)
  BY <1>1, Place
<1>4. Steered(d)
  BY <1>1, <1>2, SteersReturn DEF FailRun
<1>5. CASE EndRun(r, "failed")
  <2>1. Occ(d) \notin overtaken /\ mode = "run_only" => NoneLeft(r)
    BY <1>1, <1>3 DEF OnceInv, Position, Found, NoneLeft
  <2>2. slot[r] = "reserved" /\ run[r].occ \notin overtaken
           => \A w \in Tasks(r) : work[w].status = "failed"
    BY <1>3, <2>1, Emptied
  <2>3. "failed" \in Finished
    BY DEF Finished
  <2> QED BY <1>2, <1>3, <1>4, <1>5, <2>2, <2>3, OnceEndRun
<1>6. CASE UNCHANGED << run, quotaVars >>
  BY <1>2, <1>4, <1>6, SteeredOnly DEF quotaVars
<1> QED BY <1>3, <1>5, <1>6 DEF FailRun

LEMMA OnceFinish ==
  ASSUME IInv, IInv', OnceInv, NEW d \in Dispatchers, FinishAttempt(d) PROVE OnceInv'
<1>1. proc[d].pc = "finish" /\ Occ(d) \in Occasions /\ Occ(d) \notin Clicks /\ Ends(d)
  BY DEF FinishAttempt, Doing, OnceInv, Position, Kind
<1>2. UNCHANGED << mode, run, slot, work, news, unheard, overtaken >>
  BY DEF FinishAttempt, rowVars, frozenVars, quotaVars
<1>3. /\ Rows' /\ \A q \in Runs : Kept(q) /\ OccStays(q) /\ run'[q].anchored = run[q].anchored
      /\ \A o \in Occasions : BareFree(o) => BareFree(o)'
  BY <1>2, RowsStay DEF OnceInv
<1>4. proc'[d].pc = "idle" /\ Position(d)' /\ \A e \in Dispatchers \ {d} : proc'[e] = proc[e]
  BY <1>1, EndsAt, SteersEnds DEF Steered
<1>5. \/ /\ owner[Occ(d)] = d
         /\ todo' = [todo EXCEPT ![Occ(d)] = RowAfter(Occ(d), proc[d].seen)]
         /\ owner' = [owner EXCEPT ![Occ(d)] = Nobody]
      \/ UNCHANGED << todo, owner >>
  BY DEF FinishAttempt
<1>6. owner \in [Occasions -> Dispatchers \cup {Nobody}] /\ DOMAIN todo = Occasions
  BY DEF IInv, Callers
<1>7. Leases'
  <2>1. ASSUME NEW e \in Dispatchers, Serves(e)', Occ(e)' \notin Clicks \cup overtaken
        PROVE  owner'[Occ(e)'] = e
    <3>1. e # d /\ Serves(e) /\ Occ(e)' = Occ(e)
      BY <1>4, <2>1 DEF Serves, Occ
    <3>2. owner[Occ(e)] = e /\ Occ(e) \in Occasions
      BY <2>1, <3>1 DEF OnceInv, Leases, Position, Kind, Serves
    <3>3. owner'[Occ(e)] = e
      BY <1>5, <1>6, <3>1, <3>2
    <3> QED BY <3>1, <3>3
  <2>2. ASSUME NEW h \in Hooks, todo'[h] = "done" PROVE owner'[h] = Nobody
    <3>1. h \in Occasions
      BY Kinds
    <3> QED BY <1>1, <1>5, <1>6, <2>2, <3>1 DEF OnceInv, Leases
  <2> QED BY <1>2, <2>1, <2>2 DEF Leases
<1>8. OwnRuns'
  <2>1. "idle" \notin AtRun
    BY DEF AtRun
  <2> QED BY <1>4, <2>1 DEF OnceInv, OwnRuns, Run, Occ
<1>9. ASSUME NEW h \in Hooks \ overtaken, todo'[h] = "done" PROVE BareFree(h)' \/ todo[h] = "done"
  <2>1. h \in Occasions
    BY Kinds
  <2>2. CASE Occ(d) = h /\ proc[d].seen = "done"
    <3>1. BareFree(h)
      BY <1>1, <1>9, <2>2 DEF OnceInv, Position, Found
    <3> QED BY <1>3, <2>1, <3>1
  <2>3. CASE Occ(d) = h /\ proc[d].seen # "done"
    BY <1>5, <1>6, <1>9, <2>1, <2>3 DEF RowAfter
  <2>4. CASE Occ(d) # h
    BY <1>5, <1>6, <1>9, <2>1, <2>4
  <2> QED BY <2>2, <2>3, <2>4
<1>10. \A h \in Hooks : BareFree(h) => BareFree(h)'
  BY <1>3, Kinds
<1>11. /\ overtaken \subseteq overtaken' /\ overtaken' \subseteq Plans \cup Hooks
       /\ \A q \in Runs : /\ OccStays(q) /\ (Kept(q) \/ Mine(d, q))
                          /\ run[q].anchored => \/ run'[q].anchored \/ ~Indexed(run[q].occ)
                                                \/ Mine(d, q) /\ Occ(d) \notin overtaken
       /\ \A w \in Work : work[w].run # 0 => work'[w].run = work[w].run
  BY <1>2, <1>3, OnceTypes
<1> QED BY <1>2, <1>3, <1>4, <1>7, <1>8, <1>9, <1>10, <1>11, StepKeeps

-----------------------------------------------------------------------------
(* The callers' steps.                                                         *)

LEMMA OnceCaller ==
  ASSUME IInv, IInv', OnceInv, UNCHANGED << mode, run, slot, work, news, unheard >>,
         overtaken \subseteq overtaken', NEW d \in Dispatchers \cup {Nobody},
         \A e \in Dispatchers \ {d} : proc'[e] = proc[e],
         d \in Dispatchers => Position(d)' /\ proc'[d].pc \notin AtRun,
         Leases', \A h \in Hooks : todo'[h] = "done" => todo[h] = "done"
  PROVE  OnceInv'
<1>1. /\ Rows' /\ \A q \in Runs : Kept(q) /\ OccStays(q) /\ run'[q].anchored = run[q].anchored
      /\ \A o \in Occasions : BareFree(o) => BareFree(o)'
  BY RowsStay DEF OnceInv
<1>2. OwnRuns'
  BY DEF OnceInv, OwnRuns, Run, Occ
<1>3. \A h \in Hooks : BareFree(h) => BareFree(h)'
  BY <1>1, Kinds
<1>4. /\ overtaken' \subseteq Plans \cup Hooks
      /\ \A q \in Runs : /\ OccStays(q) /\ (Kept(q) \/ Mine(d, q))
                         /\ run[q].anchored => \/ run'[q].anchored \/ ~Indexed(run[q].occ)
                                               \/ Mine(d, q) /\ Occ(d) \notin overtaken
      /\ \A w \in Work : work[w].run # 0 => work'[w].run = work[w].run
  BY <1>1 DEF IInv, Callers
<1> QED BY <1>1, <1>2, <1>3, <1>4, StepKeeps

LEMMA BeginsAt ==
  ASSUME IInv, NEW d \in Dispatchers, NEW pc \in {"receive", "lookup", "admit"}, NEW o \in Occasions,
         Begins(d, pc, o), pc = "receive" => o \in Hooks, pc = "lookup" => o \notin Clicks
  PROVE  /\ proc[d].pc = "idle" /\ proc'[d].pc = pc /\ Occ(d)' = o /\ proc'[d].pc \notin AtRun
         /\ \A e \in Dispatchers \ {d} : proc'[e] = proc[e]
         /\ Position(d)'
<1>1. /\ proc[d].pc = "idle" /\ proc'[d].pc = pc /\ Occ(d)' = o
      /\ \A e \in Dispatchers \ {d} : proc'[e] = proc[e]
  BY OnceTypes DEF Begins, Doing, Occ, Unused
<1>2. Position(d)'
  BY <1>1 DEF Position, Kind, Stands, Found, AtRun, AtItem
<1> QED BY <1>1, <1>2 DEF AtRun

LEMMA OnceBegins ==
  ASSUME IInv, IInv', OnceInv, NEW d \in Dispatchers,
         \/ \E h \in Hooks : ReceiveHook(d, h)
         \/ \E o \in Plans \cup Hooks : Take(d, o)
         \/ \E k \in Clicks : Click(d, k)
  PROVE  OnceInv'
<1>0. owner \in [Occasions -> Dispatchers \cup {Nobody}] /\ DOMAIN todo = Occasions
  BY DEF IInv, Callers
<1>1. ASSUME NEW h \in Hooks, ReceiveHook(d, h) PROVE OnceInv'
  <2>1. /\ proc[d].pc = "idle" /\ proc'[d].pc = "receive" /\ proc'[d].pc \notin AtRun
        /\ \A e \in Dispatchers \ {d} : proc'[e] = proc[e]
        /\ Position(d)'
    BY <1>1, BeginsAt, Kinds DEF ReceiveHook
  <2>2. /\ UNCHANGED << mode, run, slot, work, news, unheard, owner, overtaken >>
        /\ todo' = [todo EXCEPT ![h] = "todo"]
    BY <1>1 DEF ReceiveHook, rowVars, frozenVars, quotaVars
  <2>3. \A g \in Hooks : todo'[g] = "done" => todo[g] = "done"
    BY <1>0, <2>2, Kinds
  <2>4. Leases'
    BY <2>1, <2>2, <2>3 DEF OnceInv, Leases, Serves, Occ
  <2> QED BY <2>1, <2>2, <2>3, <2>4, OnceCaller
<1>2. ASSUME NEW o \in Plans \cup Hooks, Take(d, o) PROVE OnceInv'
  <2>1. /\ proc[d].pc = "idle" /\ proc'[d].pc = "lookup" /\ proc'[d].pc \notin AtRun
        /\ Occ(d)' = o /\ \A e \in Dispatchers \ {d} : proc'[e] = proc[e]
        /\ Position(d)'
    BY <1>2, BeginsAt, Kinds DEF Take
  <2>2. /\ UNCHANGED << mode, run, slot, work, news, unheard, todo, overtaken >>
        /\ todo[o] = "todo" /\ owner[o] = Nobody /\ owner' = [owner EXCEPT ![o] = d]
    BY <1>2 DEF Take, rowVars, frozenVars, quotaVars
  <2>3. Leases'
    <3>1. ASSUME NEW e \in Dispatchers \ {d}, Serves(e)', Occ(e)' \notin Clicks \cup overtaken
          PROVE  owner'[Occ(e)'] = e
      <4>1. Occ(e)' = Occ(e) /\ Serves(e)
        BY <2>1, <3>1 DEF Serves, Occ
      <4>2. owner[Occ(e)] = e
        BY <3>1, <4>1 DEF OnceInv, Leases
      <4>3. owner'[Occ(e)] = e
        BY <1>0, <2>2, <4>2, Kinds
      <4> QED BY <4>1, <4>3
    <3>2. owner'[Occ(d)'] = d
      BY <1>0, <2>1, <2>2, Kinds
    <3>3. ASSUME NEW h \in Hooks, todo'[h] = "done" PROVE owner'[h] = Nobody
      BY <1>0, <2>2, <3>3, Kinds DEF OnceInv, Leases
    <3> QED BY <2>2, <3>1, <3>2, <3>3 DEF Leases
  <2> QED BY <2>1, <2>2, <2>3, OnceCaller
<1>3. ASSUME NEW k \in Clicks, Click(d, k) PROVE OnceInv'
  <2>1. /\ proc[d].pc = "idle" /\ proc'[d].pc = "admit" /\ proc'[d].pc \notin AtRun
        /\ Occ(d)' = k /\ \A e \in Dispatchers \ {d} : proc'[e] = proc[e]
        /\ Position(d)'
    BY <1>3, BeginsAt, Kinds DEF Click
  <2>2. UNCHANGED << mode, run, slot, work, news, unheard, todo, owner, overtaken >>
    BY <1>3 DEF Click, rowVars, frozenVars, quotaVars
  <2>3. Leases'
    <3>1. ASSUME NEW e \in Dispatchers, Serves(e)', Occ(e)' \notin Clicks \cup overtaken
          PROVE  owner'[Occ(e)'] = e
      <4>1. Occ(e)' = Occ(e) /\ Serves(e)
        BY <2>1, <3>1 DEF Serves, Occ
      <4> QED BY <2>2, <3>1, <4>1 DEF OnceInv, Leases
    <3> QED BY <2>2, <3>1 DEF OnceInv, Leases
  <2> QED BY <2>1, <2>2, <2>3, OnceCaller
<1> QED BY <1>1, <1>2, <1>3

LEMMA OnceDies ==
  ASSUME IInv, IInv', OnceInv, NEW d \in Dispatchers, Dies(d) PROVE OnceInv'
<1>1. /\ proc'[d].pc = "idle" /\ proc'[d].pc \notin AtRun /\ Position(d)'
      /\ \A e \in Dispatchers \ {d} : proc'[e] = proc[e]
  BY EndsAt, SteersEnds DEF Dies, Steered, AtRun
<1>2. /\ UNCHANGED << mode, run, slot, work, news, unheard, todo, overtaken >>
      /\ owner' = [o \in Occasions |-> IF owner[o] = d THEN Nobody ELSE owner[o]]
  BY DEF Dies, rowVars, frozenVars, quotaVars
<1>3. Leases'
  <2>1. ASSUME NEW e \in Dispatchers, Serves(e)', Occ(e)' \notin Clicks \cup overtaken
        PROVE  owner'[Occ(e)'] = e
    <3>1. Occ(e)' = Occ(e) /\ Serves(e) /\ e # d
      BY <1>1, <2>1 DEF Serves, Occ
    <3>2. owner[Occ(e)] = e /\ Occ(e) \in Occasions
      BY <2>1, <3>1 DEF OnceInv, Leases, Position, Kind, Serves
    <3>3. owner'[Occ(e)] = e
      BY <1>2, <3>1, <3>2
    <3> QED BY <3>1, <3>3
  <2>2. ASSUME NEW h \in Hooks, todo'[h] = "done" PROVE owner'[h] = Nobody
    BY <1>2, <2>2, Kinds DEF OnceInv, Leases
  <2> QED BY <1>2, <2>1, <2>2 DEF Leases
<1> QED BY <1>1, <1>2, <1>3, OnceCaller

LEMMA OnceLease ==
  ASSUME IInv, IInv', OnceInv, NEW h \in Plans \cup Hooks, LeaseRunsOut(h) PROVE OnceInv'
<1>1. /\ UNCHANGED << mode, run, slot, work, news, unheard, todo, proc >>
      /\ owner' = [owner EXCEPT ![h] = Nobody] /\ overtaken' = overtaken \cup {h}
  BY DEF LeaseRunsOut, rowVars, frozenVars, quotaVars
<1>2. owner \in [Occasions -> Dispatchers \cup {Nobody}]
  BY DEF IInv, Callers
<1>3. Leases'
  <2>1. ASSUME NEW e \in Dispatchers, Serves(e), Occ(e) \notin Clicks \cup overtaken'
        PROVE  owner'[Occ(e)] = e
    BY <1>1, <1>2, <2>1 DEF OnceInv, Leases
  <2>2. \A e \in Dispatchers : (Serves(e)' <=> Serves(e)) /\ Occ(e)' = Occ(e)
    BY <1>1 DEF Serves, Occ
  <2>3. ASSUME NEW g \in Hooks, todo'[g] = "done" PROVE owner'[g] = Nobody
    BY <1>1, <1>2, <2>3, Kinds DEF OnceInv, Leases
  <2> QED BY <2>1, <2>2, <2>3 DEF Leases
<1>4. \A e \in Dispatchers \ {Nobody} : proc'[e] = proc[e]
  BY <1>1
<1> QED BY <1>1, <1>3, <1>4, Kinds, OnceCaller

-----------------------------------------------------------------------------
(* The work's steps, and the reconciler's.                                     *)

LEMMA OnceBehind ==
  ASSUME IInv, IInv', OnceInv, UNCHANGED << mode, proc, callerVars >>, Rows',
         \A q \in Runs : /\ OccStays(q)
                         /\ Kept(q) \/ \A e \in Dispatchers : Run(e) # q
                         /\ run[q].anchored => run'[q].anchored \/ ~Indexed(run[q].occ),
         \A w \in Work : work'[w].run = work[w].run,
         \A o \in Occasions : BareFree(o) => BareFree(o)'
  PROVE  OnceInv'
<1>1. UNCHANGED << todo, owner, overtaken >>
  BY DEF callerVars
<1>2. Leases'
  <2>1. \A e \in Dispatchers : (Serves(e)' <=> Serves(e)) /\ Occ(e)' = Occ(e)
    BY DEF Serves, Occ
  <2> QED BY <1>1, <2>1 DEF OnceInv, Leases
<1>3. OwnRuns'
  BY DEF OnceInv, OwnRuns, Run, Occ
<1>4. \A h \in Hooks : BareFree(h) => BareFree(h)'
  BY Kinds
<1>5. overtaken \subseteq overtaken' /\ overtaken' \subseteq Plans \cup Hooks /\ Nobody \notin Dispatchers
  BY <1>1, Kinds, OnceTypes
<1> QED BY <1>1, <1>2, <1>3, <1>4, <1>5, StepKeeps

LEMMA OnceWork ==
  ASSUME IInv, IInv', OnceInv, NEW w \in Work, WorkStep(w) PROVE OnceInv'
<1>0. Rows /\ slot \in [Runs -> {"none", "reserved", "consumed", "released"}]
  BY OnceTypes DEF OnceInv
<1>1. ASSUME WorkEnds(w) PROVE OnceInv'
  <2>1. UNCHANGED << mode, proc, callerVars, run, slot, unheard, overtaken >>
    BY <1>1 DEF WorkEnds, frozenVars, quotaVars, callerVars
  <2>2. PICK status \in {"completed", "failed"} : work' = [work EXCEPT ![w].status = status]
    BY <1>1 DEF WorkEnds
  <2>3. /\ Rows' /\ \A q \in Runs : Kept(q) /\ OccStays(q) /\ run'[q].anchored = run[q].anchored
        /\ \A o \in Occasions : BareFree(o) => BareFree(o)'
    BY <1>0, <1>1, <2>1, <2>2, ItemMoves DEF WorkEnds
  <2>4. \A v \in Work : work'[v].run = work[v].run
    BY <2>2, OnceTypes DEF WorkType
  <2> QED BY <2>1, <2>3, <2>4, OnceBehind
<1>2. ASSUME MissEnd(w) PROVE OnceInv'
  <2>1. /\ UNCHANGED << mode, proc, callerVars, run, slot, work, overtaken >>
        /\ news \cup unheard \subseteq news' \cup unheard'
    BY <1>2 DEF MissEnd, frozenVars, quotaVars, callerVars
  <2>2. /\ Rows' /\ \A q \in Runs : Kept(q) /\ OccStays(q) /\ run'[q].anchored = run[q].anchored
        /\ \A o \in Occasions : BareFree(o) => BareFree(o)'
    BY <1>0, <2>1, RowsStay
  <2> QED BY <2>1, <2>2, OnceBehind
<1>3. ASSUME DeleteIssue(w) PROVE OnceInv'
  <2>1. /\ UNCHANGED << mode, proc, callerVars, overtaken >>
        /\ work' = [work EXCEPT ![w].status = "deleted"] /\ work[w].status # "none"
    BY <1>3 DEF DeleteIssue, frozenVars, callerVars
  <2>2. PICK r \in Runs : work[w].run = r
    BY <1>0, <2>1, OnceTypes DEF Rows, ItemRow
  <2>3. /\ Rows' /\ \A q \in Runs : Kept(q) /\ OccStays(q) /\ run'[q].anchored = run[q].anchored
        /\ \A o \in Occasions : BareFree(o) => BareFree(o)'
    BY <1>0, <1>3, <2>1, <2>2, IssueDeleted
  <2>4. \A v \in Work : work'[v].run = work[v].run
    BY <2>1, OnceTypes DEF WorkType
  <2> QED BY <2>1, <2>3, <2>4, OnceBehind
<1>4. ASSUME HearEnd(w) PROVE OnceInv'
  <2>1. /\ UNCHANGED << mode, proc, callerVars, work, unheard, overtaken >>
        /\ w \in news /\ news' = news \ {w} /\ work[w].status \in {"completed", "failed"}
    BY <1>4 DEF HearEnd, frozenVars, callerVars, IInv, Items
  <2>2. PICK r \in Runs : work[w].run = r /\ run[r].occ # NoOccasion
    BY <1>0, <2>1, OnceTypes DEF Rows, ItemRow
  <2>3. CASE EndRun(r, work[w].status)
    <3> DEFINE state == IF work[w].status = "completed" THEN "consumed" ELSE "released"
    <3>1. /\ \A q \in Runs : /\ run'[q].occ = run[q].occ /\ run'[q].link = run[q].link
                             /\ run'[q].anchored = run[q].anchored
                             /\ q # r => run'[q] = run[q]
          /\ run'[r].status = work[w].status
      BY <2>3, OnceTypes DEF EndRun, RunType
    <3>2. /\ state \in {"consumed", "released"} /\ SettleSlot(r, state)
          /\ state = "released" => work[w].status = "failed"
          /\ state = "consumed" \/ work[w].status = "failed"
      BY <2>1, <2>3 DEF EndRun
    <3> HIDE DEF state
    <3>3. ASSUME state = "released", slot[r] = "reserved", run[r].occ \notin overtaken,
                 NEW v \in Tasks(r)
          PROVE  work[v].status = "failed"
      <4>1. ItemOf(w, r) /\ (mode = "run_only" \/ mode = "create_issue")
        BY <1>0, <2>2, <3>3, Kinds, OnceTypes DEF Rows, ItemRow
      <4>2. v = w
        BY <3>3, <4>1 DEF ItemOf
      <4> QED BY <3>2, <3>3, <4>2
    <3>4. w \in Tasks(r) /\ \A v \in news \cup unheard : v = w \/ v \in news' \cup unheard'
      BY <2>1, <2>2 DEF Tasks
    <3>5. work[w].status \in Finished
      BY <2>1 DEF Finished
    <3>6. /\ Rows' /\ \A q \in Runs \ {r} : Kept(q)
          /\ \A q \in Runs : OccStays(q)
          /\ \A o \in Occasions : BareFree(o) => BareFree(o)'
      BY <1>0, <2>1, <2>2, <3>1, <3>2, <3>3, <3>4, <3>5, RowEnds
    <3>7. Kept(r)
      <4>1. ~NoneLeft(r)
        BY <2>1, <3>4 DEF NoneLeft
      <4> QED BY <2>1, <4>1 DEF Kept, Tasks
    <3> QED BY <2>1, <3>1, <3>6, <3>7, OnceBehind
  <2>4. CASE mode # "run_only" /\ UNCHANGED << run, quotaVars >>
    <3>1. /\ Rows' /\ \A q \in Runs : Kept(q) /\ OccStays(q) /\ run'[q].anchored = run[q].anchored
          /\ \A o \in Occasions : BareFree(o) => BareFree(o)'
      BY <1>0, <2>1, <2>4, RowsStay DEF quotaVars
    <3> QED BY <2>1, <3>1, OnceBehind
  <2> QED BY <1>4, <2>2, <2>3, <2>4 DEF HearEnd
<1> QED BY <1>1, <1>2, <1>3, <1>4 DEF WorkStep

LEMMA OnceReconcile ==
  ASSUME IInv, IInv', OnceInv, NEW r \in Runs, Reconcile(r) PROVE OnceInv'
<1>1. Rows /\ RunRow(r) /\ slot[r] = "reserved"
  BY DEF OnceInv, Rows, Reconcile
<1>2. /\ run[r].occ \in Clicks /\ Tasks(r) = {} /\ RecoverPartial(r)
      /\ \A e \in Dispatchers : Run(e) # r
  BY <1>1 DEF Reconcile, RunRow, Finished
<1>3. UNCHANGED << mode, proc, callerVars, work, news, unheard, overtaken >>
  BY DEF Reconcile, frozenVars, callerVars
<1>4. /\ \A q \in Runs : /\ run'[q].occ = run[q].occ /\ run'[q].link = run[q].link
                         /\ q # r => run'[q] = run[q]
      /\ run'[r].status = "failed" /\ run'[r].anchored = FALSE /\ SettleSlot(r, "released")
  BY <1>2, OnceTypes DEF RecoverPartial, RunType
<1>5. /\ run[r].occ # NoOccasion /\ run[r].occ \notin Hooks /\ run[r].occ \notin Plans
      /\ "failed" \in Finished /\ \A w \in news \cup unheard : w \in news' \cup unheard'
      /\ \A w \in Tasks(r) : work[w].status = "failed"
  BY <1>2, <1>3, Kinds DEF Finished
<1>6. /\ Rows' /\ \A q \in Runs \ {r} : Kept(q) /\ run'[q].anchored = run[q].anchored
      /\ \A q \in Runs : OccStays(q)
      /\ \A o \in Occasions : BareFree(o) => BareFree(o)'
  BY <1>1, <1>3, <1>4, <1>5, RowEnds
<1>7. \A w \in Work : work'[w].run = work[w].run
  BY <1>3
<1>8. ~Indexed(run[r].occ)
  BY <1>2, Kinds DEF Indexed
<1> QED BY <1>2, <1>3, <1>6, <1>7, <1>8, OnceBehind

LEMMA OnceSteps == ASSUME IInv, IInv', OnceInv, [DispatchNext]_dispatchVars PROVE OnceInv'
<1>1. ASSUME NEW d \in Dispatchers, DispatchStep(d) PROVE OnceInv'
  BY <1>1, OnceLookUp, OnceReuse, OnceRefuse, OnceSkipAdmission, OnceReserve, OnceFindTask,
     OnceRelink, OnceResync, OnceRecover, OnceSkipDispatch, OnceCreateTask, OnceCreateIssue,
     OnceDispatchFails, OnceLinkTask, OnceEnqueue, OnceEnsure, OnceFailRun, OnceFinish
     DEF DispatchStep
<1>2. CASE UNCHANGED dispatchVars
  <2>1. UNCHANGED << mode, proc, callerVars, run, slot, work, news, unheard, overtaken >>
    BY <1>2 DEF dispatchVars, rowVars, frozenVars, quotaVars, callerVars
  <2>2. /\ Rows' /\ \A q \in Runs : Kept(q) /\ OccStays(q) /\ run'[q].anchored = run[q].anchored
        /\ \A o \in Occasions : BareFree(o) => BareFree(o)'
    BY <2>1, RowsStay DEF OnceInv
  <2> QED BY <2>1, <2>2, OnceBehind
<1> QED BY <1>1, <1>2, OnceBegins, OnceDies, OnceLease, OnceWork, OnceReconcile DEF DispatchNext

LEMMA OnceAlways == DispatchSpec => [](IInv /\ OnceInv)
<1>1. IInv /\ OnceInv /\ [DispatchNext]_dispatchVars => (IInv /\ OnceInv)'
  BY Inductive, OnceSteps
<1> QED BY <1>1, InitHolds, OnceInitHolds, PTL DEF DispatchSpec

-----------------------------------------------------------------------------

LEMMA AtMostOne ==
  ASSUME NEW S, \A v, w \in S : v = w PROVE Cardinality(S) <= 1
<1>1. CASE S = {}
  BY <1>1, FS_EmptySet
<1>2. CASE S # {}
  <2>1. PICK w \in S : TRUE
    BY <1>2
  <2>2. S = {w}
    BY <2>1
  <2>3. Cardinality({w}) = 1
    BY FS_Singleton
  <2> QED BY <2>2, <2>3
<1> QED BY <1>1, <1>2

LEMMA OneItem ==
  ASSUME IInv, OnceInv, NEW o \in Occasions \ overtaken, NEW v \in WorkOf(o), NEW w \in WorkOf(o),
         o \in Clicks => work[v].status # "failed" /\ work[w].status # "failed"
  PROVE  v = w
<1> DEFINE q == work[v].run  r == work[w].run
<1>1. /\ v \in Work /\ q \in Runs /\ run[q].occ = o /\ work[v].status # "deleted"
      /\ w \in Work /\ r \in Runs /\ run[r].occ = o /\ work[w].status # "deleted"
  BY OnceTypes DEF WorkOf
<1>2. ItemOf(v, q) /\ ItemOf(w, r) /\ v \in Tasks(q) /\ w \in Tasks(r)
  BY <1>1, Kinds DEF OnceInv, Rows, ItemRow, Tasks
<1>3. q = r
  <2>1. CASE o \in Clicks
    <3>1. Holds(q) /\ Holds(r)
      BY <1>2, <2>1 DEF ItemOf
    <3> QED BY <1>1, <3>1 DEF OnceInv, Rows, OneRun
  <2>2. CASE o \in Plans \cup Hooks
    <3>1. RunRow(q) /\ RunRow(r) /\ ~NoneLeft(q) /\ ~NoneLeft(r)
      BY <1>1, <1>2 DEF OnceInv, Rows, NoneLeft
    <3>2. run[q].anchored /\ run[r].anchored
      BY <1>1, <2>2, <3>1 DEF RunRow
    <3> QED BY <1>1, <3>2 DEF OnceInv, Rows, OneRun
  <2> QED BY <2>1, <2>2, Kinds
<1> HIDE DEF q, r
<1>4. mode \in {"run_only", "create_issue"}
  BY OnceTypes
<1> QED BY <1>1, <1>2, <1>3, <1>4 DEF ItemOf

\* A plan, and a delivery whose worker kept its lease, is worked on at most once, and the
\* requests of one key have at most one item that did not fail: whatever attempt died, was
\* retried, found a partial run or raced another at the unique index.
THEOREM WorkIsDoneOnce == DispatchSpec => []WorkOnce
<1>1. IInv /\ OnceInv => WorkOnce
  <2> SUFFICES ASSUME IInv, OnceInv PROVE WorkOnce OBVIOUS
  <2>1. ASSUME NEW o \in (Plans \cup Hooks) \ overtaken PROVE Cardinality(WorkOf(o)) <= 1
    <3>1. o \in Occasions \ overtaken /\ o \notin Clicks
      BY <2>1, Kinds, OnceTypes
    <3> QED BY <3>1, OneItem, AtMostOne
  <2>2. ASSUME NEW k \in Clicks
        PROVE  Cardinality({w \in WorkOf(k) : work[w].status # "failed"}) <= 1
    <3>1. k \in Occasions \ overtaken
      BY <2>2, Kinds, OnceTypes
    <3> QED BY <3>1, OneItem, AtMostOne
  <2> QED BY <2>1, <2>2 DEF WorkOnce
<1> QED BY <1>1, OnceAlways, PTL

\* Work that is done was charged to the period, unless its end is still on its way or was
\* lost: an issue from its commit, a task from the moment its end was heard.
THEOREM WorkWasCharged == DispatchSpec => []WorkIsCharged
<1>1. IInv /\ OnceInv => WorkIsCharged
  BY DEF OnceInv, Rows, ItemRow, ItemOf, WorkIsCharged
<1> QED BY <1>1, OnceAlways, PTL

\* A delivery reported as done, whose worker kept its lease, left no issue without its task.
THEOREM DoneIsWorked == DispatchSpec => []DispatchedIsWorked
<1>1. OnceInv => DispatchedIsWorked
  BY DEF OnceInv
<1> QED BY <1>1, OnceAlways, PTL
=============================================================================
