---------------------------- MODULE CacheProofs ----------------------------
(***************************************************************************)
(* Proofs about EmptyClaim, for any number of tasks, handlers and mishaps,  *)
(* and about ReclaimCheck, for any rows, servers, clocks and durations.     *)
(***************************************************************************)
EXTENDS EmptyClaim, ReclaimCheck, TLAPS

-----------------------------------------------------------------------------
(* EmptyClaim.                                                                *)

\* A tag never runs ahead of the version, and a handler that found nothing
\* queued under the present version has not missed a Bump.
Tagged ==
    /\ \A v \in verdict : v <= version
    /\ \A h \in Handlers : poll[h].pc \in {"list", "mark"} => poll[h].seen <= version
    /\ \A h \in Handlers : poll[h].pc = "mark" /\ poll[h].seen = version => told = {}
EmptyClaimInv == EmptyTypeOK /\ Tagged /\ NeverHidden

PollType == [pc : {"idle", "check", "version", "list", "mark", "claim"}, seen : Nat]

\* A handler that goes on keeps what it sampled.
LEMMA GoesOn ==
  ASSUME EmptyTypeOK, NEW h \in Handlers,
         NEW pc \in {"idle", "check", "version", "list", "mark", "claim"}, GoOn(h, pc)
  PROVE  /\ poll' \in [Handlers -> PollType]
         /\ poll'[h].pc = pc /\ poll'[h].seen = poll[h].seen
         /\ \A k \in Handlers \ {h} : poll'[k] = poll[k]
BY DEF EmptyTypeOK, PollType, GoOn

\* Mishaps are counted up to their bound.
LEMMA MishapType == ASSUME EmptyTypeOK, Mishap \/ UNCHANGED mishaps PROVE mishaps' \in 0 .. MaxMishaps
BY CacheAssumption DEF EmptyTypeOK, Mishap

\* What happens to rows: the Bumps that were sent are forgotten for a claimed task only.
LEMMA RowSteps ==
  ASSUME EmptyClaimInv,
         \/ \E i \in Tasks : Enqueue(i) \/ Requeue(i) \/ TaskEnds(i)
         \/ Bump \/ LoseBump \/ VerdictExpires \/ VersionExpires
  PROVE  EmptyClaimInv'
<1>0. mishaps' \in 0 .. MaxMishaps /\ EmptyTypeOK
  BY MishapType DEF EmptyClaimInv, Enqueue, Requeue, TaskEnds, Bump, LoseBump, VerdictExpires, VersionExpires
<1>1. ASSUME NEW i \in Tasks, Enqueue(i) \/ Requeue(i) \/ TaskEnds(i)
      PROVE  EmptyClaimInv'
  <2>1. /\ task' \in [Tasks -> {"new", "queued", "taken", "done"}]
        /\ \A j \in Tasks : task[j] = "queued" => task'[j] = "queued"
    BY <1>0, <1>1 DEF EmptyTypeOK, Enqueue, Requeue, TaskEnds
  <2>2. /\ owed' = owed + 1
        /\ UNCHANGED << version, verdict, poll, told >>
    BY <1>1 DEF Enqueue, Requeue, TaskEnds
  <2>3. told' \subseteq Queued'
    BY <1>0, <2>1, <2>2 DEF EmptyTypeOK, Queued
  <2>4. EmptyTypeOK'
    BY <1>0, <2>1, <2>2, <2>3 DEF EmptyTypeOK
  <2>5. Tagged' /\ NeverHidden'
    BY <2>2 DEF EmptyClaimInv, Tagged, NeverHidden, Trusted
  <2> QED BY <2>4, <2>5 DEF EmptyClaimInv
<1>2. CASE Bump
  <2>1. EmptyTypeOK'
    <3>1. owed' \in Nat /\ version' \in Nat
      BY <1>0, <1>2 DEF EmptyTypeOK, Bump
    <3>2. told' \subseteq Queued'
      BY <1>2 DEF Bump, Queued
    <3> QED BY <1>0, <1>2, <3>1, <3>2 DEF EmptyTypeOK, Bump
  <2>2. \A v \in verdict : v <= version /\ v \in Nat
    BY <1>0 DEF EmptyClaimInv, Tagged, EmptyTypeOK
  <2>3. \A h \in Handlers : poll[h].seen \in Nat
    BY <1>0 DEF EmptyTypeOK
  <2>4. Tagged' /\ NeverHidden'
    BY <1>0, <1>2, <2>2, <2>3 DEF EmptyClaimInv, Tagged, NeverHidden, Trusted, EmptyTypeOK, Bump
  <2> QED BY <2>1, <2>4 DEF EmptyClaimInv
<1>3. CASE LoseBump \/ VerdictExpires
  <2>1. EmptyTypeOK'
    <3>1. \A n \in Nat : n > 0 => n - 1 \in Nat
      OBVIOUS
    <3> QED BY <1>0, <1>3, <3>1 DEF EmptyTypeOK, LoseBump, VerdictExpires, Queued
  <2>2. Tagged' /\ NeverHidden'
    BY <1>3 DEF EmptyClaimInv, Tagged, NeverHidden, Trusted, LoseBump, VerdictExpires
  <2> QED BY <2>1, <2>2 DEF EmptyClaimInv
<1>4. CASE VersionExpires
  <2>1. EmptyTypeOK'
    BY <1>0, <1>4 DEF EmptyTypeOK, VersionExpires, Queued
  <2>2. Tagged' /\ NeverHidden'
    BY <1>4 DEF EmptyClaimInv, Tagged, NeverHidden, Trusted, VersionExpires
  <2> QED BY <2>1, <2>2 DEF EmptyClaimInv
<1> QED BY <1>1, <1>2, <1>3, <1>4

\* What a claim request does.
LEMMA AnswerSteps ==
  ASSUME EmptyClaimInv, NEW h \in Handlers, Answer(h)
  PROVE  EmptyClaimInv'
<1>0. mishaps' \in 0 .. MaxMishaps /\ EmptyTypeOK
  BY MishapType DEF EmptyClaimInv, Answer, Poll, IsEmpty, CurrentVersion, List, MarkEmpty, Claim
<1>1. ASSUME NEW pc \in {"idle", "check", "version", "claim"}, GoOn(h, pc),
             UNCHANGED << task, owed, version, verdict, told >>
      PROVE  EmptyClaimInv'
  <2>1. /\ poll' \in [Handlers -> PollType] /\ poll'[h].pc = pc
        /\ \A k \in Handlers \ {h} : poll'[k] = poll[k]
    BY <1>0, <1>1, GoesOn
  <2>2. EmptyTypeOK'
    BY <1>0, <1>1, <2>1 DEF EmptyTypeOK, PollType, Queued
  <2>3. Tagged' /\ NeverHidden'
    BY <1>1, <2>1 DEF EmptyClaimInv, Tagged, NeverHidden, Trusted
  <2> QED BY <2>2, <2>3 DEF EmptyClaimInv
<1>2. CASE Poll(h) \/ IsEmpty(h)
  BY <1>1, <1>2 DEF Poll, IsEmpty
<1>3. CASE CurrentVersion(h)
  <2>1. PICK v \in {version, 0} : poll' = [poll EXCEPT ![h] = [pc |-> "list", seen |-> v]]
    BY <1>3 DEF CurrentVersion
  <2>2. v \in Nat /\ v <= version /\ UNCHANGED << task, owed, version, verdict, told >>
    BY <1>0, <1>3 DEF EmptyTypeOK, CurrentVersion
  <2>3. /\ poll' \in [Handlers -> PollType]
        /\ poll'[h] = [pc |-> "list", seen |-> v]
        /\ \A k \in Handlers \ {h} : poll'[k] = poll[k]
    BY <1>0, <2>1, <2>2 DEF EmptyTypeOK, PollType
  <2>4. EmptyTypeOK'
    BY <1>0, <2>2, <2>3 DEF EmptyTypeOK, PollType, Queued
  <2>5. Tagged' /\ NeverHidden'
    BY <2>2, <2>3 DEF EmptyClaimInv, Tagged, NeverHidden, Trusted
  <2> QED BY <2>4, <2>5 DEF EmptyClaimInv
<1>4. CASE List(h)
  <2>1. CASE GoOn(h, "mark") /\ Queued = {}
    <3>1. /\ poll' \in [Handlers -> PollType]
          /\ poll'[h].pc = "mark" /\ poll'[h].seen = poll[h].seen
          /\ \A k \in Handlers \ {h} : poll'[k] = poll[k]
      BY <1>0, <2>1, GoesOn
    <3>2. told = {} /\ poll[h].pc = "list"
          /\ UNCHANGED << task, owed, version, verdict, told >>
      BY <1>0, <1>4, <2>1 DEF EmptyTypeOK, List, At
    <3>3. EmptyTypeOK'
      BY <1>0, <3>1, <3>2 DEF EmptyTypeOK, PollType, Queued
    <3>4. Tagged' /\ NeverHidden'
      BY <3>1, <3>2 DEF EmptyClaimInv, Tagged, NeverHidden, Trusted
    <3> QED BY <3>3, <3>4 DEF EmptyClaimInv
  <2>2. CASE GoOn(h, "claim") \/ GoOn(h, "idle")
    BY <1>1, <1>4, <2>2 DEF List
  <2> QED BY <1>4, <2>1, <2>2 DEF List
<1>5. CASE MarkEmpty(h)
  <2>1. CASE UNCHANGED verdict
    BY <1>1, <1>5, <2>1 DEF MarkEmpty
  <2>2. CASE verdict' = {poll[h].seen}
    <3>1. /\ poll' \in [Handlers -> PollType] /\ poll'[h].pc = "idle"
          /\ \A k \in Handlers \ {h} : poll'[k] = poll[k]
      BY <1>0, <1>5, GoesOn DEF MarkEmpty
    <3>2. /\ poll[h].pc = "mark" /\ poll[h].seen \in Nat
          /\ UNCHANGED << task, owed, version, told >>
      BY <1>0, <1>5 DEF EmptyTypeOK, MarkEmpty, At
    <3>3. EmptyTypeOK'
      BY <1>0, <2>2, <3>1, <3>2 DEF EmptyTypeOK, PollType, Queued
    <3>4. Tagged' /\ NeverHidden'
      BY <2>2, <3>1, <3>2 DEF EmptyClaimInv, Tagged, NeverHidden, Trusted
    <3> QED BY <3>3, <3>4 DEF EmptyClaimInv
  <2> QED BY <1>5, <2>1, <2>2 DEF MarkEmpty
<1>6. CASE Claim(h)
  <2>1. CASE UNCHANGED << task, told >>
    BY <1>1, <1>6, <2>1 DEF Claim
  <2>2. ASSUME NEW i \in Queued, task' = [task EXCEPT ![i] = "taken"], told' = told \ {i}
        PROVE  EmptyClaimInv'
    <3>1. /\ poll' \in [Handlers -> PollType] /\ poll'[h].pc = "idle"
          /\ \A k \in Handlers \ {h} : poll'[k] = poll[k]
          /\ UNCHANGED << owed, version, verdict >>
      BY <1>0, <1>6, GoesOn DEF Claim
    <3>2. /\ task' \in [Tasks -> {"new", "queued", "taken", "done"}]
          /\ \A j \in Tasks \ {i} : task'[j] = task[j]
      BY <1>0, <2>2 DEF EmptyTypeOK, Queued
    <3>3. told' \subseteq Queued'
      BY <1>0, <2>2, <3>2 DEF EmptyTypeOK, Queued
    <3>4. EmptyTypeOK'
      BY <1>0, <3>1, <3>2, <3>3 DEF EmptyTypeOK, PollType
    <3>5. Tagged' /\ NeverHidden'
      BY <2>2, <3>1 DEF EmptyClaimInv, Tagged, NeverHidden, Trusted
    <3> QED BY <3>4, <3>5 DEF EmptyClaimInv
  <2> QED BY <1>6, <2>1, <2>2 DEF Claim
<1> QED BY <1>2, <1>3, <1>4, <1>5, <1>6 DEF Answer

\* The invariant that carries NeverHidden is inductive, over Redis calls, statements and faults.
THEOREM Invariance == EmptySpec => []EmptyClaimInv
<1>1. EmptyInit => EmptyClaimInv
  BY CacheAssumption DEF EmptyInit, EmptyClaimInv, EmptyTypeOK, Tagged, NeverHidden, Queued
<1>2. EmptyClaimInv /\ UNCHANGED emptyVars => EmptyClaimInv'
  BY DEF EmptyClaimInv, EmptyTypeOK, Tagged, NeverHidden, Trusted, Queued, emptyVars
<1>3. EmptyClaimInv /\ [EmptyNext]_emptyVars => EmptyClaimInv'
  BY <1>2, RowSteps, AnswerSteps DEF EmptyNext
<1> QED BY <1>1, <1>3, PTL DEF EmptySpec

\* However many requests sample, list and mark at once, and whichever calls fail,
\* no trusted verdict hides a task whose Bump was sent after its commit.
THEOREM NothingHidden == EmptySpec => []NeverHidden
<1>1. EmptyClaimInv => NeverHidden
  BY DEF EmptyClaimInv
<1> QED BY <1>1, Invariance, PTL

-----------------------------------------------------------------------------
(* ReclaimCheck.                                                              *)

\* A stale row goes unasked for since the check whose stamp stands, since the last
\* poll once no stamp stands, or since the request that found none.
Asked(s) == ask[s].pc \notin {"none", "query"} => unasked <= ask[s].since
StampCovers == backstop.left > 0 => unasked + backstop.left <= Window + MaxRequest
NextPoll == unasked <= Window + MaxRequest - 1 + quiet
OnItsWay(s) == ask[s].pc = "query"
               /\ unasked <= Window + MaxRequest - 1 + PollEvery + ask[s].since
Covered == StampCovers /\ (backstop.left = 0 => NextPoll \/ \E s \in Servers : OnItsWay(s))
ReclaimInv == ReclaimTypeOK /\ (\A s \in Servers : Asked(s)) /\ Covered

Durations == /\ Window \in Nat \ {0} /\ PollEvery \in Nat \ {0} /\ MaxRequest \in Nat \ {0}
             /\ HintMargin \in Nat /\ RetryAfter \in Nat /\ PrepareLease \in Nat
             /\ MaxLosses \in Nat /\ \A s \in Servers : Skew[s] \in Nat
LEMMA DurationsHold == Durations
BY ReclaimAssumption DEF Durations

AskStates == {"none", "query", "mark"} \cup Rows
AskType == [pc : AskStates, since : 0 .. MaxRequest]

LEMMA ReclaimInitHolds == ReclaimInit => ReclaimInv
<1> SUFFICES ASSUME ReclaimInit PROVE ReclaimInv OBVIOUS
<1> USE DurationsHold DEF Durations
<1>1. ReclaimTypeOK
  BY DEF ReclaimInit, ReclaimTypeOK, NotDispatched, NoHint, ScheduleTTL, StampTTL
<1>2. \A s \in Servers : Asked(s)
  BY DEF ReclaimInit, Asked
<1>3. Covered
  BY DEF ReclaimInit, Covered, StampCovers, NextPoll
<1> QED BY <1>1, <1>2, <1>3 DEF ReclaimInv

LEMMA ReclaimLoss == ASSUME ReclaimTypeOK, Lossy \/ UNCHANGED losses PROVE losses' \in Nat
BY DEF ReclaimTypeOK, Lossy

\* What leaves the stamp, the requests and the polls alone, and asks for no less.
LEMMA ReclaimFrame ==
  ASSUME ReclaimInv, ReclaimTypeOK', UNCHANGED << backstop, ask, quiet >>,
         unasked' = unasked \/ unasked' = 0
  PROVE  ReclaimInv'
<1> USE DurationsHold DEF Durations
<1>1. unasked \in Nat /\ unasked' <= unasked
  BY DEF ReclaimInv, ReclaimTypeOK
<1>2. \A s \in Servers : ask[s].since \in Nat
  BY DEF ReclaimInv, ReclaimTypeOK
<1>3. backstop.left \in Nat /\ quiet \in Nat /\ unasked' \in Nat
  BY DEF ReclaimInv, ReclaimTypeOK, StampTTL
<1>4. \A s \in Servers : Asked(s)'
  BY <1>1, <1>2, <1>3 DEF ReclaimInv, Asked
<1>5. ASSUME NEW s \in Servers, OnItsWay(s) PROVE OnItsWay(s)'
  BY <1>1, <1>2, <1>3, <1>5 DEF OnItsWay
<1>6. NextPoll => NextPoll'
  BY <1>1, <1>3 DEF NextPoll
<1>7. StampCovers'
  BY <1>1, <1>3 DEF ReclaimInv, Covered, StampCovers
<1> QED BY <1>4, <1>5, <1>6, <1>7 DEF ReclaimInv, Covered

LEMMA RowsStep ==
  ASSUME ReclaimInv,
         \/ \E s \in Servers, i \in Rows : Dispatch(s, i) \/ Extend(s, i)
         \/ \E i \in Rows : Leave(i)
         \/ Health
  PROVE  ReclaimInv'
<1> USE DurationsHold DEF Durations, ReclaimTypeOK
<1>0. ReclaimTypeOK
  BY DEF ReclaimInv
<1>1. ASSUME NEW s \in Servers, NEW i \in Rows, Dispatch(s, i) PROVE ReclaimTypeOK'
  <2>1. age' \in [Rows -> NotDispatched .. Window + 1] /\ prepare' \in [Rows -> 0 .. PrepareLease]
    BY <1>0, <1>1 DEF Dispatch, NotDispatched
  <2>2. hint' \in [Rows -> Int]
    BY <1>0, <1>1 DEF Dispatch
  <2>3. keep' \in 0 .. ScheduleTTL /\ losses' \in Nat
    BY <1>0, <1>1, ReclaimLoss DEF Dispatch, ScheduleTTL
  <2> QED BY <1>0, <1>1, <2>1, <2>2, <2>3 DEF Dispatch
<1>2. ASSUME NEW s \in Servers, NEW i \in Rows, Extend(s, i) PROVE ReclaimTypeOK'
  <2>1. prepare' \in [Rows -> 0 .. PrepareLease]
    BY <1>0, <1>2 DEF Extend
  <2>2. hint' \in [Rows -> Int] /\ keep' \in 0 .. ScheduleTTL
    BY <1>0, <1>2 DEF Extend, ScheduleTTL
  <2> QED BY <1>0, <1>2, <2>1, <2>2 DEF Extend
<1>3. ASSUME NEW i \in Rows, Leave(i) PROVE ReclaimTypeOK'
  <2>1. age' \in [Rows -> NotDispatched .. Window + 1] /\ prepare' \in [Rows -> 0 .. PrepareLease]
    BY <1>0, <1>3 DEF Leave, NotDispatched
  <2>2. hint' \in [Rows -> Int]
    BY <1>0, <1>3 DEF Leave, NoHint
  <2> QED BY <1>0, <1>3, <2>1, <2>2 DEF Leave
<1>4. CASE Health
  <2>1. losses' \in Nat /\ unasked' \in Nat /\ healthy' \in BOOLEAN
    BY <1>0, <1>4, ReclaimLoss DEF Health
  <2>2. ReclaimTypeOK'
    BY <1>0, <1>4, <2>1 DEF Health
  <2> QED BY <1>4, <2>2, ReclaimFrame DEF Health
<1> QED BY <1>1, <1>2, <1>3, <1>4, ReclaimFrame DEF Dispatch, Extend, Leave

LEMMA AskStep == ASSUME ReclaimInv, NEW s \in Servers, Ask(s) PROVE ReclaimInv'
<1> USE DurationsHold DEF Durations
<1>0. ReclaimTypeOK
  BY DEF ReclaimInv
<1>1. /\ quiet' = 0 /\ UNCHANGED << backstop, unasked >> /\ quiet \in 0 .. PollEvery
      /\ unasked \in Nat /\ backstop.left \in Nat /\ ask \in [Servers -> AskType]
  BY <1>0 DEF Ask, ReclaimTypeOK, StampTTL, AskStates, AskType
<1>2. /\ ask' \in [Servers -> AskType] /\ ask[s].pc = "none"
      /\ \A r \in Servers \ {s} : ask'[r] = ask[r]
      /\ ask'[s] = ask[s] \/ ask'[s] = [pc |-> "query", since |-> 0]
  BY <1>1 DEF Ask, AskStates, AskType
<1>3. ReclaimTypeOK'
  <2>1. losses' \in Nat
    BY <1>0, ReclaimLoss DEF Ask
  <2> QED BY <1>0, <1>1, <1>2, <2>1 DEF Ask, ReclaimTypeOK, AskStates, AskType
<1>4. \A r \in Servers : Asked(r)'
  BY <1>1, <1>2 DEF ReclaimInv, Asked
<1>5. ASSUME backstop.left = 0 PROVE \E r \in Servers : OnItsWay(r)'
  <2>1. ask'[s] = [pc |-> "query", since |-> 0]
    BY <1>1, <1>5 DEF Ask, Due, BackstopDue
  <2>2. CASE NextPoll
    BY <1>1, <2>1, <2>2 DEF NextPoll, OnItsWay
  <2>3. ASSUME NEW r \in Servers, OnItsWay(r) PROVE OnItsWay(r)'
    <3>1. r # s
      BY <1>2, <2>3 DEF OnItsWay
    <3> QED BY <1>1, <1>2, <2>3, <3>1 DEF OnItsWay
  <2> QED BY <1>5, <2>2, <2>3 DEF ReclaimInv, Covered
<1>6. StampCovers'
  BY <1>1 DEF ReclaimInv, Covered, StampCovers
<1> QED BY <1>1, <1>3, <1>4, <1>5, <1>6 DEF ReclaimInv, Covered

LEMMA QueryStep == ASSUME ReclaimInv, NEW s \in Servers, Query(s) PROVE ReclaimInv'
<1> USE DurationsHold DEF Durations
<1>0. ReclaimTypeOK
  BY DEF ReclaimInv
<1>1. /\ unasked' = 0 /\ UNCHANGED << backstop, quiet >> /\ quiet \in 0 .. PollEvery
      /\ backstop.left \in 0 .. Window /\ ask \in [Servers -> AskType]
  BY <1>0 DEF Query, ReclaimTypeOK, StampTTL, AskStates, AskType
<1>2. PICK pc \in {"mark"} \cup Rows : ask' = [ask EXCEPT ![s].pc = pc]
  BY DEF Query, StaleRows
<1>3. ask' \in [Servers -> AskType]
  BY <1>1, <1>2 DEF AskStates, AskType
<1>4. age' \in [Rows -> NotDispatched .. Window + 1] /\ prepare' \in [Rows -> 0 .. PrepareLease]
  BY <1>0 DEF Query, ReclaimTypeOK, NotDispatched
<1>5. ReclaimTypeOK'
  BY <1>0, <1>1, <1>3, <1>4 DEF Query, ReclaimTypeOK, AskStates, AskType
<1>6. \A r \in Servers : Asked(r)'
  BY <1>1, <1>3 DEF Asked, AskType
<1>7. StampCovers' /\ NextPoll'
  BY <1>1 DEF StampCovers, NextPoll
<1> QED BY <1>5, <1>6, <1>7 DEF ReclaimInv, Covered

LEMMA MarkStep == ASSUME ReclaimInv, NEW s \in Servers, Mark(s) PROVE ReclaimInv'
<1> USE DurationsHold DEF Durations
<1>0. ReclaimTypeOK
  BY DEF ReclaimInv
<1>1. /\ UNCHANGED << unasked, quiet >> /\ quiet \in 0 .. PollEvery /\ unasked \in Nat
      /\ backstop.left \in 0 .. Window /\ ask \in [Servers -> AskType]
      /\ ask[s].pc \notin {"none", "query"}
  BY <1>0 DEF Mark, ReclaimTypeOK, StampTTL, AskStates, AskType
<1>2. /\ ask' \in [Servers -> AskType] /\ ask'[s].pc = "none"
      /\ \A r \in Servers \ {s} : ask'[r] = ask[r]
  BY <1>1 DEF Mark, AskStates, AskType
<1>3. \A r \in Servers : Asked(r)'
  BY <1>1, <1>2 DEF ReclaimInv, Asked
<1>4. CASE UNCHANGED << backstop, hint, keep >> /\ Lossy
  <2>1. ReclaimTypeOK'
    BY <1>0, <1>1, <1>2, <1>4, ReclaimLoss DEF Mark, ReclaimTypeOK, AskStates, AskType
  <2>2. \A r \in Servers : OnItsWay(r) => OnItsWay(r)'
    BY <1>1, <1>2 DEF OnItsWay
  <2>3. StampCovers' /\ (NextPoll => NextPoll')
    BY <1>1, <1>4 DEF ReclaimInv, Covered, StampCovers, NextPoll
  <2> QED BY <1>3, <1>4, <2>1, <2>2, <2>3 DEF ReclaimInv, Covered
<1>5. CASE MarkChecked(s, ask[s].since, {ask[s].pc} \cap Rows) /\ UNCHANGED losses
  <2>1. ask[s].since \in 0 .. MaxRequest /\ unasked <= ask[s].since
    BY <1>1 DEF ReclaimInv, Asked, AskType
  <2>2. backstop' = [since |-> ask[s].since - Skew[s], left |-> Window]
    BY <1>5 DEF MarkChecked, StampTTL
  <2>3. hint' \in [Rows -> Int]
    <3>1. \A i \in Rows : hint[i] \in Int
      BY <1>0 DEF ReclaimTypeOK
    <3> QED BY <1>5, <2>1, <3>1 DEF MarkChecked
  <2>4. keep' \in 0 .. ScheduleTTL
    BY <1>0, <1>5 DEF MarkChecked, ReclaimTypeOK, ScheduleTTL
  <2>5. ReclaimTypeOK'
    BY <1>0, <1>1, <1>2, <1>5, <2>1, <2>2, <2>3, <2>4
    DEF Mark, ReclaimTypeOK, AskStates, AskType, StampTTL
  <2>6. StampCovers' /\ backstop'.left # 0
    BY <1>1, <2>1, <2>2 DEF StampCovers
  <2> QED BY <1>3, <2>5, <2>6 DEF ReclaimInv, Covered
<1> QED BY <1>4, <1>5 DEF Mark

LEMMA LoseCacheStep == ASSUME ReclaimInv, LoseCache PROVE ReclaimInv'
<1> USE DurationsHold DEF Durations
<1>0. ReclaimTypeOK
  BY DEF ReclaimInv
<1>1. /\ UNCHANGED << unasked, quiet, ask >> /\ quiet \in 0 .. PollEvery /\ unasked \in Nat
      /\ backstop.left \in 0 .. Window /\ backstop' = [since |-> 0, left |-> 0]
  BY <1>0 DEF LoseCache, ReclaimTypeOK, StampTTL
<1>2. ReclaimTypeOK'
  <2>1. losses' \in Nat
    BY <1>0, ReclaimLoss DEF LoseCache
  <2>2. hint' \in [Rows -> Int] /\ keep' \in 0 .. ScheduleTTL
    BY DEF LoseCache, NoHint, ScheduleTTL
  <2> QED BY <1>0, <1>1, <2>1, <2>2 DEF LoseCache, ReclaimTypeOK, StampTTL
<1>3. \A s \in Servers : Asked(s)' /\ (OnItsWay(s) => OnItsWay(s)')
  BY <1>1 DEF ReclaimInv, Asked, OnItsWay
<1>4. NextPoll \/ backstop.left > 0 => NextPoll'
  BY <1>1 DEF ReclaimInv, Covered, StampCovers, NextPoll
<1> QED BY <1>1, <1>2, <1>3, <1>4 DEF ReclaimInv, Covered, StampCovers

LEMMA TickStep == ASSUME ReclaimInv, ReclaimTick PROVE ReclaimInv'
<1> USE DurationsHold DEF Durations
<1>0. ReclaimTypeOK
  BY DEF ReclaimInv
<1>1. /\ quiet' = quiet + 1 /\ quiet \in 0 .. PollEvery /\ quiet < PollEvery
      /\ unasked \in Nat /\ unasked' \in Nat /\ unasked' <= unasked + 1
      /\ backstop.left \in 0 .. Window /\ backstop.since \in Int /\ ask \in [Servers -> AskType]
      /\ backstop' = IF backstop.left <= 1 THEN [since |-> 0, left |-> 0]
                     ELSE [since |-> backstop.since + 1, left |-> backstop.left - 1]
  BY <1>0 DEF ReclaimTick, ReclaimTypeOK, StampTTL, AskStates, AskType
<1>2. ASSUME NEW s \in Servers
      PROVE  /\ ask'[s] \in AskType
             /\ ask'[s].pc = ask[s].pc
             /\ ask[s].pc # "none" => ask'[s].since = ask[s].since + 1
  <2>1. CASE ask[s].pc = "none"
    BY <1>1, <2>1 DEF ReclaimTick
  <2>2. CASE ask[s].pc # "none"
    <3>1. ask'[s] = [ask[s] EXCEPT !.since = @ + 1] /\ ask[s] \in AskType
          /\ ask[s].since < MaxRequest
      BY <1>1, <2>2 DEF ReclaimTick
    <3>2. ask[s].since + 1 \in 0 .. MaxRequest
      BY <3>1 DEF AskType
    <3> QED BY <3>1, <3>2 DEF AskType
  <2> QED BY <2>1, <2>2
<1>3. ReclaimTypeOK'
  <2>1. age' \in [Rows -> NotDispatched .. Window + 1]
    <3>1. \A i \in Rows : age[i] \in NotDispatched .. Window + 1
      BY <1>0 DEF ReclaimTypeOK
    <3> QED BY <3>1 DEF ReclaimTick, NotDispatched
  <2>2. prepare' \in [Rows -> 0 .. PrepareLease]
    <3>1. \A i \in Rows : prepare[i] \in 0 .. PrepareLease
      BY <1>0 DEF ReclaimTypeOK
    <3> QED BY <3>1 DEF ReclaimTick, Left
  <2>3. hint' \in [Rows -> Int]
    <3>1. \A i \in Rows : hint[i] \in Int
      BY <1>0 DEF ReclaimTypeOK
    <3> QED BY <3>1 DEF ReclaimTick, NoHint, Overdue
  <2>4. keep' \in 0 .. ScheduleTTL
    BY <1>0 DEF ReclaimTick, ReclaimTypeOK, Left, ScheduleTTL
  <2>5. ask' \in [Servers -> AskType]
    BY <1>2 DEF ReclaimTick
  <2>6. backstop' \in [since : Int, left : 0 .. StampTTL]
    BY <1>1 DEF StampTTL
  <2> QED BY <1>0, <1>1, <2>1, <2>2, <2>3, <2>4, <2>5, <2>6
      DEF ReclaimTick, ReclaimTypeOK, AskStates, AskType
<1>4. \A s \in Servers : ask[s].since \in Nat
  BY <1>1 DEF AskType
<1>5. \A s \in Servers : Asked(s)'
  BY <1>1, <1>2, <1>4 DEF ReclaimInv, Asked
<1>6. \A s \in Servers : OnItsWay(s) => OnItsWay(s)'
  BY <1>1, <1>2, <1>4 DEF OnItsWay
<1>7. StampCovers'
  BY <1>1 DEF ReclaimInv, Covered, StampCovers
<1>8. NextPoll => NextPoll'
  BY <1>1 DEF NextPoll
<1>9. backstop.left = 1 => NextPoll'
  BY <1>1 DEF ReclaimInv, Covered, StampCovers, NextPoll
<1>10. backstop'.left = 0 => backstop.left \in {0, 1}
  BY <1>1
<1> QED BY <1>3, <1>5, <1>6, <1>7, <1>8, <1>9, <1>10 DEF ReclaimInv, Covered

LEMMA ReclaimStep == ASSUME ReclaimInv, [ReclaimNext]_reclaimVars PROVE ReclaimInv'
<1>1. CASE UNCHANGED reclaimVars
  <2>1. ReclaimTypeOK'
    BY <1>1 DEF ReclaimInv, ReclaimTypeOK, reclaimVars
  <2> QED BY <1>1, <2>1, ReclaimFrame DEF reclaimVars
<1> QED BY <1>1, RowsStep, AskStep, QueryStep, MarkStep, LoseCacheStep, TickStep DEF ReclaimNext

LEMMA ReclaimAlways == ReclaimSpec => []ReclaimInv
<1>1. ReclaimInv /\ [ReclaimNext]_reclaimVars => ReclaimInv'
  BY ReclaimStep
<1> QED BY ReclaimInitHolds, <1>1, PTL DEF ReclaimSpec

\* Every variable of ReclaimCheck keeps its type.
THEOREM ReclaimTypeCorrect == ReclaimSpec => []ReclaimTypeOK
<1>1. ReclaimInv => ReclaimTypeOK
  BY DEF ReclaimInv
<1> QED BY <1>1, ReclaimAlways, PTL

\* However many hints, stamps and requests are lost and however far the servers'
\* clocks are apart, a stale row makes PostgreSQL be asked again within a window, a
\* poll and the request's own time (DueRuntimeIDs and MarkChecked).
THEOREM StaleRowsAskedFor == ReclaimSpec => []AskedInTime
<1>1. ASSUME ReclaimInv PROVE AskedInTime
  <2> USE DurationsHold DEF Durations
  <2>1. unasked \in Nat /\ backstop.left \in Nat /\ quiet \in 0 .. PollEvery
    BY <1>1 DEF ReclaimInv, ReclaimTypeOK, StampTTL
  <2>2. CASE backstop.left > 0
    BY <1>1, <2>1, <2>2 DEF ReclaimInv, Covered, StampCovers, AskedInTime
  <2>3. CASE backstop.left = 0 /\ NextPoll
    BY <2>1, <2>3 DEF NextPoll, AskedInTime
  <2>4. ASSUME NEW s \in Servers, OnItsWay(s) PROVE AskedInTime
    <3>1. ask[s].since \in 0 .. MaxRequest
      BY <1>1 DEF ReclaimInv, ReclaimTypeOK
    <3> QED BY <2>1, <2>4, <3>1 DEF OnItsWay, AskedInTime
  <2> QED BY <1>1, <2>1, <2>2, <2>3, <2>4 DEF ReclaimInv, Covered
<1> QED BY <1>1, ReclaimAlways, PTL
=============================================================================
