---------------------------- MODULE ReclaimCheck ----------------------------
(***************************************************************************)
(* The reclaim-check cache of one runtime (service/reclaim_check_cache.go)   *)
(* and its callers in service/task.go: a claim request asks PostgreSQL for   *)
(* stale dispatched rows only when a hint in Redis is due or the last asking *)
(* is a window ago.  The cache is never right about rows, only about when to *)
(* look; what must hold is that it never keeps a stale row out of sight.     *)
(*                                                                         *)
(* Durations are relative to the true time.  A server's clock is Skew ahead  *)
(* of it; stamps in Redis are the clock of the server that wrote them, key   *)
(* expiry is Redis' own.                                                     *)
(***************************************************************************)
EXTENDS Integers

CONSTANTS
    Rows, Servers,
    Skew,            \* server -> how far its clock is ahead
    Window,          \* claimResponseRecoveryWindow, also the backstop interval
    HintMargin,      \* ReclaimCheckHintSafetyMargin
    RetryAfter,      \* ReclaimCheckRetryInterval
    PrepareLease,    \* prepareLeaseDuration
    PollEvery,       \* the daemon's poll interval
    MaxRequest,      \* bound on the time between two steps of a request
    MaxLosses        \* bound

ASSUME ReclaimAssumption ==
    /\ {HintMargin, RetryAfter, PrepareLease, MaxLosses} \subseteq Nat
    /\ {Window, PollEvery, MaxRequest} \subseteq Nat \ {0}
    /\ Skew \in [Servers -> Nat]
    /\ Rows \cap {"none", "query", "mark"} = {}

VARIABLES
    age,      \* row -> time since dispatched_at, NotDispatched
    prepare,  \* row -> what is left of its prepare lease
    healthy,  \* the runtime is online and fresh
    backstop, \* [since, left]: time since the stamp, and to the key's expiry
    hint,     \* row -> time to its score, NoHint
    keep,     \* time to the expiry of the sorted set
    ask,      \* server -> [pc, since]: its claim request, and since checkStarted
    quiet,    \* time since a claim request arrived
    unasked,  \* history: how long a stale row is there and PostgreSQL not asked
    losses

reclaimVars == << age, prepare, healthy, backstop, hint, keep, ask, quiet, unasked, losses >>

NotDispatched == -1
NoHint == 2 * Window + HintMargin + RetryAfter + PrepareLease + 100
ScheduleTTL == 2 * Window + HintMargin

ReclaimInit ==
    /\ age = [i \in Rows |-> NotDispatched] /\ prepare = [i \in Rows |-> 0]
    /\ healthy = TRUE
    /\ backstop = [since |-> 0, left |-> 0]
    /\ hint = [i \in Rows |-> NoHint] /\ keep = 0
    /\ ask = [s \in Servers |-> [pc |-> "none", since |-> 0]]
    /\ quiet = 0 /\ unasked = 0 /\ losses = 0

Lossy == losses < MaxLosses /\ losses' = losses + 1

\* The WHERE clause of ReclaimStaleDispatchedTaskForRuntime.
DispatchStale(i) == healthy /\ age[i] > Window /\ prepare[i] = 0
StaleRows == {i \in Rows : DispatchStale(i)}

-----------------------------------------------------------------------------
(* The cache.                                                                 *)

HintsOnly(s) == FALSE  \* mutant: a lost hint is never made up for
BackstopDue(s) == backstop.left = 0 \/ backstop.since + Skew[s] >= Window
DueBy(s, i, elapsed) == keep > 0 /\ hint[i] <= Skew[s] - elapsed
\* DueRuntimeIDs, which fails open.
Due(s) == BackstopDue(s) \/ \E i \in Rows : DueBy(s, i, 0)

StampTTL == Window

\* MarkChecked for the check that server s began `elapsed` ago: its stamp, and
\* the hints due by then put off; then Track for what was reclaimed.
MarkChecked(s, elapsed, reclaimed) ==
    /\ backstop' = [since |-> elapsed - Skew[s], left |-> StampTTL]
    /\ hint' = [i \in Rows |->
                  IF i \in reclaimed THEN Window + HintMargin + Skew[s] - elapsed
                  ELSE IF DueBy(s, i, elapsed) THEN RetryAfter + Skew[s] ELSE hint[i]]
    /\ keep' = IF reclaimed = {} THEN keep ELSE ScheduleTTL

-----------------------------------------------------------------------------
(* Rows.                                                                      *)

\* claimTask dispatches the row, and Track's hint may get lost.
Dispatch(s, i) ==
    /\ age[i] = NotDispatched
    /\ age' = [age EXCEPT ![i] = 0] /\ prepare' = [prepare EXCEPT ![i] = PrepareLease]
    /\ \/ /\ hint' = [hint EXCEPT ![i] = Window + HintMargin + Skew[s]]
          /\ keep' = ScheduleTTL /\ UNCHANGED losses
       \/ Lossy /\ UNCHANGED << hint, keep >>
    /\ UNCHANGED << healthy, backstop, ask, quiet, unasked >>

\* Started, parked, requeued or ended; Forget is best effort.
Leave(i) ==
    /\ age[i] # NotDispatched
    /\ age' = [age EXCEPT ![i] = NotDispatched] /\ prepare' = [prepare EXCEPT ![i] = 0]
    /\ hint' \in {hint, [hint EXCEPT ![i] = NoHint]}
    /\ UNCHANGED << healthy, backstop, keep, ask, quiet, unasked, losses >>

\* ExtendTaskPrepareLease, and TrackLater for a hint that is there.
Extend(s, i) ==
    /\ age[i] # NotDispatched /\ prepare' = [prepare EXCEPT ![i] = PrepareLease]
    /\ IF keep > 0 /\ hint[i] # NoHint
       THEN /\ hint' = [hint EXCEPT ![i] = IF @ < PrepareLease + Skew[s]
                                           THEN PrepareLease + Skew[s] ELSE @]
            /\ keep' = ScheduleTTL
       ELSE UNCHANGED << hint, keep >>
    /\ UNCHANGED << age, healthy, backstop, ask, quiet, unasked, losses >>

-----------------------------------------------------------------------------
(* A claim request, ClaimTaskForRuntime.                                      *)

\* Any Redis error means "check PostgreSQL now".
Ask(s) ==
    /\ ask[s].pc = "none" /\ quiet' = 0
    /\ \/ ask' = [ask EXCEPT ![s] = [pc |-> "query", since |-> 0]] /\ Due(s) /\ UNCHANGED losses
       \/ ~Due(s) /\ UNCHANGED << ask, losses >>
       \/ ask' = [ask EXCEPT ![s] = [pc |-> "query", since |-> 0]] /\ ~Due(s) /\ Lossy
    /\ UNCHANGED << age, prepare, healthy, backstop, hint, keep, unasked >>

\* The UPDATE takes one stale row; a locked one is being changed by its locker.
Query(s) ==
    /\ ask[s].pc = "query" /\ unasked' = 0
    /\ \/ /\ StaleRows = {} /\ UNCHANGED << age, prepare >>
          /\ ask' = [ask EXCEPT ![s].pc = "mark"]
       \/ \E i \in StaleRows :
            /\ age' = [age EXCEPT ![i] = 0]
            /\ prepare' = [prepare EXCEPT ![i] = PrepareLease]
            /\ ask' = [ask EXCEPT ![s].pc = i]
    /\ UNCHANGED << healthy, backstop, hint, keep, quiet, losses >>

\* The request ends; its Redis write may get lost, or the server stop before it.
Mark(s) ==
    /\ ask[s].pc \notin {"none", "query"}
    /\ ask' = [ask EXCEPT ![s] = [pc |-> "none", since |-> 0]]
    /\ \/ MarkChecked(s, ask[s].since, {ask[s].pc} \cap Rows) /\ UNCHANGED losses
       \/ Lossy /\ UNCHANGED << backstop, hint, keep >>
    /\ UNCHANGED << age, prepare, healthy, quiet, unasked >>

-----------------------------------------------------------------------------
\* The runtime goes stale, or reports again.
Health ==
    /\ healthy' = ~healthy /\ (healthy => Lossy) /\ (~healthy => UNCHANGED losses)
    /\ unasked' = IF healthy THEN 0 ELSE unasked
    /\ UNCHANGED << age, prepare, backstop, hint, keep, ask, quiet >>

\* Redis loses its keys.
LoseCache ==
    /\ Lossy /\ backstop' = [since |-> 0, left |-> 0] /\ keep' = 0
    /\ hint' = [i \in Rows |-> NoHint]
    /\ UNCHANGED << age, prepare, healthy, ask, quiet, unasked >>

Left(d) == IF d > 0 THEN d - 1 ELSE 0
Overdue == -(MaxRequest + 1)

\* Requests arrive every PollEvery and take at most MaxRequest.
ReclaimTick ==
    /\ quiet < PollEvery
    /\ \A s \in Servers : ask[s].pc # "none" => ask[s].since < MaxRequest
    /\ age' = [i \in Rows |-> IF age[i] \in {NotDispatched, Window + 1} THEN age[i]
                              ELSE age[i] + 1]
    /\ prepare' = [i \in Rows |-> Left(prepare[i])]
    /\ backstop' = IF backstop.left <= 1 THEN [since |-> 0, left |-> 0]
                   ELSE [since |-> backstop.since + 1, left |-> backstop.left - 1]
    /\ keep' = Left(keep)
    /\ hint' = [i \in Rows |-> IF keep <= 1 \/ hint[i] = NoHint THEN NoHint
                               ELSE IF hint[i] = Overdue THEN Overdue ELSE hint[i] - 1]
    /\ ask' = [s \in Servers |-> IF ask[s].pc = "none" THEN ask[s]
                                 ELSE [ask[s] EXCEPT !.since = @ + 1]]
    /\ quiet' = quiet + 1
    /\ unasked' = IF StaleRows # {} THEN unasked + 1 ELSE 0
    /\ UNCHANGED << healthy, losses >>

ReclaimNext ==
    \/ \E s \in Servers, i \in Rows : Dispatch(s, i) \/ Extend(s, i)
    \/ \E i \in Rows : Leave(i)
    \/ \E s \in Servers : Ask(s) \/ Query(s) \/ Mark(s)
    \/ Health \/ LoseCache \/ ReclaimTick

ReclaimSpec == ReclaimInit /\ [][ReclaimNext]_reclaimVars

-----------------------------------------------------------------------------
(* Properties.                                                                *)

\* Every variable has its type.
ReclaimTypeOK ==
    /\ age \in [Rows -> NotDispatched .. Window + 1]
    /\ prepare \in [Rows -> 0 .. PrepareLease] /\ healthy \in BOOLEAN
    /\ backstop \in [since : Int, left : 0 .. StampTTL]
    /\ hint \in [Rows -> Int] /\ keep \in 0 .. ScheduleTTL
    /\ ask \in [Servers -> [pc : {"none", "query", "mark"} \cup Rows, since : 0 .. MaxRequest]]
    /\ quiet \in 0 .. PollEvery /\ unasked \in Nat /\ losses \in Nat

\* "A missed dispatch-side Redis write cannot delay recovery beyond one window":
\* while there is a stale row, PostgreSQL is asked again within a window, a poll
\* and the request's own time, whatever was lost and however clocks differ.
AskedInTime == unasked < Window + PollEvery + 2 * MaxRequest
=============================================================================
