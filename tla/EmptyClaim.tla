----------------------------- MODULE EmptyClaim -----------------------------
(***************************************************************************)
(* The empty-claim cache of one runtime, empty_claim_cache.go, between the  *)
(* statements that queue a task and the claim requests that look for one.   *)
(* Redis holds a version, raised after every change that may have made a    *)
(* task claimable, and a verdict "nothing is queued" tagged with a version: *)
(* it is trusted while the two are equal.                                   *)
(*                                                                         *)
(* Every Redis call and every SQL statement is an action.  Rows are queued  *)
(* by enqueueing, promotion, retry or requeue, all of which commit first    *)
(* and raise the version later; which task a claim takes, and whether its    *)
(* agent has capacity, is TaskQueue's matter.                               *)
(***************************************************************************)
EXTENDS Naturals

CONSTANTS Tasks, Handlers,
          MaxMishaps  \* bound

ASSUME CacheAssumption == MaxMishaps \in Nat

VARIABLES
    task,     \* task -> "new", "queued", "taken", "done"
    owed,     \* committed changes whose Bump has not been sent yet
    version,  \* the runtime's version; a missing key reads as 0
    verdict,  \* the tag of the cached empty verdict, in a set; {} without one
    poll,     \* handler -> [pc, the version it sampled]
    told,     \* history: the queued tasks since whose commit a Bump arrived
    mishaps

emptyVars == << task, owed, version, verdict, poll, told, mishaps >>

Queued == {i \in Tasks : task[i] = "queued"}
Trusted == version \in verdict

EmptyInit ==
    /\ task = [i \in Tasks |-> "new"]
    /\ owed = 0 /\ version = 0 /\ verdict = {}
    /\ poll = [h \in Handlers |-> [pc |-> "idle", seen |-> 0]]
    /\ told = {} /\ mishaps = 0

\* A Redis call or a statement fails, or a server stops between two of them.
Mishap == mishaps < MaxMishaps /\ mishaps' = mishaps + 1

-----------------------------------------------------------------------------
(* Rows.  Each change owes a Bump.                                            *)

BumpFirst(i) ==  \* mutant: the Bump is sent before the task is committed
    /\ task[i] = "new" /\ task' = [task EXCEPT ![i] = "queued"]
    /\ told' = told \cup {i}
    /\ UNCHANGED << owed, version, verdict, poll, mishaps >>
Enqueue(i) ==
    /\ task[i] = "new" /\ task' = [task EXCEPT ![i] = "queued"]
    /\ owed' = owed + 1
    /\ UNCHANGED << version, verdict, poll, told, mishaps >>

\* RequeueTaskAfterClaimFailure.
Requeue(i) ==
    /\ task[i] = "taken" /\ Mishap /\ task' = [task EXCEPT ![i] = "queued"]
    /\ owed' = owed + 1
    /\ UNCHANGED << version, verdict, poll, told >>

\* NotifyTaskFinished, which may have freed capacity for another task.
TaskEnds(i) ==
    /\ task[i] = "taken" /\ task' = [task EXCEPT ![i] = "done"]
    /\ owed' = owed + 1
    /\ UNCHANGED << version, verdict, poll, told, mishaps >>

Bump ==
    /\ owed > 0 /\ owed' = owed - 1
    /\ version' = version + 1 /\ told' = Queued
    /\ UNCHANGED << task, verdict, poll, mishaps >>

\* Its error is logged and swallowed; a crash before it has the same effect.
LoseBump ==
    /\ owed > 0 /\ owed' = owed - 1 /\ Mishap
    /\ UNCHANGED << task, version, verdict, poll, told >>

-----------------------------------------------------------------------------
(* A claim request, from IsEmpty on.                                          *)

At(h, pc) == poll[h].pc = pc
GoOn(h, pc) == poll' = [poll EXCEPT ![h].pc = pc]

Poll(h) ==
    /\ At(h, "idle") /\ GoOn(h, "check")
    /\ UNCHANGED << task, owed, version, verdict, told, mishaps >>

\* A hit answers the request.
IsEmpty(h) ==
    /\ At(h, "check")
    /\ \/ GoOn(h, IF Trusted THEN "idle" ELSE "version") /\ UNCHANGED mishaps
       \/ GoOn(h, "version") /\ Mishap
    /\ UNCHANGED << task, owed, version, verdict, told >>

\* Sampled before the SELECT; 0 on an error.
CurrentVersion(h) ==
    /\ At(h, "version")
    /\ \/ poll' = [poll EXCEPT ![h] = [pc |-> "list", seen |-> version]] /\ UNCHANGED mishaps
       \/ poll' = [poll EXCEPT ![h] = [pc |-> "list", seen |-> 0]] /\ Mishap
    /\ UNCHANGED << task, owed, version, verdict, told >>

\* ListQueuedClaimCandidatesByRuntime.
List(h) ==
    /\ At(h, "list")
    /\ \/ GoOn(h, IF Queued = {} THEN "mark" ELSE "claim") /\ UNCHANGED mishaps
       \/ GoOn(h, "idle") /\ Mishap
    /\ UNCHANGED << task, owed, version, verdict, told >>

MarkLatest(h) ==  \* mutant: tags the verdict with the version after the SELECT
    /\ At(h, "mark") /\ GoOn(h, "idle")
    /\ verdict' = {version}
    /\ UNCHANGED << task, owed, version, told, mishaps >>
MarkEmpty(h) ==
    /\ At(h, "mark") /\ GoOn(h, "idle")
    /\ \/ verdict' = {poll[h].seen} /\ UNCHANGED mishaps
       \/ UNCHANGED verdict /\ Mishap
    /\ UNCHANGED << task, owed, version, told >>

\* claimTask, for each listed agent: somebody else may have taken what was listed.
Claim(h) ==
    /\ At(h, "claim") /\ GoOn(h, "idle")
    /\ \/ Queued = {} /\ UNCHANGED << task, told, mishaps >>
       \/ \E i \in Queued : task' = [task EXCEPT ![i] = "taken"] /\ told' = told \ {i}
          /\ UNCHANGED mishaps
       \/ UNCHANGED << task, told >> /\ Mishap
    /\ UNCHANGED << owed, version, verdict >>

-----------------------------------------------------------------------------
(* Key expiry.                                                                *)

NeverExpires == FALSE /\ UNCHANGED emptyVars  \* mutant: a verdict without a TTL
\* EmptyClaimCacheTTL.
VerdictExpires ==
    /\ verdict # {} /\ verdict' = {}
    /\ UNCHANGED << task, owed, version, poll, told, mishaps >>

\* emptyClaimVersionTTL, renewed whenever the version is raised or sampled, is
\* far longer than a request and a verdict's life: neither outlives the key.
VersionExpires ==
    /\ version > 0 /\ version' = 0
    /\ verdict = {} /\ \A h \in Handlers : poll[h].pc \notin {"list", "mark"}
    /\ UNCHANGED << task, owed, verdict, poll, told, mishaps >>

Answer(h) ==
    Poll(h) \/ IsEmpty(h) \/ CurrentVersion(h) \/ List(h) \/ MarkEmpty(h) \/ Claim(h)

EmptyNext ==
    \/ \E i \in Tasks : Enqueue(i) \/ Requeue(i) \/ TaskEnds(i)
    \/ Bump \/ LoseBump \/ VerdictExpires \/ VersionExpires
    \/ \E h \in Handlers : Answer(h)

EmptySpec == EmptyInit /\ [][EmptyNext]_emptyVars

\* The daemon polls for ever, and keys expire.
FairEmptySpec ==
    EmptySpec /\ WF_emptyVars(VerdictExpires) /\ \A h \in Handlers : WF_emptyVars(Answer(h))
-----------------------------------------------------------------------------
(* Properties.                                                                *)

\* Every variable has its type, and only queued tasks were told of.
EmptyTypeOK ==
    /\ task \in [Tasks -> {"new", "queued", "taken", "done"}]
    /\ owed \in Nat /\ version \in Nat
    /\ verdict \subseteq Nat
    /\ poll \in [Handlers -> [pc : {"idle", "check", "version", "list", "mark", "claim"},
                              seen : Nat]]
    /\ told \subseteq Queued
    /\ mishaps \in 0 .. MaxMishaps

\* Once a Bump has followed a task's commit, no verdict hides it ("never a
\* stalled task"), even one a slow claim request writes later.
NeverHidden == told # {} => ~Trusted

\* Every queued task is claimed, also when its Bump was lost: the verdict's TTL
\* is "the safety net for a missed invalidation".
QueuedIsClaimed == Queued # {} ~> Queued = {}
=============================================================================
