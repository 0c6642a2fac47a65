---------------------------- MODULE MCLiveParts -----------------------------
(* The components with liveness properties, which share no state, each        *)
(* checked by itself in one run: a behaviour picks the part that moves, the   *)
(* others stay as they begin, and fairness is asked of the part that moves.   *)
EXTENDS Daemon, Workspace, ChannelLease, EmptyClaim, CronScheduler, TLC

CONSTANTS t1, t2, t3, home, scratch
VARIABLE part

Moves(p) == part = p /\ UNCHANGED part

PartsInit ==
    /\ part \in {"daemon", "workspace", "lease", "empty", "cron"}
    /\ DaemonInit /\ WorkspaceInit /\ LeaseInit /\ EmptyInit /\ Init
    /\ part # "lease" => print = NoPrint

DaemonMoves == Moves("daemon") /\ DaemonNext
    /\ UNCHANGED << workspaceVars, leaseVars, emptyVars, vars >>
WorkspaceMoves == Moves("workspace") /\ WorkspaceNext
    /\ UNCHANGED << daemonVars, leaseVars, emptyVars, vars >>
LeaseMoves == Moves("lease") /\ LeaseNext
    /\ UNCHANGED << daemonVars, workspaceVars, emptyVars, vars >>
EmptyMoves == Moves("empty") /\ EmptyNext
    /\ UNCHANGED << daemonVars, workspaceVars, leaseVars, vars >>
CronMoves == Moves("cron") /\ Next
    /\ UNCHANGED << daemonVars, workspaceVars, leaseVars, emptyVars >>

PartsNext == DaemonMoves \/ WorkspaceMoves \/ LeaseMoves \/ EmptyMoves \/ CronMoves

partsVars == << part, daemonVars, workspaceVars, leaseVars, emptyVars, vars >>

\* Goroutines are scheduled, timers fire, claims return, updates and agents end.
DaemonRuns == part = "daemon" /\ ~returned
DaemonFair ==
    /\ WF_daemonVars(DaemonRuns /\ PollerStep)
    /\ WF_daemonVars(DaemonRuns /\ TasksStep)
    /\ WF_daemonVars(DaemonRuns /\ \E u \in Goroutines : UpdaterFinishes(u))

\* Removals end, and repeated ones do not keep a task from marking its root.
WorkspaceRuns == part = "workspace"
WorkspaceFair ==
    /\ SF_workspaceVars(WorkspaceRuns /\ WorkersStep)
    /\ WF_workspaceVars(WorkspaceRuns /\ Removed)

\* Replicas sweep, goroutines are scheduled, and time passes.
LeaseFair ==
    /\ \A n \in Nodes : WF_leaseVars(part = "lease" /\ SweepStep(n))
    /\ WF_leaseVars(part = "lease" /\ SupStep)
    /\ WF_leaseVars(part = "lease" /\ LeaseTick)

\* The daemon polls for ever, and keys expire.
EmptyFair ==
    /\ WF_emptyVars(part = "empty" /\ VerdictExpires)
    /\ \A h \in Handlers : WF_emptyVars(part = "empty" /\ Answer(h))

\* Live instances keep ticking, and their statements and handlers return.
CronFair == \A r \in Runners :
    /\ WF_vars(part = "cron" /\ StartTick(r))
    /\ WF_vars(part = "cron" /\ Proceed(r))
    /\ WF_vars(part = "cron" /\ Restart(r))

PartsSpec ==
    /\ PartsInit /\ [][PartsNext]_partsVars
    /\ DaemonFair /\ WorkspaceFair /\ LeaseFair /\ EmptyFair /\ CronFair

NoBackoff == <<>>
\* Two issue tasks share a directory; a chat task resumes the first one's root.
PathsOfTasks == (t1 :> home @@ t2 :> home @@ t3 :> NoPath)
RootsOfTasks == (t1 :> << home >> @@ t2 :> << scratch >> @@ t3 :> << scratch, home >>)
=============================================================================
