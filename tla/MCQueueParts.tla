---------------------------- MODULE MCQueueParts ----------------------------
(* The liveness of the task queue and the dispatch of autopilots, which share *)
(* no state here, each checked by itself in one run: a behaviour picks the    *)
(* part that moves, the other stays as it begins, and fairness is asked of    *)
(* the part that moves.                                                      *)
EXTENDS TaskQueue, AutopilotDispatch

CONSTANTS plan, hook, click
VARIABLE part

Moves(p) == part = p /\ UNCHANGED part

PartsInit ==
    /\ part \in {"queue", "autopilot"} /\ Init /\ DispatchInit
    /\ part = "queue" => mode = "run_only" /\ limit = 1 /\ todo[plan] = "never"

QueueMoves == Moves("queue") /\ Next /\ UNCHANGED dispatchVars
AutopilotMoves == Moves("autopilot") /\ DispatchNext /\ UNCHANGED vars

PartsNext == QueueMoves \/ AutopilotMoves

partsVars == << part, vars, dispatchVars >>

QueueRuns == part = "queue"
QueueFair ==
    /\ \A h \in Handlers : WF_vars(QueueRuns /\ Answer(h))
    /\ \A i \in Rows : /\ WF_vars(QueueRuns /\ Settle(i))
                       /\ \A c \in Claims : WF_vars(QueueRuns /\ Handle(i, c))
    /\ WF_vars(QueueRuns /\ RecoverOrphans) /\ WF_vars(QueueRuns /\ HeartbeatReturns)
    /\ WF_vars(QueueRuns /\ (RerunEnqueue \/ RerunCollides))

AutopilotRuns == part = "autopilot"
AutopilotFair ==
    /\ \A d \in Dispatchers : WF_dispatchVars(AutopilotRuns /\ DispatchStep(d))
    /\ \A o \in Plans \cup Hooks :
        WF_dispatchVars(AutopilotRuns /\ \E d \in Dispatchers : Take(d, o))
    /\ \A w \in Work : /\ WF_dispatchVars(AutopilotRuns /\ WorkEnds(w))
                       /\ WF_dispatchVars(AutopilotRuns /\ HearEnd(w))
    /\ \A r \in Runs : WF_dispatchVars(AutopilotRuns /\ Reconcile(r))

PartsSpec == PartsInit /\ [][PartsNext]_partsVars /\ QueueFair /\ AutopilotFair

\* A plan, a delivery or the requests of one click, where something goes wrong; a
\* plan and a delivery with room for one, and with room for both.
SmallScenarios ==
    {[arising |-> {plan}, limit |-> 1, accidents |-> 2],
     [arising |-> {hook}, limit |-> 1, accidents |-> 1],
     [arising |-> {click}, limit |-> 1, accidents |-> 1],
     [arising |-> {plan, hook}, limit |-> 1, accidents |-> 0],
     [arising |-> {plan, hook}, limit |-> 2, accidents |-> 0]}
=============================================================================
