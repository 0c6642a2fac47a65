--------------------------- MODULE MCSafetyParts ----------------------------
(* The components whose properties are safety properties, and that share no   *)
(* state, each checked by itself in one run: a behaviour picks the part that  *)
(* moves, the others stay as they begin.                                     *)
EXTENDS PlannerCheck, ReclaimCheck, ChannelInbound, ClaimTransport,
        CommentCoverage, TLC

CONSTANTS sv1, sv2
VARIABLE part

Moves(p) == part = p /\ UNCHANGED part

PartsInit ==
    /\ part \in {"reclaim", "inbound", "transport", "planner", "comments"}
    /\ ReclaimInit /\ InboundInit /\ TransportInit /\ CoverageInit
    /\ IF part = "planner" THEN PlannerInit ELSE PlannerIdle

ReclaimMoves == Moves("reclaim") /\ ReclaimNext
    /\ UNCHANGED << inboundVars, transportVars, plannerVars, coverageVars >>
InboundMoves == Moves("inbound") /\ InboundNext
    /\ UNCHANGED << reclaimVars, transportVars, plannerVars, coverageVars >>
TransportMoves == Moves("transport") /\ TransportNext
    /\ UNCHANGED << reclaimVars, inboundVars, plannerVars, coverageVars >>
PlannerMoves == Moves("planner") /\ PlannerNext
    /\ UNCHANGED << reclaimVars, inboundVars, transportVars, coverageVars >>
CommentMoves == Moves("comments") /\ CoverageNext
    /\ UNCHANGED << reclaimVars, inboundVars, transportVars, plannerVars >>

PartsNext == \/ ReclaimMoves \/ InboundMoves \/ TransportMoves
             \/ PlannerMoves \/ CommentMoves

PartsSpec == PartsInit /\ [][PartsNext]_<< part, reclaimVars, inboundVars,
                                           transportVars, plannerVars, coverageVars >>

\* The second server's clock is a window ahead.
SkewOfServers == (sv1 :> 0 @@ sv2 :> 3)
=============================================================================
