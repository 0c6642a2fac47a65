---------------------------- MODULE MCTaskQueue ----------------------------
(* Instances of TaskQueue for TLC.                                            *)
EXTENDS TaskQueue, TLC

HandlerSymmetry == Permutations(Handlers)
=============================================================================
