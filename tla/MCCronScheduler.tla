-------------------------- MODULE MCCronScheduler --------------------------
(* Instances of CronScheduler for TLC.                                        *)
EXTENDS CronScheduler, TLC

RunnerSymmetry == Permutations(Runners)
OneStepBackoff == << 1 >>
TwoStepBackoff == << 1, 2 >>
=============================================================================
