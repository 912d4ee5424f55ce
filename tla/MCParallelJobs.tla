---------------------------- MODULE MCParallelJobs ----------------------------
(* Small values for ParallelJobs.                                          *)
EXTENDS ParallelJobs

CONSTANTS w1, w2

TwoWorkers == {w1, w2}
OneStuckJob == {2}
=============================================================================
