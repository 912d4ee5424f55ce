---------------------------- MODULE MCHardResults ----------------------------
(* Small values for HardResults: three questions of two datasets, and scores *)
(* that depend on the policy, its checkpoint and the cell.                   *)
EXTENDS HardResults

MCQuestions == <<<<"m1", "musique">>, <<"m2", "musique">>, <<"w1", "2wiki">>>>

MCTopks == <<3>>

MCWatchSeeds == <<1>>

MCRequests ==
  {[seeds |-> <<1, 2>>, limit |-> 2, report |-> TRUE],
   [seeds |-> <<1>>, limit |-> 1, report |-> FALSE]}

\* m1 is hard and recovers, m2 is easy, w1 is recovered by specialists only.
MCMeasured(row) ==
  LET q == row.key[1][1]
      policy == row.run.policy
      base == policy = BasePolicy
      home == ~base /\ HomeOf[policy.tag] = row.key[2]
      turn1 == CASE q = "m1" /\ row.key[2] = "e5" -> 2 [] q = "m2" -> 5 [] OTHER -> 0
      gain == IF ~home THEN 0 ELSE IF q = "w1" /\ row.run.model % 3 = 0 THEN -1 ELSE 1
  IN [turn1 |-> turn1,
      turn3 |-> Min({5, turn1 + (IF q = "m1" \/ ~base THEN 1 ELSE 0)}),
      score |-> 1 + gain + (IF row.key[2] = "e5" /\ q = "w1" THEN 3 ELSE 0)]
=============================================================================
