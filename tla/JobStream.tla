------------------------------ MODULE JobStream ------------------------------
(***************************************************************************)
(* What a stream of results of independent jobs promises its consumer: no  *)
(* result twice, none for a job that failed, a normal end only after every *)
(* job, and an error only if some job failed.  ParallelJobs                *)
(* (stackpilot/hard_policy_eval.py, parallel_job_results) implements it.   *)
(***************************************************************************)
EXTENDS Naturals

CONSTANT Jobs

VARIABLES
  delivered,   \* jobs whose result the consumer has been handed
  failures,    \* jobs whose worker raised
  verdict      \* how the stream ended

svars == <<delivered, failures, verdict>>

SInit == delivered = {} /\ failures = {} /\ verdict = "open"

JobFails(j) ==
  /\ j \notin delivered \cup failures
  /\ failures' = failures \cup {j}
  /\ UNCHANGED <<delivered, verdict>>

Deliver(j) ==
  /\ verdict = "open"
  /\ j \notin delivered \cup failures
  /\ delivered' = delivered \cup {j}
  /\ UNCHANGED <<failures, verdict>>

End(how) ==
  /\ verdict = "open"
  /\ how = "returned" => delivered = Jobs /\ failures = {}
  /\ how = "raised" => failures # {}
  /\ verdict' = how
  /\ UNCHANGED <<delivered, failures>>

SNext ==
  \/ \E j \in Jobs : JobFails(j) \/ Deliver(j)
  \/ \E how \in {"returned", "raised", "aborted"} : End(how)

SSpec == SInit /\ [][SNext]_svars
=============================================================================
