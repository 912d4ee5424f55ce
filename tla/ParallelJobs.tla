----------------------------- MODULE ParallelJobs -----------------------------
(***************************************************************************)
(* The bounded job window of the policy evaluators                         *)
(* (stackpilot/hard_policy_eval.py, parallel_job_results): a coordinator   *)
(* feeds a bounded work queue, daemon worker threads take jobs from it and *)
(* post outcomes to an unbounded result queue, and the coordinator, a      *)
(* generator, yields the successes.  The first failure, an interrupt or a  *)
(* consumer that gives up stops the window: queued work is discarded and   *)
(* every worker is woken with a sentinel, without waiting for a stuck one. *)
(*                                                                         *)
(* Each critical section of start_lock holds a single step here, so the    *)
(* lock itself is not a variable.  Jobs are the numbers 1..NumJobs, in the *)
(* order of the caller's iterable, and 0 is the sentinel.                  *)
(***************************************************************************)
EXTENDS Naturals, Sequences, FiniteSets

CONSTANTS
  NumJobs,       \* length of the iterable of jobs
  Workers,       \* the worker threads: max_workers of them
  Capacity,      \* max_in_flight
  StuckJobs,     \* jobs whose worker need never come back
  MaxInterrupts  \* KeyboardInterrupts that may reach the coordinator

Jobs == 1..NumJobs
Sentinel == 0

ASSUME WindowAssumption ==
  /\ NumJobs \in Nat
  /\ IsFiniteSet(Workers) /\ Workers # {}
  /\ Capacity \in Nat /\ Capacity >= Cardinality(Workers)
  /\ StuckJobs \subseteq Jobs
  /\ MaxInterrupts \in Nat

VARIABLES
  work,         \* work_queue: jobs and sentinels
  results,      \* result_queue: jobs whose outcome has been posted
  failed,       \* jobs whose worker raised
  stop,         \* stop_event
  wpc, wjob,    \* each worker's place in run_worker and the entry it holds
  cpc,          \* the coordinator's place
  nextJob,      \* the next job of the iterator
  outstanding,  \* the coordinator's count of jobs in flight
  gathered,     \* how many outcomes this round has gathered
  outcomes,     \* the successes among them, less those already yielded
  error,        \* first_error is set
  sentinels,    \* sentinels still to be put by request_stop or stop_normally
  delivered,    \* jobs yielded to the consumer
  verdict,      \* how the generator ends; "open" until that is decided
  interrupts

workers == <<wpc, wjob>>
coordinator == <<cpc, nextJob, outstanding, gathered, outcomes, error,
                 sentinels>>
vars == <<work, results, failed, stop, workers, coordinator, delivered,
          verdict, interrupts>>

TypeOK ==
  /\ work \in Seq(Jobs \cup {Sentinel})
  /\ results \in Seq(Jobs)
  /\ failed \subseteq Jobs
  /\ stop \in BOOLEAN
  /\ wpc \in [Workers -> {"get", "check", "call", "running", "post",
                          "again", "exited"}]
  /\ wjob \in [Workers -> Jobs \cup {Sentinel}]
  /\ cpc \in {"fill", "wait", "gather", "stop", "drain", "wake", "grace",
              "yield", "finish", "join", "closed"}
  /\ nextJob \in 1..(NumJobs + 1)
  /\ outstanding \in 0..Capacity
  /\ gathered \in 0..Capacity
  /\ outcomes \in Seq(Jobs)
  /\ error \in BOOLEAN
  /\ sentinels \in 0..Cardinality(Workers)
  /\ delivered \subseteq Jobs
  /\ verdict \in {"open", "returned", "raised", "aborted"}
  /\ interrupts \in 0..MaxInterrupts

Init ==
  /\ work = <<>> /\ results = <<>> /\ failed = {} /\ stop = FALSE
  /\ wpc = [w \in Workers |-> "get"]
  /\ wjob = [w \in Workers |-> Sentinel]
  /\ cpc = "fill" /\ nextJob = 1 /\ outstanding = 0
  /\ gathered = 0 /\ outcomes = <<>>
  /\ error = FALSE /\ sentinels = 0
  /\ delivered = {} /\ verdict = "open" /\ interrupts = 0

-----------------------------------------------------------------------------
(* run_worker *)

WorkerGoes(w, place) == wpc' = [wpc EXCEPT ![w] = place]

\* work_queue.get(): blocks while the queue is empty; a sentinel ends the thread.
GetEntry(w) ==
  /\ wpc[w] = "get" /\ work # <<>>
  /\ work' = Tail(work)
  /\ wjob' = [wjob EXCEPT ![w] = Head(work)]
  /\ WorkerGoes(w, IF Head(work) = Sentinel THEN "exited" ELSE "check")
  /\ UNCHANGED <<results, failed, stop, coordinator, delivered, verdict,
                 interrupts>>

\* Under start_lock: a job that was queued when stop was set is dropped.
CheckStop(w) ==
  /\ wpc[w] = "check"
  /\ WorkerGoes(w, IF stop THEN "exited" ELSE "call")
  /\ UNCHANGED <<work, results, failed, stop, wjob, coordinator, delivered,
                 verdict, interrupts>>

\* worker(job) begins, outside the lock.
CallWorker(w) ==
  /\ wpc[w] = "call"
  /\ WorkerGoes(w, "running")
  /\ UNCHANGED <<work, results, failed, stop, wjob, coordinator, delivered,
                 verdict, interrupts>>

\* worker(job) returns, or raises and stops the window at once.
WorkerReturns(w) ==
  /\ wpc[w] = "running"
  /\ WorkerGoes(w, "post")
  /\ UNCHANGED <<work, results, failed, stop, wjob, coordinator, delivered,
                 verdict, interrupts>>

WorkerRaises(w) ==
  /\ wpc[w] = "running"
  /\ failed' = failed \cup {wjob[w]}
  /\ stop' = TRUE
  /\ WorkerGoes(w, "post")
  /\ UNCHANGED <<work, results, wjob, coordinator, delivered, verdict,
                 interrupts>>

PostOutcome(w) ==
  /\ wpc[w] = "post"
  /\ results' = Append(results, wjob[w])
  /\ WorkerGoes(w, "again")
  /\ UNCHANGED <<work, failed, stop, wjob, coordinator, delivered, verdict,
                 interrupts>>

\* The stop_event test at the end of the loop.
LoopAgain(w) ==
  /\ wpc[w] = "again"
  /\ WorkerGoes(w, IF stop THEN "exited" ELSE "get")
  /\ UNCHANGED <<work, results, failed, stop, wjob, coordinator, delivered,
                 verdict, interrupts>>

WorkerStep(w) ==
  \/ GetEntry(w) \/ CheckStop(w) \/ CallWorker(w) \/ PostOutcome(w)
  \/ LoopAgain(w)
WorkerEnds(w) == WorkerReturns(w) \/ WorkerRaises(w)

-----------------------------------------------------------------------------
(* The coordinator: fill, the gathering loop, request_stop, stop_normally *)

CoordinatorKeeps == UNCHANGED <<failed, workers, interrupts>>

\* fill(): put the next job; the queue must have room for it.
FillOne ==
  /\ cpc = "fill"
  /\ ~stop /\ outstanding < Capacity /\ nextJob <= NumJobs
  /\ Len(work) < Capacity
  /\ work' = Append(work, nextJob)
  /\ nextJob' = nextJob + 1
  /\ outstanding' = outstanding + 1
  /\ UNCHANGED <<results, stop, cpc, outcomes, gathered, error, sentinels,
                 delivered, verdict>>
  /\ CoordinatorKeeps

\* fill() returns; "while outstanding" goes on or ends.
FillDone ==
  /\ cpc = "fill"
  /\ stop \/ outstanding = Capacity \/ nextJob > NumJobs
  /\ IF outstanding > 0
       THEN cpc' = "wait" /\ UNCHANGED sentinels
       ELSE cpc' = "finish" /\ sentinels' = Cardinality(Workers)
  /\ UNCHANGED <<work, results, stop, nextJob, outstanding, outcomes,
                 gathered, error, delivered, verdict>>
  /\ CoordinatorKeeps

Succeeded(j) == j \notin failed

\* Mutant of Gather: errors are dropped.
GatherDropsErrors ==
  /\ cpc \in {"wait", "gather"} /\ results # <<>>
  /\ results' = Tail(results)
  /\ gathered' = gathered + 1
  /\ IF Succeeded(Head(results))
       THEN outcomes' = Append(outcomes, Head(results))
       ELSE UNCHANGED outcomes
  /\ cpc' = "gather"
  /\ UNCHANGED <<work, stop, nextJob, outstanding, error, sentinels,
                 delivered, verdict>>
  /\ CoordinatorKeeps

\* result_queue.get(timeout=0.1), retried, and then every outcome already there.
\* What an outcome says is settled when it is posted, so the sorting of the
\* round into successes and the first error is done as the outcomes come.
Gather ==
  /\ cpc \in {"wait", "gather"} /\ results # <<>>
  /\ results' = Tail(results)
  /\ gathered' = gathered + 1
  /\ IF Succeeded(Head(results))
       THEN outcomes' = Append(outcomes, Head(results)) /\ UNCHANGED error
       ELSE error' = TRUE /\ UNCHANGED outcomes
  /\ cpc' = "gather"
  /\ UNCHANGED <<work, stop, nextJob, outstanding, sentinels, delivered,
                 verdict>>
  /\ CoordinatorKeeps

\* queue.Empty: the round's outcomes are no longer in flight.
GatherDone ==
  /\ cpc = "gather" /\ results = <<>>
  /\ outstanding' = outstanding - gathered
  /\ gathered' = 0
  /\ cpc' = IF error THEN "stop" ELSE "yield"
  /\ UNCHANGED <<work, results, stop, nextJob, outcomes, error, sentinels,
                 delivered, verdict>>
  /\ CoordinatorKeeps

\* request_stop(): set stop_event, ...
RequestStop ==
  /\ cpc = "stop"
  /\ stop' = TRUE
  /\ cpc' = "drain"
  /\ UNCHANGED <<work, results, nextJob, outstanding, outcomes, gathered,
                 error, sentinels, delivered, verdict>>
  /\ CoordinatorKeeps

\* Mutant of Drain: queued jobs stay in front of the sentinels.
DrainNothing ==
  /\ cpc = "drain"
  /\ cpc' = "wake" /\ sentinels' = Cardinality(Workers)
  /\ UNCHANGED <<work, results, stop, nextJob, outstanding, outcomes,
                 gathered, error, delivered, verdict>>
  /\ CoordinatorKeeps

\* ... discard what no worker has taken, ...
Drain ==
  /\ cpc = "drain"
  /\ IF work # <<>>
       THEN work' = Tail(work) /\ UNCHANGED <<cpc, sentinels>>
       ELSE /\ cpc' = "wake" /\ sentinels' = Cardinality(Workers)
            /\ UNCHANGED work
  /\ UNCHANGED <<results, stop, nextJob, outstanding, outcomes, gathered,
                 error, delivered, verdict>>
  /\ CoordinatorKeeps

\* Mutants of Wake: no sentinel is put; the workers are joined before raising.
WakeNobody ==
  /\ cpc = "wake"
  /\ cpc' = IF verdict = "open" THEN "grace" ELSE "closed"
  /\ sentinels' = 0
  /\ UNCHANGED <<work, results, stop, nextJob, outstanding, outcomes,
                 gathered, error, delivered, verdict>>
  /\ CoordinatorKeeps

WakeThenJoin ==
  /\ cpc = "wake"
  /\ IF sentinels > 0
       THEN /\ Len(work) < Capacity
            /\ work' = Append(work, Sentinel)
            /\ sentinels' = sentinels - 1
            /\ UNCHANGED cpc
       ELSE /\ cpc' = IF verdict = "open" THEN "grace" ELSE "join"
            /\ UNCHANGED <<work, sentinels>>
  /\ UNCHANGED <<results, stop, nextJob, outstanding, outcomes, gathered,
                 error, delivered, verdict>>
  /\ CoordinatorKeeps

\* ... and wake every worker: put_nowait, which must find room.
Wake ==
  /\ cpc = "wake"
  /\ IF sentinels > 0
       THEN /\ Len(work) < Capacity
            /\ work' = Append(work, Sentinel)
            /\ sentinels' = sentinels - 1
            /\ UNCHANGED cpc
       ELSE /\ cpc' = IF verdict = "open" THEN "grace" ELSE "closed"
            /\ UNCHANGED <<work, sentinels>>
  /\ UNCHANGED <<results, stop, nextJob, outstanding, outcomes, gathered,
                 error, delivered, verdict>>
  /\ CoordinatorKeeps

\* The quarter second in which peers of the failed job may still finish.
GraceTakes ==
  /\ cpc = "grace" /\ results # <<>>
  /\ results' = Tail(results)
  /\ outcomes' = IF Succeeded(Head(results)) THEN Append(outcomes, Head(results))
                                             ELSE outcomes
  /\ UNCHANGED <<work, stop, cpc, nextJob, outstanding, gathered, error,
                 sentinels, delivered, verdict>>
  /\ CoordinatorKeeps

GraceEnds ==
  /\ cpc = "grace"
  /\ cpc' = "yield"
  /\ UNCHANGED <<work, results, stop, nextJob, outstanding, outcomes,
                 gathered, error, sentinels, delivered, verdict>>
  /\ CoordinatorKeeps

\* yield item: the consumer gets a result and comes back for more.
Yield ==
  /\ cpc = "yield" /\ outcomes # <<>>
  /\ delivered' = delivered \cup {Head(outcomes)}
  /\ outcomes' = Tail(outcomes)
  /\ UNCHANGED <<work, results, stop, cpc, nextJob, outstanding, gathered,
                 error, sentinels, verdict>>
  /\ CoordinatorKeeps

\* The round's successes are out: raise first_error, or fill() again.
YieldDone ==
  /\ cpc = "yield" /\ outcomes = <<>>
  /\ IF error THEN cpc' = "stop" /\ verdict' = "raised"
              ELSE cpc' = "fill" /\ UNCHANGED verdict
  /\ UNCHANGED <<work, results, stop, nextJob, outstanding, outcomes,
                 gathered, error, sentinels, delivered>>
  /\ CoordinatorKeeps

\* stop_normally(): a blocking put per worker, then join them.
Finish ==
  /\ cpc = "finish"
  /\ IF sentinels > 0
       THEN /\ Len(work) < Capacity
            /\ work' = Append(work, Sentinel)
            /\ sentinels' = sentinels - 1
            /\ UNCHANGED cpc
       ELSE cpc' = "join" /\ UNCHANGED <<work, sentinels>>
  /\ UNCHANGED <<results, stop, nextJob, outstanding, outcomes, gathered,
                 error, delivered, verdict>>
  /\ CoordinatorKeeps

Join ==
  /\ cpc = "join"
  /\ \A w \in Workers : wpc[w] = "exited"
  /\ cpc' = "closed"
  /\ verdict' = "returned"
  /\ UNCHANGED <<work, results, stop, nextJob, outstanding, outcomes,
                 gathered, error, sentinels, delivered>>
  /\ CoordinatorKeeps

\* A KeyboardInterrupt while the coordinator runs or waits, or an exception or
\* close() of the consumer between two items: the finally clause stops all.
Interrupted ==
  /\ cpc # "closed" /\ verdict = "open"
  /\ interrupts < MaxInterrupts
  /\ interrupts' = interrupts + 1
  /\ verdict' = "aborted"
  /\ cpc' = "stop"
  /\ UNCHANGED <<work, results, failed, stop, workers, nextJob, outstanding,
                 outcomes, gathered, error, sentinels, delivered>>

CoordinatorStep ==
  \/ FillOne \/ FillDone \/ Gather \/ GatherDone \/ RequestStop \/ Drain \/ Wake
  \/ GraceTakes \/ GraceEnds \/ Yield \/ YieldDone \/ Finish \/ Join

\* Everything is over: the program may stop.
Terminated ==
  /\ cpc = "closed"
  /\ \A w \in Workers : wpc[w] = "exited"
  /\ UNCHANGED vars

Next ==
  \/ CoordinatorStep \/ Interrupted \/ Terminated
  \/ \E w \in Workers : WorkerStep(w) \/ WorkerEnds(w)

Spec == Init /\ [][Next]_vars

\* Threads are scheduled; a job outside StuckJobs comes to an end.
Fairness ==
  /\ WF_vars(CoordinatorStep)
  /\ \A w \in Workers :
       /\ WF_vars(WorkerStep(w))
       /\ WF_vars(WorkerEnds(w) /\ wjob[w] \notin StuckJobs)

FairSpec == Spec /\ Fairness

-----------------------------------------------------------------------------
(* Properties *)

InSeq(j, s) == \E i \in 1..Len(s) : s[i] = j
HeldBy(w) == wpc[w] \in {"check", "call", "running", "post"}

\* The places a job can be in once it has been taken from the iterator.
Places(j) ==
  {<<i, "queued">> : i \in {k \in 1..Len(work) : work[k] = j}}
  \cup {<<w, "worker">> : w \in {v \in Workers : HeldBy(v) /\ wjob[v] = j}}
  \cup {<<i, "result">> : i \in {k \in 1..Len(results) : results[k] = j}}
  \cup {<<i, "outcome">> : i \in {k \in 1..Len(outcomes) : outcomes[k] = j}}
  \cup {<<d, "delivered">> : d \in {j} \cap delivered}

\* No job is run or delivered twice, and until the window stops none is lost:
\* each job taken is queued, held by one worker, posted, gathered or delivered.
EachJobInOnePlace ==
  \A j \in Jobs :
    /\ Cardinality(Places(j)) <= 1
    /\ j >= nextJob => Places(j) = {}
    /\ j < nextJob /\ ~stop => Places(j) # {}

\* The comment at line 777: a put never finds the queue full, so neither does
\* request_stop raise queue.Full nor does fill() block the coordinator.
QueueHasRoom ==
  /\ cpc = "wake" /\ sentinels > 0 => Len(work) < Capacity
  /\ cpc = "fill" /\ outstanding < Capacity => Len(work) < Capacity

\* "outstanding" counts exactly the jobs whose outcome the coordinator has yet
\* to gather, so the loop neither ends early nor waits for nothing.
OutstandingIsExact ==
  ~stop /\ verdict = "open" =>
    outstanding = Cardinality({j \in 1..(nextJob - 1) :
                     j \notin delivered
                     /\ (cpc \in {"wait", "gather"} \/ ~InSeq(j, outcomes))})

\* Jobs and puts are accounted for: none is lost, repeated or waited for in vain.
JobsAreAccounted ==
  TypeOK /\ EachJobInOnePlace /\ QueueHasRoom /\ OutstandingIsExact

\* A failure is never swallowed: with a failed job the stream does not end as if
\* all were well, and it ends well only with every job delivered.
Stream == INSTANCE JobStream WITH failures <- failed
KeepsStreamPromise == Stream!SSpec

\* The stream always ends, unless a thread stays in a job that never does.
Ends ==
  \/ <>(cpc = "closed")
  \/ <>[](\E w \in Workers : wpc[w] = "running" /\ wjob[w] \in StuckJobs)

\* A stuck job holds up neither a failure nor an interrupt.
FailureGetsOut == failed # {} \/ verdict # "open" ~> cpc = "closed"

\* Once the stream is closed no thread stays behind but a stuck one.
IdleThreadsEnd ==
  cpc = "closed" ~>
    \A w \in Workers : wpc[w] = "exited" \/ wjob[w] \in StuckJobs

\* The window comes to an end, and so do its threads.
ThreadsEnd == Ends /\ IdleThreadsEnd
=============================================================================
