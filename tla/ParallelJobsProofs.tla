------------------------- MODULE ParallelJobsProofs -------------------------
(***************************************************************************)
(* Theorems about ParallelJobs, for any number of jobs and workers, any    *)
(* window and any number of interrupts: no job is lost or repeated, no put *)
(* finds a full queue, and the stream implements JobStream.                *)
(*                                                                         *)
(* The inductive invariant keeps the places of a job apart as sets, and    *)
(* counts what is in flight; that "outstanding" is the number of the jobs  *)
(* not yet gathered follows from both.                                     *)
(***************************************************************************)
EXTENDS ParallelJobs, FiniteSetTheorems, TLAPS

\* The jobs in a queue that may hold sentinels too, and that none is in it twice.
JobsIn(s) == {s[i] : i \in 1..Len(s)} \ {Sentinel}
Once(s) ==
  \A i, k \in 1..Len(s) : s[i] = s[k] /\ s[i] # Sentinel => i = k

\* The workers with a job, and those that have not got an outcome yet.
Held == {w \in Workers : HeldBy(w)}
HeldJobs == {wjob[w] : w \in Held}
Trying == {w \in Workers : wpc[w] \in {"check", "call", "running"}}
TriedJobs == {wjob[w] : w \in Trying}

\* A job is in one place at most: once in one queue, with one worker, or out.
Apart ==
  /\ Once(work) /\ Once(results) /\ Once(outcomes)
  /\ \A v, w \in Held : wjob[v] = wjob[w] => v = w
  /\ JobsIn(work) \cap (HeldJobs \cup JobsIn(results) \cup JobsIn(outcomes) \cup delivered) = {}
  /\ HeldJobs \cap (JobsIn(results) \cup JobsIn(outcomes) \cup delivered) = {}
  /\ JobsIn(results) \cap (JobsIn(outcomes) \cup delivered) = {}
  /\ JobsIn(outcomes) \cap delivered = {}
Known == JobsIn(work) \cup HeldJobs \cup JobsIn(results) \cup JobsIn(outcomes) \cup delivered
OnlyTaken == Known \subseteq 1..(nextJob - 1)
NoneLost == ~stop => 1..(nextJob - 1) \subseteq Known

\* While the rounds go on, "outstanding" counts what is in flight, and at least
\* that once the window stops.
Rounds == {"fill", "wait", "gather", "yield"}
InFlight == Len(work) + Cardinality(Held) + Len(results) + gathered
Counted ==
  cpc \in Rounds /\ (cpc = "yield" => ~error) =>
    InFlight <= outstanding /\ (~stop => InFlight = outstanding)
RoundIsFresh ==
  /\ cpc \in {"fill", "wait"} => outcomes = <<>> /\ gathered = 0 /\ ~error
  /\ cpc = "gather" /\ ~error => gathered = Len(outcomes)
  /\ cpc = "yield" /\ ~error => gathered = 0

\* A failure is on its way to the coordinator or known to it, and stops the
\* window; nothing else does but an interrupt.
FailuresShow ==
  /\ failed # {} => stop
  /\ stop /\ verdict = "open" => failed # {}
  /\ ~error => failed \subseteq HeldJobs \cup JobsIn(results)
  /\ error => failed # {}
  /\ failed \cap (JobsIn(work) \cup TriedJobs \cup JobsIn(outcomes) \cup delivered) = {}

\* Where the coordinator is while the stream is open, and after that.
PlacesAgree ==
  /\ verdict # "open" => cpc \in {"stop", "drain", "wake", "closed"}
  /\ cpc \in {"stop", "drain", "wake"} /\ verdict = "open" => error
  /\ cpc \in {"drain", "wake", "grace"} => stop
  /\ cpc = "grace" => error
  /\ verdict = "raised" => error
  /\ cpc = "closed" => verdict # "open"

\* Sentinels come after the last job, and behind a queue that has been drained.
SentinelsComeLast ==
  /\ verdict = "open" /\ ~stop /\ cpc \notin {"finish", "join"} =>
       \A i \in 1..Len(work) : work[i] # Sentinel
  /\ cpc = "wake" => Len(work) + sentinels <= Cardinality(Workers)

\* The normal end: every job is out.
AllIsDone ==
  cpc \in {"finish", "join"} =>
    /\ failed = {} /\ ~stop /\ delivered = Jobs /\ nextJob = NumJobs + 1
    /\ JobsIn(work) = {} /\ Held = {} /\ results = <<>> /\ outcomes = <<>>
    /\ outstanding = 0 /\ ~error

IInv ==
  /\ TypeOK /\ Apart /\ OnlyTaken /\ NoneLost /\ Counted /\ RoundIsFresh
  /\ FailuresShow /\ PlacesAgree /\ SentinelsComeLast /\ AllIsDone

----------------------------------------------------------------------------
(* Queues of jobs that are in them once.                                   *)

\* What WindowAssumption says of the constants.
LEMMA ConstantFacts ==
  /\ NumJobs \in Nat /\ Jobs = 1..NumJobs /\ Sentinel \notin Jobs
  /\ IsFiniteSet(Workers) /\ Workers # {}
  /\ Cardinality(Workers) \in Nat /\ Cardinality(Workers) > 0
  /\ Capacity \in Nat /\ Capacity >= Cardinality(Workers) /\ Capacity > 0
<1>1. Cardinality(Workers) \in Nat /\ Cardinality(Workers) # 0
  BY WindowAssumption, FS_CardinalityType, FS_EmptySet
<1> QED
  BY <1>1, WindowAssumption DEF Jobs, Sentinel

\* What is left of a queue after its head.
LEMMA TailOfQueue ==
  ASSUME NEW s \in Seq(Jobs \cup {Sentinel}), s # <<>>, Once(s)
  PROVE  /\ Once(Tail(s)) /\ Len(Tail(s)) = Len(s) - 1
         /\ Head(s) \in Jobs \cup {Sentinel}
         /\ JobsIn(Tail(s)) = JobsIn(s) \ {Head(s)}
         /\ Head(s) # Sentinel => Head(s) \in JobsIn(s)
         /\ Head(s) # Sentinel => Head(s) \notin JobsIn(Tail(s))
<1>1. /\ Len(s) \in Nat /\ Len(s) > 0 /\ Len(Tail(s)) = Len(s) - 1
      /\ Head(s) = s[1] /\ Head(s) \in Jobs \cup {Sentinel}
      /\ \A i \in 1..Len(Tail(s)) : Tail(s)[i] = s[i + 1] /\ i + 1 \in 1..Len(s)
  OBVIOUS
<1>2. Once(Tail(s))
  BY <1>1 DEF Once
<1>3. \A j : j \in JobsIn(Tail(s)) => j \in JobsIn(s) /\ j # Head(s)
  BY <1>1 DEF Once, JobsIn
<1>4. ASSUME NEW j \in JobsIn(s), j # Head(s)
      PROVE  j \in JobsIn(Tail(s))
  <2>1. PICK i \in 1..Len(s) : s[i] = j
    BY <1>4 DEF JobsIn
  <2>2. i # 1 /\ i - 1 \in 1..Len(Tail(s)) /\ Tail(s)[i - 1] = j
    BY <2>1, <1>1, <1>4
  <2> QED
    BY <2>2, <1>4 DEF JobsIn
<1>5. Head(s) # Sentinel => Head(s) \in JobsIn(s)
  BY <1>1 DEF JobsIn
<1> QED
  BY <1>1, <1>2, <1>3, <1>4, <1>5

\* A queue after a put.
LEMMA AppendToQueue ==
  ASSUME NEW s \in Seq(Jobs \cup {Sentinel}), Once(s),
         NEW j \in Jobs \cup {Sentinel}, j \notin JobsIn(s)
  PROVE  /\ Once(Append(s, j)) /\ Len(Append(s, j)) = Len(s) + 1
         /\ JobsIn(Append(s, j)) = JobsIn(s) \cup ({j} \ {Sentinel})
<1>1. /\ Len(s) \in Nat /\ Len(Append(s, j)) = Len(s) + 1
      /\ \A i \in 1..Len(s) : Append(s, j)[i] = s[i]
      /\ Append(s, j)[Len(s) + 1] = j
      /\ \A i : i \in 1..Len(s) + 1 <=> i \in 1..Len(s) \/ i = Len(s) + 1
  OBVIOUS
<1>2. Once(Append(s, j))
  BY <1>1 DEF Once, JobsIn
<1>3. JobsIn(Append(s, j)) = JobsIn(s) \cup ({j} \ {Sentinel})
  BY <1>1 DEF JobsIn
<1> QED
  BY <1>1, <1>2, <1>3

\* An empty queue.
LEMMA EmptyQueue ==
  /\ JobsIn(<<>>) = {} /\ Once(<<>>) /\ Len(<<>>) = 0
  BY DEF JobsIn, Once

\* A queue of jobs is as long as its jobs are many.
LEMMA LengthOfQueue ==
  ASSUME NEW s \in Seq(Jobs), Once(s)
  PROVE  /\ IsFiniteSet(JobsIn(s)) /\ Cardinality(JobsIn(s)) = Len(s)
         /\ JobsIn(s) \subseteq Jobs
<1>1. Len(s) \in Nat /\ \A i \in 1..Len(s) : s[i] \in Jobs /\ s[i] # Sentinel
  BY ConstantFacts
<1>2. JobsIn(s) = {s[i] : i \in 1..Len(s)}
  BY <1>1 DEF JobsIn
<1> DEFINE f == [i \in 1..Len(s) |-> s[i]]
<1>3. f \in Bijection(1..Len(s), JobsIn(s))
  <2>1. f \in [1..Len(s) -> JobsIn(s)]
    BY <1>2
  <2>2. \A i, k \in 1..Len(s) : f[i] = f[k] => i = k
    BY <1>1 DEF Once
  <2>3. \A j \in JobsIn(s) : \E i \in 1..Len(s) : f[i] = j
    BY <1>2
  <2> QED
    BY <2>1, <2>2, <2>3 DEF Bijection, Injection, Surjection, IsInjective
<1>4. ExistsBijection(1..Len(s), JobsIn(s))
  BY <1>3 DEF ExistsBijection
<1>5. IsFiniteSet(1..Len(s)) /\ Cardinality(1..Len(s)) = Len(s)
  <2>1. 1 \in Int /\ Len(s) \in Int /\ (1 > Len(s) => Len(s) = 0)
    BY <1>1
  <2>2. Cardinality(1..Len(s)) = IF 1 > Len(s) THEN 0 ELSE Len(s) - 1 + 1
    BY <2>1, FS_Interval
  <2> QED
    BY <1>1, <2>1, <2>2, FS_Interval, SMTT(40)
<1> QED
  BY <1>1, <1>2, <1>4, <1>5, FS_Bijection

----------------------------------------------------------------------------
(* The workers.                                                            *)

\* Who holds a job after a worker has gone to another place.
LEMMA WhoHolds ==
  ASSUME TypeOK, NEW w \in Workers, NEW place, WorkerGoes(w, place)
  PROVE  /\ Held' = IF place \in {"check", "call", "running", "post"}
                    THEN Held \cup {w} ELSE Held \ {w}
         /\ Trying' = IF place \in {"check", "call", "running"}
                      THEN Trying \cup {w} ELSE Trying \ {w}
         /\ IsFiniteSet(Held) /\ Cardinality(Held) \in Nat
         /\ Trying \subseteq Held
<1>1. Held \subseteq Workers /\ Trying \subseteq Held
  BY DEF Held, Trying, HeldBy
<1>2. IsFiniteSet(Held) /\ Cardinality(Held) \in Nat
  BY <1>1, ConstantFacts, FS_Subset, FS_CardinalityType
<1> QED
  BY <1>1, <1>2 DEF WorkerGoes, Held, Trying, HeldBy, TypeOK

\* A job goes from the queue to a worker.
LEMMA TakesJob ==
  ASSUME IInv, NEW w \in Workers, GetEntry(w), Head(work) # Sentinel
  PROVE  /\ Held' = Held \cup {w} /\ w \notin Held
         /\ Cardinality(Held') = Cardinality(Held) + 1
         /\ HeldJobs' = HeldJobs \cup {Head(work)}
         /\ TriedJobs' = TriedJobs \cup {Head(work)}
         /\ \A v \in Held : v # w /\ wjob'[v] = wjob[v]
         /\ wjob'[w] = Head(work)
<1>1. WorkerGoes(w, "check") /\ wpc[w] = "get"
      /\ wjob' = [wjob EXCEPT ![w] = Head(work)]
  BY DEF GetEntry
<1>2. w \notin Held /\ w \notin Trying
  BY <1>1 DEF Held, Trying, HeldBy
<1>3. Held' = Held \cup {w} /\ Trying' = Trying \cup {w} /\ IsFiniteSet(Held)
      /\ Trying \subseteq Held /\ Held \subseteq Workers
  BY <1>1, WhoHolds DEF IInv, Held
<1>4. wjob'[w] = Head(work) /\ \A v \in Held : v # w /\ wjob'[v] = wjob[v]
  BY <1>1, <1>2, <1>3 DEF IInv, TypeOK
<1>5. HeldJobs' = {wjob'[v] : v \in Held'} /\ TriedJobs' = {wjob'[v] : v \in Trying'}
  BY DEF HeldJobs, TriedJobs
<1>6. HeldJobs' = HeldJobs \cup {Head(work)}
  BY <1>3, <1>4, <1>5 DEF HeldJobs
<1>7. TriedJobs' = TriedJobs \cup {Head(work)}
  BY <1>3, <1>4, <1>5 DEF TriedJobs
<1> QED
  BY <1>2, <1>3, <1>4, <1>6, <1>7, FS_AddElement

\* A job leaves its worker, dropped or posted.
LEMMA LetsGo ==
  ASSUME IInv, NEW w \in Held, NEW place \in {"exited", "again"},
         WorkerGoes(w, place), wjob' = wjob
  PROVE  /\ Held' = Held \ {w} /\ Cardinality(Held') = Cardinality(Held) - 1
         /\ HeldJobs' = HeldJobs \ {wjob[w]} /\ wjob[w] \in HeldJobs
         /\ TriedJobs' \subseteq TriedJobs
<1>1. w \in Workers /\ Held' = Held \ {w} /\ Trying' = Trying \ {w} /\ IsFiniteSet(Held)
  BY WhoHolds DEF IInv, Held
<1>2. HeldJobs' = {wjob[v] : v \in Held'} /\ TriedJobs' = {wjob[v] : v \in Trying'}
  BY DEF HeldJobs, TriedJobs
<1>3. HeldJobs' = HeldJobs \ {wjob[w]} /\ wjob[w] \in HeldJobs
  BY <1>1, <1>2 DEF IInv, Apart, HeldJobs
<1>4. TriedJobs' \subseteq TriedJobs
  BY <1>1, <1>2 DEF TriedJobs
<1> QED
  BY <1>1, <1>3, <1>4, FS_RemoveElement

\* A worker keeps its job.
LEMMA KeepsJob ==
  ASSUME IInv, NEW w \in Held, NEW place \in {"call", "running", "post"},
         WorkerGoes(w, place), wjob' = wjob,
         w \in Trying
  PROVE  /\ Held' = Held /\ HeldJobs' = HeldJobs
         /\ place = "post" => Trying' = Trying \ {w}
         /\ TriedJobs' \subseteq TriedJobs
         /\ place = "post" => TriedJobs' = TriedJobs \ {wjob[w]}
         /\ wjob[w] \in HeldJobs /\ wjob[w] \in TriedJobs
<1>1. w \in Workers /\ Trying \subseteq Held
      /\ Held' = Held \cup {w}
      /\ Trying' = IF place = "post" THEN Trying \ {w} ELSE Trying \cup {w}
  BY WhoHolds DEF IInv, Held
<1>2. HeldJobs' = {wjob[v] : v \in Held'} /\ TriedJobs' = {wjob[v] : v \in Trying'}
  BY DEF HeldJobs, TriedJobs
<1>3. Held' = Held /\ HeldJobs' = HeldJobs
  BY <1>1, <1>2 DEF HeldJobs
<1>4. \A v \in Trying : wjob[v] = wjob[w] => v = w
  BY <1>1 DEF IInv, Apart
<1>5. TriedJobs' \subseteq TriedJobs
      /\ (place = "post" => TriedJobs' = TriedJobs \ {wjob[w]})
  BY <1>1, <1>2, <1>4 DEF TriedJobs
<1> QED
  BY <1>1, <1>3, <1>5 DEF HeldJobs, TriedJobs

\* What a worker does keeps the invariant: it takes an entry of the queue, ...
LEMMA GetKeepsIInv ==
  ASSUME IInv, NEW w \in Workers, GetEntry(w)
  PROVE  IInv'
<1>1. /\ work' = Tail(work) /\ work # <<>> /\ wjob' = [wjob EXCEPT ![w] = Head(work)]
      /\ WorkerGoes(w, IF Head(work) = Sentinel THEN "exited" ELSE "check")
      /\ wpc[w] = "get"
      /\ UNCHANGED <<results, failed, stop, cpc, nextJob, outstanding, gathered, outcomes,
                     error, sentinels, delivered, verdict, interrupts>>
  BY DEF GetEntry, coordinator
<1>2. /\ work \in Seq(Jobs \cup {Sentinel}) /\ work' \in Seq(Jobs \cup {Sentinel})
      /\ Once(work') /\ Len(work') = Len(work) - 1 /\ Len(work) \in Nat
      /\ \A i \in 1..Len(work') : work'[i] = work[i + 1] /\ i + 1 \in 1..Len(work)
      /\ JobsIn(work') = JobsIn(work) \ {Head(work)} /\ Head(work) \in Jobs \cup {Sentinel}
      /\ Head(work) # Sentinel => Head(work) \in JobsIn(work)
      /\ Head(work) = work[1] /\ Len(work) > 0
  <2>1. work \in Seq(Jobs \cup {Sentinel}) /\ Once(work)
    BY DEF IInv, TypeOK, Apart
  <2> QED
    BY <1>1, <2>1, TailOfQueue
<1>3. (\A i \in 1..Len(work) : work[i] # Sentinel) => \A i \in 1..Len(work') : work'[i] # Sentinel
  BY <1>2
<1>4. (\A i \in 1..Len(work) : work[i] # Sentinel) => Head(work) # Sentinel
  BY <1>2
<1>5. SentinelsComeLast'
  <2>1. SentinelsComeLast /\ sentinels \in 0..Cardinality(Workers)
    BY DEF IInv, TypeOK
  <2>2. UNCHANGED <<verdict, stop, cpc, sentinels>>
    BY <1>1
  <2>3. Len(work') = Len(work) - 1 /\ Len(work) \in Nat /\ Cardinality(Workers) \in Nat
    BY <1>2, ConstantFacts
  <2> QED
    BY <2>1, <2>2, <2>3, <1>3 DEF SentinelsComeLast
<1>6. Sentinel \notin JobsIn(work)
  BY DEF JobsIn
<1>7. CASE Head(work) = Sentinel
  <2>1. w \notin Held /\ w \notin Trying
    BY <1>1 DEF Held, Trying, HeldBy
  <2>2. Held' = Held /\ Trying' = Trying /\ Cardinality(Held) \in Nat
    <3>1. WorkerGoes(w, "exited")
      BY <1>1, <1>7
    <3>2. TypeOK
      BY DEF IInv
    <3>3. Held' = Held \ {w} /\ Trying' = Trying \ {w} /\ Cardinality(Held) \in Nat
      BY <3>1, <3>2, WhoHolds
    <3> QED
      BY <2>1, <3>3
  <2>3. HeldJobs' = HeldJobs /\ TriedJobs' = TriedJobs
    BY <1>1, <2>1, <2>2 DEF HeldJobs, TriedJobs, Held, Trying, IInv, TypeOK
  <2>4. \A v \in Held : wjob'[v] = wjob[v]
    BY <1>1, <2>1 DEF Held, IInv, TypeOK
  <2>5. JobsIn(work') = JobsIn(work)
    BY <1>2, <1>6, <1>7
  <2>6. Counted'
    <3>1. Counted /\ PlacesAgree /\ SentinelsComeLast /\ gathered \in Nat /\ outstanding \in Nat
          /\ Len(results) \in Nat
      BY ConstantFacts DEF IInv, TypeOK
    <3>2. UNCHANGED <<cpc, error, stop, outstanding, gathered, results>>
      BY <1>1
    <3>3. InFlight' = InFlight - 1 /\ InFlight \in Nat
      <4>1. InFlight' = Len(work') + Cardinality(Held') + Len(results') + gathered'
        BY DEF InFlight
      <4>2. InFlight' = (Len(work) - 1) + Cardinality(Held) + Len(results) + gathered
        BY <1>2, <2>2, <3>2, <4>1
      <4>3. Len(work) \in Nat /\ Cardinality(Held) \in Nat /\ Len(results) \in Nat
            /\ gathered \in Nat
        BY <1>2, <2>2, <3>1
      <4> QED
        BY <4>2, <4>3, SMTT(40) DEF InFlight
    <3>4. cpc \in Rounds => stop
      BY <1>4, <1>7, <3>1 DEF SentinelsComeLast, PlacesAgree, Rounds
    <3> QED
      BY <3>1, <3>2, <3>3, <3>4 DEF Counted, Rounds
  <2> USE <1>1, <1>2, <1>7, <2>2, <2>3, <2>4, <2>5 DEF IInv, InFlight, Known
  <2>11. TypeOK'
    <3>1. wpc' \in [Workers -> {"get", "check", "call", "running", "post",
                               "again", "exited"}]
      BY DEF TypeOK, WorkerGoes
    <3> QED
      BY <3>1 DEF TypeOK
  <2>12. Apart'
    BY DEF Apart
  <2>13. OnlyTaken'
    BY DEF OnlyTaken, Known
  <2>14. NoneLost'
    BY DEF NoneLost, Known
  <2>15. Counted'
    BY <2>6
  <2>16. RoundIsFresh'
    BY DEF RoundIsFresh
  <2>17. FailuresShow'
    BY DEF FailuresShow
  <2>18. PlacesAgree'
    BY DEF PlacesAgree
  <2>19. SentinelsComeLast'
    BY <1>5
  <2>20. AllIsDone'
    BY DEF AllIsDone
  <2> QED
    BY <2>11, <2>12, <2>13, <2>14, <2>15, <2>16, <2>17, <2>18, <2>19, <2>20 DEF IInv
<1>8. CASE Head(work) # Sentinel
  <2>1. /\ Held' = Held \cup {w} /\ w \notin Held
        /\ Cardinality(Held') = Cardinality(Held) + 1
        /\ HeldJobs' = HeldJobs \cup {Head(work)}
        /\ TriedJobs' = TriedJobs \cup {Head(work)}
        /\ \A v \in Held : v # w /\ wjob'[v] = wjob[v]
        /\ wjob'[w] = Head(work)
    BY <1>8, TakesJob
  <2>2. Cardinality(Held) \in Nat
    BY <1>1, WhoHolds DEF IInv
  <2>3. \A v \in Held : wjob[v] \in HeldJobs
    BY DEF HeldJobs
  <2>4. Head(work) \notin HeldJobs
    BY <1>2, <1>8 DEF IInv, Apart
  <2> USE <1>1, <1>2, <1>8, <2>1, <2>2, <2>3, <2>4 DEF IInv, InFlight, Known
  <2>11. TypeOK'
    <3>1. wpc' \in [Workers -> {"get", "check", "call", "running", "post",
                               "again", "exited"}]
      BY DEF TypeOK, WorkerGoes
    <3> QED
      BY <3>1 DEF TypeOK
  <2>12. Apart'
    BY DEF Apart
  <2>13. OnlyTaken'
    BY DEF OnlyTaken, Known
  <2>14. NoneLost'
    BY DEF NoneLost, Known
  <2>15. Counted'
    BY DEF Counted
  <2>16. RoundIsFresh'
    BY DEF RoundIsFresh
  <2>17. FailuresShow'
    BY DEF FailuresShow
  <2>18. PlacesAgree'
    BY DEF PlacesAgree
  <2>19. SentinelsComeLast'
    BY <1>5
  <2>20. AllIsDone'
    BY DEF AllIsDone
  <2> QED
    BY <2>11, <2>12, <2>13, <2>14, <2>15, <2>16, <2>17, <2>18, <2>19, <2>20 DEF IInv
<1> QED
  BY <1>7, <1>8

\* ... looks at the stop event before it starts, ...
LEMMA CheckKeepsIInv ==
  ASSUME IInv, NEW w \in Workers, CheckStop(w)
  PROVE  IInv'
<1>1. /\ wpc[w] = "check" /\ wjob' = wjob
      /\ WorkerGoes(w, IF stop THEN "exited" ELSE "call")
      /\ UNCHANGED <<work, results, failed, stop, cpc, nextJob, outstanding, gathered, outcomes,
                     error, sentinels, delivered, verdict, interrupts>>
  BY DEF CheckStop, coordinator
<1>2. w \in Trying /\ w \in Held
  BY <1>1 DEF Trying, Held, HeldBy
<1>3. wjob[w] \in HeldJobs /\ wjob[w] \in TriedJobs /\ Trying \subseteq Held
      /\ \A v \in Held : wjob[v] \in HeldJobs
  BY <1>2 DEF HeldJobs, TriedJobs, Trying, Held, HeldBy
<1>4. Cardinality(Held) \in Nat /\ IsFiniteSet(Held) /\ Len(work) \in Nat /\ Len(results) \in Nat
      /\ gathered \in Nat /\ outstanding \in Nat
  <2>1. Held \subseteq Workers
    BY DEF Held
  <2> QED
    BY <2>1, ConstantFacts, FS_Subset, FS_CardinalityType DEF IInv, TypeOK
<1>5. CASE stop
  <2>1. /\ Held' = Held \ {w} /\ Cardinality(Held') = Cardinality(Held) - 1
        /\ HeldJobs' = HeldJobs \ {wjob[w]} /\ TriedJobs' \subseteq TriedJobs
    BY <1>1, <1>2, <1>5, LetsGo
  <2> USE <1>1, <1>2, <1>3, <1>4, <1>5, <2>1 DEF IInv, InFlight, Known
  <2>11. TypeOK'
    <3>1. wpc' \in [Workers -> {"get", "check", "call", "running", "post",
                               "again", "exited"}]
      BY DEF TypeOK, WorkerGoes
    <3> QED
      BY <3>1 DEF TypeOK
  <2>12. Apart'
    BY DEF Apart
  <2>13. OnlyTaken'
    BY DEF OnlyTaken, Known
  <2>14. NoneLost'
    BY DEF NoneLost, Known
  <2>15. Counted'
    BY SMTT(40) DEF Counted, Rounds
  <2>16. RoundIsFresh'
    BY DEF RoundIsFresh
  <2>17. FailuresShow'
    BY DEF FailuresShow
  <2>18. PlacesAgree'
    BY DEF PlacesAgree
  <2>19. SentinelsComeLast'
    BY DEF SentinelsComeLast
  <2>20. AllIsDone'
    BY DEF AllIsDone
  <2> QED
    BY <2>11, <2>12, <2>13, <2>14, <2>15, <2>16, <2>17, <2>18, <2>19, <2>20 DEF IInv
<1>6. CASE ~stop
  <2>1. Held' = Held /\ HeldJobs' = HeldJobs /\ TriedJobs' \subseteq TriedJobs
    BY <1>1, <1>2, <1>6, KeepsJob
  <2> USE <1>1, <1>2, <1>3, <1>4, <1>6, <2>1 DEF IInv, InFlight, Known
  <2>11. TypeOK'
    <3>1. wpc' \in [Workers -> {"get", "check", "call", "running", "post",
                               "again", "exited"}]
      BY DEF TypeOK, WorkerGoes
    <3> QED
      BY <3>1 DEF TypeOK
  <2>12. Apart'
    BY DEF Apart
  <2>13. OnlyTaken'
    BY DEF OnlyTaken, Known
  <2>14. NoneLost'
    BY DEF NoneLost, Known
  <2>15. Counted'
    BY DEF Counted, Rounds
  <2>16. RoundIsFresh'
    BY DEF RoundIsFresh
  <2>17. FailuresShow'
    BY DEF FailuresShow
  <2>18. PlacesAgree'
    BY DEF PlacesAgree
  <2>19. SentinelsComeLast'
    BY DEF SentinelsComeLast
  <2>20. AllIsDone'
    BY DEF AllIsDone
  <2> QED
    BY <2>11, <2>12, <2>13, <2>14, <2>15, <2>16, <2>17, <2>18, <2>19, <2>20 DEF IInv
<1> QED
  BY <1>5, <1>6

\* ... starts its job, ...
LEMMA CallKeepsIInv ==
  ASSUME IInv, NEW w \in Workers, CallWorker(w)
  PROVE  IInv'
<1>1. /\ wpc[w] \in {"call", "running"} /\ wjob' = wjob /\ WorkerGoes(w, "running")
      /\ UNCHANGED <<work, results, failed, stop, cpc, nextJob, outstanding, gathered, outcomes,
                     error, sentinels, delivered, verdict, interrupts>>
  BY DEF CallWorker, coordinator
<1>2. w \in Trying /\ w \in Held
  BY <1>1 DEF Trying, Held, HeldBy
<1>3. wjob[w] \in HeldJobs /\ wjob[w] \in TriedJobs /\ Trying \subseteq Held
      /\ \A v \in Held : wjob[v] \in HeldJobs
  BY <1>2 DEF HeldJobs, TriedJobs, Trying, Held, HeldBy
<1>4. Cardinality(Held) \in Nat /\ IsFiniteSet(Held) /\ Len(work) \in Nat /\ Len(results) \in Nat
      /\ gathered \in Nat /\ outstanding \in Nat
  <2>1. Held \subseteq Workers
    BY DEF Held
  <2> QED
    BY <2>1, ConstantFacts, FS_Subset, FS_CardinalityType DEF IInv, TypeOK
<1>5. Held' = Held /\ HeldJobs' = HeldJobs /\ TriedJobs' \subseteq TriedJobs
  BY <1>1, <1>2, KeepsJob
<1> USE <1>1, <1>2, <1>3, <1>4, <1>5 DEF IInv, InFlight, Known
<1>11. TypeOK'
  <2>1. wpc' \in [Workers -> {"get", "check", "call", "running", "post",
                             "again", "exited"}]
    BY DEF TypeOK, WorkerGoes
  <2> QED
    BY <2>1 DEF TypeOK
<1>12. Apart'
  BY DEF Apart
<1>13. OnlyTaken'
  BY DEF OnlyTaken, Known
<1>14. NoneLost'
  BY DEF NoneLost, Known
<1>15. Counted'
  BY DEF Counted, Rounds
<1>16. RoundIsFresh'
  BY DEF RoundIsFresh
<1>17. FailuresShow'
  BY DEF FailuresShow
<1>18. PlacesAgree'
  BY DEF PlacesAgree
<1>19. SentinelsComeLast'
  BY DEF SentinelsComeLast
<1>20. AllIsDone'
  BY DEF AllIsDone
<1> QED
  BY <1>11, <1>12, <1>13, <1>14, <1>15, <1>16, <1>17, <1>18, <1>19, <1>20 DEF IInv

\* ... comes back from it, ...
LEMMA ReturnKeepsIInv ==
  ASSUME IInv, NEW w \in Workers, WorkerReturns(w)
  PROVE  IInv'
<1>1. /\ wpc[w] \in {"call", "running"} /\ wjob' = wjob /\ WorkerGoes(w, "post")
      /\ UNCHANGED <<work, results, failed, stop, cpc, nextJob, outstanding, gathered, outcomes,
                     error, sentinels, delivered, verdict, interrupts>>
  BY DEF WorkerReturns, coordinator
<1>2. w \in Trying /\ w \in Held
  BY <1>1 DEF Trying, Held, HeldBy
<1>3. wjob[w] \in HeldJobs /\ wjob[w] \in TriedJobs /\ Trying \subseteq Held
      /\ \A v \in Held : wjob[v] \in HeldJobs
  BY <1>2 DEF HeldJobs, TriedJobs, Trying, Held, HeldBy
<1>4. Cardinality(Held) \in Nat /\ IsFiniteSet(Held) /\ Len(work) \in Nat /\ Len(results) \in Nat
      /\ gathered \in Nat /\ outstanding \in Nat
  <2>1. Held \subseteq Workers
    BY DEF Held
  <2> QED
    BY <2>1, ConstantFacts, FS_Subset, FS_CardinalityType DEF IInv, TypeOK
<1>5. Held' = Held /\ HeldJobs' = HeldJobs /\ TriedJobs' \subseteq TriedJobs
  BY <1>1, <1>2, KeepsJob
<1> USE <1>1, <1>2, <1>3, <1>4, <1>5 DEF IInv, InFlight, Known
<1>11. TypeOK'
  <2>1. wpc' \in [Workers -> {"get", "check", "call", "running", "post",
                             "again", "exited"}]
    BY DEF TypeOK, WorkerGoes
  <2> QED
    BY <2>1 DEF TypeOK
<1>12. Apart'
  BY DEF Apart
<1>13. OnlyTaken'
  BY DEF OnlyTaken, Known
<1>14. NoneLost'
  BY DEF NoneLost, Known
<1>15. Counted'
  BY DEF Counted, Rounds
<1>16. RoundIsFresh'
  BY DEF RoundIsFresh
<1>17. FailuresShow'
  BY DEF FailuresShow
<1>18. PlacesAgree'
  BY DEF PlacesAgree
<1>19. SentinelsComeLast'
  BY DEF SentinelsComeLast
<1>20. AllIsDone'
  BY DEF AllIsDone
<1> QED
  BY <1>11, <1>12, <1>13, <1>14, <1>15, <1>16, <1>17, <1>18, <1>19, <1>20 DEF IInv

\* ... or raises and stops the window, ...
LEMMA RaiseKeepsIInv ==
  ASSUME IInv, NEW w \in Workers, WorkerRaises(w)
  PROVE  IInv'
<1>1. /\ wpc[w] = "running" /\ wjob' = wjob /\ WorkerGoes(w, "post")
      /\ failed' = failed \cup {wjob[w]} /\ stop'
      /\ UNCHANGED <<work, results, cpc, nextJob, outstanding, gathered, outcomes, error,
                     sentinels, delivered, verdict, interrupts>>
  BY DEF WorkerRaises, coordinator
<1>2. w \in Trying /\ w \in Held
  BY <1>1 DEF Trying, Held, HeldBy
<1>3. wjob[w] \in HeldJobs /\ wjob[w] \in TriedJobs /\ Trying \subseteq Held
      /\ \A v \in Held : wjob[v] \in HeldJobs
  BY <1>2 DEF HeldJobs, TriedJobs, Trying, Held, HeldBy
<1>4. Cardinality(Held) \in Nat /\ IsFiniteSet(Held) /\ Len(work) \in Nat /\ Len(results) \in Nat
      /\ gathered \in Nat /\ outstanding \in Nat
  <2>1. Held \subseteq Workers
    BY DEF Held
  <2> QED
    BY <2>1, ConstantFacts, FS_Subset, FS_CardinalityType DEF IInv, TypeOK
<1>5. Held' = Held /\ HeldJobs' = HeldJobs /\ TriedJobs' = TriedJobs \ {wjob[w]}
  BY <1>1, <1>2, KeepsJob
<1>6. wjob[w] \in Jobs /\ stop' \in BOOLEAN
  <2>1. wjob[w] \in 1..(nextJob - 1) /\ nextJob \in 1..(NumJobs + 1) /\ NumJobs \in Nat
    BY <1>3, ConstantFacts DEF IInv, OnlyTaken, Known, TypeOK
  <2>2. stop' = TRUE
    BY DEF WorkerRaises
  <2> QED
    BY <2>1, <2>2 DEF Jobs
<1>7. FailuresShow'
  <2>1. FailuresShow /\ Apart
    BY DEF IInv
  <2>2. wjob[w] \in failed' /\ (~error => failed' \subseteq HeldJobs' \cup JobsIn(results'))
    BY <1>1, <1>3, <1>5, <2>1 DEF FailuresShow
  <2>3. wjob[w] \notin JobsIn(work) \cup JobsIn(outcomes) \cup delivered \cup TriedJobs'
    BY <1>3, <1>5, <2>1 DEF Apart
  <2>4. failed' \cap (JobsIn(work) \cup JobsIn(outcomes) \cup delivered \cup TriedJobs') = {}
    BY <1>1, <1>5, <2>1, <2>3 DEF FailuresShow
  <2>5. JobsIn(work') = JobsIn(work) /\ JobsIn(outcomes') = JobsIn(outcomes)
        /\ delivered' = delivered /\ error' = error
    BY <1>1
  <2> QED
    BY <1>1, <2>2, <2>4, <2>5 DEF FailuresShow
<1> USE <1>1, <1>2, <1>3, <1>4, <1>5, <1>6 DEF IInv, InFlight, Known
<1>11. TypeOK'
  <2>1. wpc' \in [Workers -> {"get", "check", "call", "running", "post",
                             "again", "exited"}]
    BY DEF TypeOK, WorkerGoes
  <2> QED
    BY <2>1 DEF TypeOK
<1>12. Apart'
  BY DEF Apart
<1>13. OnlyTaken'
  BY DEF OnlyTaken, Known
<1>14. NoneLost'
  BY DEF NoneLost, Known
<1>15. Counted'
  BY DEF Counted, Rounds
<1>16. RoundIsFresh'
  BY DEF RoundIsFresh
<1>17. FailuresShow'
  BY <1>7
<1>18. PlacesAgree'
  BY DEF PlacesAgree
<1>19. SentinelsComeLast'
  BY DEF SentinelsComeLast
<1>20. AllIsDone'
  BY DEF AllIsDone
<1> QED
  BY <1>11, <1>12, <1>13, <1>14, <1>15, <1>16, <1>17, <1>18, <1>19, <1>20 DEF IInv

\* ... posts the outcome, ...
LEMMA PostKeepsIInv ==
  ASSUME IInv, NEW w \in Workers, PostOutcome(w)
  PROVE  IInv'
<1>1. /\ wpc[w] = "post" /\ wjob' = wjob /\ WorkerGoes(w, "again")
      /\ results' = Append(results, wjob[w])
      /\ UNCHANGED <<work, failed, stop, cpc, nextJob, outstanding, gathered, outcomes, error,
                     sentinels, delivered, verdict, interrupts>>
  BY DEF PostOutcome, coordinator
<1>2. w \in Held
  BY <1>1 DEF Trying, Held, HeldBy
<1>3. wjob[w] \in HeldJobs /\ Trying \subseteq Held
      /\ \A v \in Held : wjob[v] \in HeldJobs
  BY <1>2 DEF HeldJobs, TriedJobs, Trying, Held, HeldBy
<1>4. Cardinality(Held) \in Nat /\ IsFiniteSet(Held) /\ Len(work) \in Nat /\ Len(results) \in Nat
      /\ gathered \in Nat /\ outstanding \in Nat
  <2>1. Held \subseteq Workers
    BY DEF Held
  <2> QED
    BY <2>1, ConstantFacts, FS_Subset, FS_CardinalityType DEF IInv, TypeOK
<1>5. /\ Held' = Held \ {w} /\ Cardinality(Held') = Cardinality(Held) - 1
      /\ HeldJobs' = HeldJobs \ {wjob[w]} /\ TriedJobs' \subseteq TriedJobs
  BY <1>1, <1>2, LetsGo
<1>6. wjob[w] \in Jobs /\ wjob[w] # Sentinel
  <2>1. wjob[w] \in 1..(nextJob - 1) /\ nextJob \in 1..(NumJobs + 1) /\ NumJobs \in Nat
    BY <1>3, ConstantFacts DEF IInv, OnlyTaken, Known, TypeOK
  <2> QED
    BY <2>1 DEF Jobs, Sentinel
<1>7. /\ results' \in Seq(Jobs) /\ Once(results') /\ Len(results') = Len(results) + 1
      /\ JobsIn(results') = JobsIn(results) \cup {wjob[w]}
  <2>1. results \in Seq(Jobs) /\ Once(results) /\ wjob[w] \notin JobsIn(results)
    BY <1>3 DEF IInv, TypeOK, Apart
  <2>2. results \in Seq(Jobs \cup {Sentinel})
    BY <2>1
  <2> QED
    BY <1>1, <1>6, <2>1, <2>2, AppendToQueue
<1> USE <1>1, <1>2, <1>3, <1>4, <1>5, <1>6, <1>7 DEF IInv, InFlight, Known
<1>11. TypeOK'
  <2>1. wpc' \in [Workers -> {"get", "check", "call", "running", "post",
                             "again", "exited"}]
    BY DEF TypeOK, WorkerGoes
  <2> QED
    BY <2>1 DEF TypeOK
<1>12. Apart'
  BY DEF Apart
<1>13. OnlyTaken'
  BY DEF OnlyTaken, Known
<1>14. NoneLost'
  BY DEF NoneLost, Known
<1>15. Counted'
  BY SMTT(40) DEF Counted, Rounds
<1>16. RoundIsFresh'
  BY DEF RoundIsFresh
<1>17. FailuresShow'
  BY DEF FailuresShow
<1>18. PlacesAgree'
  BY DEF PlacesAgree
<1>19. SentinelsComeLast'
  BY DEF SentinelsComeLast
<1>20. AllIsDone'
  BY DEF AllIsDone
<1> QED
  BY <1>11, <1>12, <1>13, <1>14, <1>15, <1>16, <1>17, <1>18, <1>19, <1>20 DEF IInv

\* ... and looks at the stop event again.
LEMMA LoopKeepsIInv ==
  ASSUME IInv, NEW w \in Workers, LoopAgain(w)
  PROVE  IInv'
<1>1. /\ wpc[w] = "again" /\ wjob' = wjob
      /\ WorkerGoes(w, IF stop THEN "exited" ELSE "get")
      /\ UNCHANGED <<work, results, failed, stop, cpc, nextJob, outstanding, gathered, outcomes,
                     error, sentinels, delivered, verdict, interrupts>>
  BY DEF LoopAgain, coordinator
<1>2. w \notin Held /\ w \notin Trying
  BY <1>1 DEF Held, Trying, HeldBy
<1>3. Held' = Held /\ Trying' = Trying
  <2>1. TypeOK /\ \E place \in {"exited", "get"} : WorkerGoes(w, place)
    BY <1>1 DEF IInv
  <2>2. PICK place \in {"exited", "get"} : WorkerGoes(w, place)
    BY <2>1
  <2>3. Held' = Held \ {w} /\ Trying' = Trying \ {w}
    BY <2>1, <2>2, WhoHolds
  <2> QED
    BY <1>2, <2>3
<1>4. HeldJobs' = HeldJobs /\ TriedJobs' = TriedJobs
  BY <1>1, <1>3 DEF HeldJobs, TriedJobs
<1> USE <1>1, <1>3, <1>4 DEF IInv, InFlight, Known
<1>11. TypeOK'
  <2>1. wpc' \in [Workers -> {"get", "check", "call", "running", "post",
                             "again", "exited"}]
    BY DEF TypeOK, WorkerGoes
  <2> QED
    BY <2>1 DEF TypeOK
<1>12. Apart'
  BY DEF Apart
<1>13. OnlyTaken'
  BY DEF OnlyTaken, Known
<1>14. NoneLost'
  BY DEF NoneLost, Known
<1>15. Counted'
  BY DEF Counted, Rounds
<1>16. RoundIsFresh'
  BY DEF RoundIsFresh
<1>17. FailuresShow'
  BY DEF FailuresShow
<1>18. PlacesAgree'
  BY DEF PlacesAgree
<1>19. SentinelsComeLast'
  BY DEF SentinelsComeLast
<1>20. AllIsDone'
  BY DEF AllIsDone
<1> QED
  BY <1>11, <1>12, <1>13, <1>14, <1>15, <1>16, <1>17, <1>18, <1>19, <1>20 DEF IInv

----------------------------------------------------------------------------
(* The coordinator.                                                        *)

\* The coordinator leaves the workers alone, and what it counts are numbers.
LEMMA WorkersStay ==
  ASSUME IInv, wpc' = wpc, wjob' = wjob
  PROVE  /\ Held' = Held /\ HeldJobs' = HeldJobs /\ TriedJobs' = TriedJobs
         /\ Len(work) \in Nat /\ Len(results) \in Nat /\ Len(outcomes) \in Nat
         /\ Cardinality(Held) \in Nat /\ (Cardinality(Held) = 0 => Held = {})
         /\ gathered \in Nat /\ outstanding \in Nat /\ sentinels \in Nat
         /\ NumJobs \in Nat /\ Capacity \in Nat /\ Capacity > 0 /\ nextJob \in Nat
         /\ Cardinality(Workers) \in Nat
<1>1. Held \subseteq Workers /\ Held' = Held /\ Trying' = Trying
  BY DEF Held, Trying, HeldBy
<1>2. IsFiniteSet(Held) /\ Cardinality(Held) \in Nat /\ (Cardinality(Held) = 0 => Held = {})
  BY <1>1, ConstantFacts, FS_Subset, FS_CardinalityType, FS_EmptySet
<1>3. HeldJobs' = HeldJobs /\ TriedJobs' = TriedJobs
  BY <1>1 DEF HeldJobs, TriedJobs
<1> QED
  BY <1>1, <1>2, <1>3, ConstantFacts DEF IInv, TypeOK

\* The coordinator stops the window, ...
LEMMA StopKeepsIInv ==
  ASSUME IInv, RequestStop
  PROVE  IInv'
<1>1. /\ cpc = "stop" /\ cpc' = "drain" /\ stop' = TRUE
      /\ UNCHANGED <<work, results, failed, wpc, wjob, nextJob, outstanding, gathered,
                     outcomes, error, sentinels, delivered, verdict, interrupts>>
  BY DEF RequestStop, CoordinatorKeeps, workers
<1>2. /\ Held' = Held /\ HeldJobs' = HeldJobs /\ TriedJobs' = TriedJobs
      /\ Len(work) \in Nat /\ Len(results) \in Nat /\ Len(outcomes) \in Nat
      /\ Cardinality(Held) \in Nat /\ (Cardinality(Held) = 0 => Held = {})
      /\ gathered \in Nat /\ outstanding \in Nat /\ sentinels \in Nat
      /\ NumJobs \in Nat /\ Capacity \in Nat /\ Capacity > 0 /\ nextJob \in Nat
      /\ Cardinality(Workers) \in Nat
  BY <1>1, WorkersStay
<1> USE <1>1, <1>2 DEF IInv, InFlight, Known
<1>11. TypeOK'
  BY DEF TypeOK
<1>12. Apart'
  BY DEF Apart
<1>13. OnlyTaken'
  BY DEF OnlyTaken, Known
<1>14. NoneLost'
  BY DEF NoneLost, Known
<1>15. Counted'
  BY DEF Counted, Rounds
<1>16. RoundIsFresh'
  BY DEF RoundIsFresh
<1>17. FailuresShow'
  BY DEF FailuresShow, PlacesAgree
<1>18. PlacesAgree'
  BY DEF PlacesAgree
<1>19. SentinelsComeLast'
  BY DEF SentinelsComeLast
<1>20. AllIsDone'
  BY DEF AllIsDone
<1> QED
  BY <1>11, <1>12, <1>13, <1>14, <1>15, <1>16, <1>17, <1>18, <1>19, <1>20 DEF IInv

\* ... ends the grace time, ...
LEMMA GraceEndsKeepsIInv ==
  ASSUME IInv, GraceEnds
  PROVE  IInv'
<1>1. /\ cpc = "grace" /\ cpc' = "yield"
      /\ UNCHANGED <<work, results, failed, stop, wpc, wjob, nextJob, outstanding,
                     gathered, outcomes, error, sentinels, delivered, verdict, interrupts>>
  BY DEF GraceEnds, CoordinatorKeeps, workers
<1>2. /\ Held' = Held /\ HeldJobs' = HeldJobs /\ TriedJobs' = TriedJobs
      /\ Len(work) \in Nat /\ Len(results) \in Nat /\ Len(outcomes) \in Nat
      /\ Cardinality(Held) \in Nat /\ (Cardinality(Held) = 0 => Held = {})
      /\ gathered \in Nat /\ outstanding \in Nat /\ sentinels \in Nat
      /\ NumJobs \in Nat /\ Capacity \in Nat /\ Capacity > 0 /\ nextJob \in Nat
      /\ Cardinality(Workers) \in Nat
  BY <1>1, WorkersStay
<1> USE <1>1, <1>2 DEF IInv, InFlight, Known
<1>11. TypeOK'
  BY DEF TypeOK
<1>12. Apart'
  BY DEF Apart
<1>13. OnlyTaken'
  BY DEF OnlyTaken, Known
<1>14. NoneLost'
  BY DEF NoneLost, Known
<1>15. Counted'
  BY DEF Counted, PlacesAgree
<1>16. RoundIsFresh'
  BY DEF RoundIsFresh, PlacesAgree
<1>17. FailuresShow'
  BY DEF FailuresShow
<1>18. PlacesAgree'
  BY DEF PlacesAgree
<1>19. SentinelsComeLast'
  BY DEF SentinelsComeLast, PlacesAgree
<1>20. AllIsDone'
  BY DEF AllIsDone
<1> QED
  BY <1>11, <1>12, <1>13, <1>14, <1>15, <1>16, <1>17, <1>18, <1>19, <1>20 DEF IInv

\* ... ends a round of gathering, ...
LEMMA RoundKeepsIInv ==
  ASSUME IInv, GatherDone
  PROVE  IInv'
<1>1. /\ cpc = "gather" /\ results = <<>>
      /\ outstanding' = outstanding - gathered /\ gathered' = 0
      /\ cpc' = IF error THEN "stop" ELSE "yield"
      /\ UNCHANGED <<work, results, failed, stop, wpc, wjob, nextJob, outcomes, error,
                     sentinels, delivered, verdict, interrupts>>
  BY DEF GatherDone, CoordinatorKeeps, workers
<1>2. /\ Held' = Held /\ HeldJobs' = HeldJobs /\ TriedJobs' = TriedJobs
      /\ Len(work) \in Nat /\ Len(results) \in Nat /\ Len(outcomes) \in Nat
      /\ Cardinality(Held) \in Nat /\ (Cardinality(Held) = 0 => Held = {})
      /\ gathered \in Nat /\ outstanding \in Nat /\ sentinels \in Nat
      /\ NumJobs \in Nat /\ Capacity \in Nat /\ Capacity > 0 /\ nextJob \in Nat
      /\ Cardinality(Workers) \in Nat
  BY <1>1, WorkersStay
<1>3. InFlight <= outstanding /\ outstanding <= Capacity
  BY <1>1 DEF IInv, TypeOK, Counted, Rounds
<1> USE <1>1, <1>2, <1>3 DEF IInv, InFlight, Known
<1>11. TypeOK'
  BY DEF TypeOK
<1>12. Apart'
  BY DEF Apart
<1>13. OnlyTaken'
  BY DEF OnlyTaken, Known
<1>14. NoneLost'
  BY DEF NoneLost, Known
<1>15. Counted'
  BY DEF Counted, Rounds
<1>16. RoundIsFresh'
  BY DEF RoundIsFresh
<1>17. FailuresShow'
  BY DEF FailuresShow
<1>18. PlacesAgree'
  BY DEF PlacesAgree
<1>19. SentinelsComeLast'
  BY DEF SentinelsComeLast
<1>20. AllIsDone'
  BY DEF AllIsDone
<1> QED
  BY <1>11, <1>12, <1>13, <1>14, <1>15, <1>16, <1>17, <1>18, <1>19, <1>20 DEF IInv

\* ... goes on to the next round, or raises, ...
LEMMA YieldDoneKeepsIInv ==
  ASSUME IInv, YieldDone
  PROVE  IInv'
<1>1. /\ cpc = "yield" /\ outcomes = <<>>
      /\ \/ error /\ cpc' = "stop" /\ verdict' = "raised"
         \/ ~error /\ cpc' = "fill" /\ verdict' = verdict
      /\ UNCHANGED <<work, results, failed, stop, wpc, wjob, nextJob, outstanding,
                     gathered, outcomes, error, sentinels, delivered, interrupts>>
  BY DEF YieldDone, CoordinatorKeeps, workers
<1>2. /\ Held' = Held /\ HeldJobs' = HeldJobs /\ TriedJobs' = TriedJobs
      /\ Len(work) \in Nat /\ Len(results) \in Nat /\ Len(outcomes) \in Nat
      /\ Cardinality(Held) \in Nat /\ (Cardinality(Held) = 0 => Held = {})
      /\ gathered \in Nat /\ outstanding \in Nat /\ sentinels \in Nat
      /\ NumJobs \in Nat /\ Capacity \in Nat /\ Capacity > 0 /\ nextJob \in Nat
      /\ Cardinality(Workers) \in Nat
  BY <1>1, WorkersStay
<1> USE <1>1, <1>2 DEF IInv, InFlight, Known
<1>11. TypeOK'
  BY DEF TypeOK
<1>12. Apart'
  BY DEF Apart
<1>13. OnlyTaken'
  BY DEF OnlyTaken, Known
<1>14. NoneLost'
  BY DEF NoneLost, Known
<1>15. Counted'
  BY DEF Counted, Rounds
<1>16. RoundIsFresh'
  BY DEF RoundIsFresh
<1>17. FailuresShow'
  BY DEF FailuresShow
<1>18. PlacesAgree'
  BY DEF PlacesAgree
<1>19. SentinelsComeLast'
  BY DEF SentinelsComeLast, PlacesAgree
<1>20. AllIsDone'
  BY DEF AllIsDone
<1> QED
  BY <1>11, <1>12, <1>13, <1>14, <1>15, <1>16, <1>17, <1>18, <1>19, <1>20 DEF IInv

\* ... joins the workers, ...
LEMMA JoinKeepsIInv ==
  ASSUME IInv, Join
  PROVE  IInv'
<1>1. /\ cpc = "join" /\ cpc' = "closed" /\ verdict' = "returned"
      /\ UNCHANGED <<work, results, failed, stop, wpc, wjob, nextJob, outstanding,
                     gathered, outcomes, error, sentinels, delivered, interrupts>>
  BY DEF Join, CoordinatorKeeps, workers
<1>2. /\ Held' = Held /\ HeldJobs' = HeldJobs /\ TriedJobs' = TriedJobs
      /\ Len(work) \in Nat /\ Len(results) \in Nat /\ Len(outcomes) \in Nat
      /\ Cardinality(Held) \in Nat /\ (Cardinality(Held) = 0 => Held = {})
      /\ gathered \in Nat /\ outstanding \in Nat /\ sentinels \in Nat
      /\ NumJobs \in Nat /\ Capacity \in Nat /\ Capacity > 0 /\ nextJob \in Nat
      /\ Cardinality(Workers) \in Nat
  BY <1>1, WorkersStay
<1> USE <1>1, <1>2 DEF IInv, InFlight, Known
<1>11. TypeOK'
  BY DEF TypeOK
<1>12. Apart'
  BY DEF Apart
<1>13. OnlyTaken'
  BY DEF OnlyTaken, Known
<1>14. NoneLost'
  BY DEF NoneLost, Known
<1>15. Counted'
  BY DEF Counted, Rounds
<1>16. RoundIsFresh'
  BY DEF RoundIsFresh
<1>17. FailuresShow'
  BY DEF FailuresShow
<1>18. PlacesAgree'
  BY DEF PlacesAgree
<1>19. SentinelsComeLast'
  BY DEF SentinelsComeLast
<1>20. AllIsDone'
  BY DEF AllIsDone
<1> QED
  BY <1>11, <1>12, <1>13, <1>14, <1>15, <1>16, <1>17, <1>18, <1>19, <1>20 DEF IInv

\* ... is interrupted, ...
LEMMA InterruptKeepsIInv ==
  ASSUME IInv, Interrupted
  PROVE  IInv'
<1>1. /\ cpc # "closed" /\ verdict = "open" /\ cpc' = "stop" /\ verdict' = "aborted"
      /\ interrupts < MaxInterrupts /\ interrupts' = interrupts + 1
      /\ UNCHANGED <<work, results, failed, stop, wpc, wjob, nextJob, outstanding,
                     gathered, outcomes, error, sentinels, delivered>>
  BY DEF Interrupted, workers
<1>2. /\ Held' = Held /\ HeldJobs' = HeldJobs /\ TriedJobs' = TriedJobs
      /\ Len(work) \in Nat /\ Len(results) \in Nat /\ Len(outcomes) \in Nat
      /\ Cardinality(Held) \in Nat /\ (Cardinality(Held) = 0 => Held = {})
      /\ gathered \in Nat /\ outstanding \in Nat /\ sentinels \in Nat
      /\ NumJobs \in Nat /\ Capacity \in Nat /\ Capacity > 0 /\ nextJob \in Nat
      /\ Cardinality(Workers) \in Nat
  BY <1>1, WorkersStay
<1>3. interrupts' \in 0..MaxInterrupts
  BY <1>1, WindowAssumption DEF IInv, TypeOK
<1> USE <1>1, <1>2, <1>3 DEF IInv, InFlight, Known
<1>11. TypeOK'
  BY DEF TypeOK
<1>12. Apart'
  BY DEF Apart
<1>13. OnlyTaken'
  BY DEF OnlyTaken, Known
<1>14. NoneLost'
  BY DEF NoneLost, Known
<1>15. Counted'
  BY DEF Counted, Rounds
<1>16. RoundIsFresh'
  BY DEF RoundIsFresh
<1>17. FailuresShow'
  BY DEF FailuresShow
<1>18. PlacesAgree'
  BY DEF PlacesAgree
<1>19. SentinelsComeLast'
  BY DEF SentinelsComeLast
<1>20. AllIsDone'
  BY DEF AllIsDone
<1> QED
  BY <1>11, <1>12, <1>13, <1>14, <1>15, <1>16, <1>17, <1>18, <1>19, <1>20 DEF IInv

\* ... has filled the window, ...
LEMMA FillDoneKeepsIInv ==
  ASSUME IInv, FillDone
  PROVE  IInv'
<1>1. /\ cpc = "fill" /\ (stop \/ outstanding = Capacity \/ nextJob > NumJobs)
      /\ \/ outstanding > 0 /\ cpc' = "wait" /\ sentinels' = sentinels
         \/ outstanding = 0 /\ cpc' = "finish" /\ sentinels' = Cardinality(Workers)
      /\ UNCHANGED <<work, results, failed, stop, wpc, wjob, nextJob, outstanding,
                     gathered, outcomes, error, delivered, verdict, interrupts>>
  BY ConstantFacts DEF FillDone, CoordinatorKeeps, workers, IInv, TypeOK
<1>2. /\ Held' = Held /\ HeldJobs' = HeldJobs /\ TriedJobs' = TriedJobs
      /\ Len(work) \in Nat /\ Len(results) \in Nat /\ Len(outcomes) \in Nat
      /\ Cardinality(Held) \in Nat /\ (Cardinality(Held) = 0 => Held = {})
      /\ gathered \in Nat /\ outstanding \in Nat /\ sentinels \in Nat
      /\ NumJobs \in Nat /\ Capacity \in Nat /\ Capacity > 0 /\ nextJob \in Nat
      /\ Cardinality(Workers) \in Nat
  BY <1>1, WorkersStay
<1>3. ASSUME outstanding = 0
      PROVE  /\ failed = {} /\ ~stop /\ delivered = Jobs /\ nextJob = NumJobs + 1
             /\ JobsIn(work) = {} /\ Held = {} /\ results = <<>> /\ outcomes = <<>> /\ ~error
  <2>1. InFlight <= 0 /\ outcomes = <<>> /\ ~error /\ verdict = "open"
    BY <1>1, <1>3 DEF IInv, Counted, RoundIsFresh, PlacesAgree, Rounds
  <2>2. Len(work) = 0 /\ Cardinality(Held) = 0 /\ Len(results) = 0
    BY <1>2, <2>1 DEF InFlight
  <2>3. work = <<>> /\ Held = {} /\ results = <<>>
    BY <1>2, <2>2 DEF IInv, TypeOK
  <2>4. JobsIn(work) = {} /\ HeldJobs = {} /\ JobsIn(results) = {} /\ JobsIn(outcomes) = {}
    BY <2>1, <2>3, EmptyQueue DEF HeldJobs
  <2>5. failed = {} /\ ~stop
    BY <2>1, <2>4 DEF IInv, FailuresShow
  <2>6. nextJob = NumJobs + 1
    BY <1>1, <1>2, <1>3, <2>5 DEF IInv, TypeOK
  <2>7. 1..(nextJob - 1) \subseteq delivered /\ delivered \subseteq Jobs
    BY <2>4, <2>5 DEF IInv, NoneLost, Known, TypeOK
  <2> QED
    <3>1. nextJob - 1 = NumJobs
      BY <1>2, <2>6
    <3>2. delivered = Jobs
      BY <2>7, <3>1 DEF Jobs
    <3> QED
      BY <2>1, <2>3, <2>4, <2>5, <2>6, <3>2
<1> USE <1>1, <1>2, <1>3 DEF IInv, InFlight, Known
<1>11. TypeOK'
  BY DEF TypeOK
<1>12. Apart'
  BY DEF Apart
<1>13. OnlyTaken'
  BY DEF OnlyTaken, Known
<1>14. NoneLost'
  BY DEF NoneLost, Known
<1>15. Counted'
  BY DEF Counted, Rounds
<1>16. RoundIsFresh'
  BY DEF RoundIsFresh
<1>17. FailuresShow'
  BY DEF FailuresShow
<1>18. PlacesAgree'
  BY DEF PlacesAgree
<1>19. SentinelsComeLast'
  BY DEF SentinelsComeLast
<1>20. AllIsDone'
  BY DEF AllIsDone
<1> QED
  BY <1>11, <1>12, <1>13, <1>14, <1>15, <1>16, <1>17, <1>18, <1>19, <1>20 DEF IInv

\* ... puts a job into the queue, ...
LEMMA FillKeepsIInv ==
  ASSUME IInv, FillOne
  PROVE  IInv'
<1>1. /\ cpc = "fill" /\ ~stop /\ outstanding < Capacity /\ nextJob <= NumJobs
      /\ work' = Append(work, nextJob) /\ nextJob' = nextJob + 1
      /\ outstanding' = outstanding + 1
      /\ UNCHANGED <<results, failed, stop, wpc, wjob, cpc, gathered, outcomes, error,
                     sentinels, delivered, verdict, interrupts>>
  BY DEF FillOne, CoordinatorKeeps, workers
<1>2. /\ Held' = Held /\ HeldJobs' = HeldJobs /\ TriedJobs' = TriedJobs
      /\ Len(work) \in Nat /\ Len(results) \in Nat /\ Len(outcomes) \in Nat
      /\ Cardinality(Held) \in Nat /\ (Cardinality(Held) = 0 => Held = {})
      /\ gathered \in Nat /\ outstanding \in Nat /\ sentinels \in Nat
      /\ NumJobs \in Nat /\ Capacity \in Nat /\ Capacity > 0 /\ nextJob \in Nat
      /\ Cardinality(Workers) \in Nat
  BY <1>1, WorkersStay
<1>3. /\ work \in Seq(Jobs \cup {Sentinel}) /\ Once(work) /\ OnlyTaken
      /\ nextJob \in 1..(NumJobs + 1)
  BY DEF IInv, TypeOK, Apart
<1>4. nextJob \in Jobs /\ nextJob # Sentinel /\ nextJob \notin 1..(nextJob - 1)
  BY <1>1, <1>2, <1>3 DEF Jobs, Sentinel
<1>5. nextJob \notin Known
  BY <1>3, <1>4 DEF OnlyTaken
<1>6. /\ work' \in Seq(Jobs \cup {Sentinel}) /\ Once(work') /\ Len(work') = Len(work) + 1
      /\ JobsIn(work') = JobsIn(work) \cup {nextJob}
      /\ \A i \in 1..Len(work') :
           (i \in 1..Len(work) /\ work'[i] = work[i]) \/ work'[i] = nextJob
  <2>1. nextJob \notin JobsIn(work)
    BY <1>5 DEF Known
  <2>2. Once(work') /\ Len(work') = Len(work) + 1 /\ JobsIn(work') = JobsIn(work) \cup {nextJob}
    BY <1>1, <1>3, <1>4, <2>1, AppendToQueue
  <2> QED
    BY <1>1, <1>3, <1>4, <2>2
<1>7. 1..(nextJob' - 1) = 1..(nextJob - 1) \cup {nextJob} /\ nextJob' \in 1..(NumJobs + 1)
  BY <1>1, <1>2, <1>3
<1>8. SentinelsComeLast'
  BY <1>1, <1>4, <1>6 DEF IInv, SentinelsComeLast
<1> USE <1>1, <1>2, <1>4, <1>5, <1>6, <1>7 DEF IInv, InFlight, Known
<1>11. TypeOK'
  BY DEF TypeOK
<1>12. Apart'
  BY DEF Apart
<1>13. OnlyTaken'
  BY DEF OnlyTaken, Known
<1>14. NoneLost'
  BY DEF NoneLost, Known
<1>15. Counted'
  BY SMTT(40) DEF Counted, Rounds
<1>16. RoundIsFresh'
  BY DEF RoundIsFresh
<1>17. FailuresShow'
  BY DEF FailuresShow
<1>18. PlacesAgree'
  BY DEF PlacesAgree
<1>19. SentinelsComeLast'
  BY <1>8
<1>20. AllIsDone'
  BY DEF AllIsDone
<1> QED
  BY <1>11, <1>12, <1>13, <1>14, <1>15, <1>16, <1>17, <1>18, <1>19, <1>20 DEF IInv

\* ... gathers an outcome, ...
LEMMA GatherKeepsIInv ==
  ASSUME IInv, Gather
  PROVE  IInv'
<1>1. /\ cpc \in {"wait", "gather"} /\ results # <<>> /\ results' = Tail(results)
      /\ gathered' = gathered + 1 /\ cpc' = "gather"
      /\ \/ /\ Head(results) \notin failed /\ error' = error
            /\ outcomes' = Append(outcomes, Head(results))
         \/ /\ Head(results) \in failed /\ error' = TRUE
            /\ outcomes' = outcomes
      /\ UNCHANGED <<work, failed, stop, wpc, wjob, nextJob, outstanding, sentinels,
                     delivered, verdict, interrupts>>
  BY DEF Gather, Succeeded, CoordinatorKeeps, workers
<1>2. /\ Held' = Held /\ HeldJobs' = HeldJobs /\ TriedJobs' = TriedJobs
      /\ Len(work) \in Nat /\ Len(results) \in Nat /\ Len(outcomes) \in Nat
      /\ Cardinality(Held) \in Nat /\ (Cardinality(Held) = 0 => Held = {})
      /\ gathered \in Nat /\ outstanding \in Nat /\ sentinels \in Nat
      /\ NumJobs \in Nat /\ Capacity \in Nat /\ Capacity > 0 /\ nextJob \in Nat
      /\ Cardinality(Workers) \in Nat
  BY <1>1, WorkersStay
<1>3. /\ results \in Seq(Jobs) /\ results \in Seq(Jobs \cup {Sentinel}) /\ Once(results)
      /\ outcomes \in Seq(Jobs) /\ outcomes \in Seq(Jobs \cup {Sentinel}) /\ Once(outcomes)
  BY DEF IInv, TypeOK, Apart
<1>4. /\ results' \in Seq(Jobs) /\ Once(results') /\ Len(results') = Len(results) - 1
      /\ Len(results) > 0 /\ JobsIn(results') = JobsIn(results) \ {Head(results)}
      /\ Head(results) \in Jobs /\ Head(results) \in JobsIn(results)
  <2>1. Head(results) \in Jobs /\ results' \in Seq(Jobs) /\ Len(results) > 0
    BY <1>1, <1>3
  <2> QED
    BY <1>1, <1>3, <2>1, TailOfQueue, ConstantFacts
<1>5. ASSUME Head(results) \notin failed
      PROVE  /\ outcomes' \in Seq(Jobs) /\ Once(outcomes') /\ Len(outcomes') = Len(outcomes) + 1
             /\ JobsIn(outcomes') = JobsIn(outcomes) \cup {Head(results)}
  <2>1. Head(results) \notin JobsIn(outcomes) /\ Head(results) # Sentinel
    BY <1>4, ConstantFacts DEF IInv, Apart
  <2>2. outcomes' = Append(outcomes, Head(results))
    BY <1>1, <1>5
  <2> QED
    BY <1>3, <1>4, <2>1, <2>2, AppendToQueue
<1>6. NoneLost'
  <2>1. CASE Head(results) \in failed
    <3>1. stop'
      BY <1>1, <2>1 DEF IInv, FailuresShow
    <3> QED
      BY <3>1 DEF NoneLost
  <2>2. CASE Head(results) \notin failed
    <3>1. JobsIn(work') = JobsIn(work) /\ delivered' = delivered /\ HeldJobs' = HeldJobs
          /\ nextJob' = nextJob /\ stop' = stop
      BY <1>1, <1>2
    <3>2. Known' = Known
      BY <1>4, <1>5, <2>2, <3>1 DEF Known
    <3> QED
      BY <3>1, <3>2 DEF IInv, NoneLost
  <2> QED
    BY <2>1, <2>2
<1>7. InFlight <= outstanding /\ outstanding \in 0..Capacity
  BY <1>1 DEF IInv, TypeOK, Counted, Rounds
<1>8. gathered' \in 0..Capacity
  BY <1>1, <1>2, <1>4, <1>7 DEF InFlight
<1> USE <1>1, <1>2, <1>3, <1>4, <1>5, <1>7, <1>8 DEF IInv, InFlight, Known
<1>9. TypeOK'
  BY DEF TypeOK
<1>10. Apart'
  BY SMTT(40) DEF Apart
<1>11. OnlyTaken'
  BY DEF OnlyTaken, Known
<1>12. NoneLost'
  BY <1>6
<1>13. Counted'
  BY SMTT(40) DEF Counted, Rounds
<1>14. RoundIsFresh'
  BY SMTT(40) DEF RoundIsFresh
<1>15. FailuresShow'
  BY DEF FailuresShow
<1>16. PlacesAgree'
  BY DEF PlacesAgree
<1>17. SentinelsComeLast'
  BY DEF SentinelsComeLast
<1>18. AllIsDone'
  BY DEF AllIsDone
<1> QED
  BY <1>9, <1>10, <1>11, <1>12, <1>13, <1>14, <1>15, <1>16, <1>17, <1>18 DEF IInv

\* ... takes a late outcome in the grace time, ...
LEMMA GraceKeepsIInv ==
  ASSUME IInv, GraceTakes
  PROVE  IInv'
<1>1. /\ cpc = "grace" /\ results # <<>> /\ results' = Tail(results)
      /\ \/ /\ Head(results) \notin failed
            /\ outcomes' = Append(outcomes, Head(results))
         \/ /\ Head(results) \in failed
            /\ outcomes' = outcomes
      /\ UNCHANGED <<work, failed, stop, wpc, wjob, cpc, nextJob, outstanding, gathered,
                     error, sentinels, delivered, verdict, interrupts>>
  BY DEF GraceTakes, Succeeded, CoordinatorKeeps, workers
<1>2. /\ Held' = Held /\ HeldJobs' = HeldJobs /\ TriedJobs' = TriedJobs
      /\ Len(work) \in Nat /\ Len(results) \in Nat /\ Len(outcomes) \in Nat
      /\ Cardinality(Held) \in Nat /\ (Cardinality(Held) = 0 => Held = {})
      /\ gathered \in Nat /\ outstanding \in Nat /\ sentinels \in Nat
      /\ NumJobs \in Nat /\ Capacity \in Nat /\ Capacity > 0 /\ nextJob \in Nat
      /\ Cardinality(Workers) \in Nat
  BY <1>1, WorkersStay
<1>3. /\ results \in Seq(Jobs) /\ results \in Seq(Jobs \cup {Sentinel}) /\ Once(results)
      /\ outcomes \in Seq(Jobs) /\ outcomes \in Seq(Jobs \cup {Sentinel}) /\ Once(outcomes)
  BY DEF IInv, TypeOK, Apart
<1>4. /\ results' \in Seq(Jobs) /\ Once(results') /\ Len(results') = Len(results) - 1
      /\ Len(results) > 0 /\ JobsIn(results') = JobsIn(results) \ {Head(results)}
      /\ Head(results) \in Jobs /\ Head(results) \in JobsIn(results)
  <2>1. Head(results) \in Jobs /\ results' \in Seq(Jobs) /\ Len(results) > 0
    BY <1>1, <1>3
  <2> QED
    BY <1>1, <1>3, <2>1, TailOfQueue, ConstantFacts
<1>5. ASSUME Head(results) \notin failed
      PROVE  /\ outcomes' \in Seq(Jobs) /\ Once(outcomes') /\ Len(outcomes') = Len(outcomes) + 1
             /\ JobsIn(outcomes') = JobsIn(outcomes) \cup {Head(results)}
  <2>1. Head(results) \notin JobsIn(outcomes) /\ Head(results) # Sentinel
    BY <1>4, ConstantFacts DEF IInv, Apart
  <2>2. outcomes' = Append(outcomes, Head(results))
    BY <1>1, <1>5
  <2> QED
    BY <1>3, <1>4, <2>1, <2>2, AppendToQueue
<1>6. error /\ stop
  BY <1>1 DEF IInv, PlacesAgree
<1> USE <1>1, <1>2, <1>3, <1>4, <1>5, <1>6 DEF IInv, InFlight, Known
<1>11. TypeOK'
  BY DEF TypeOK
<1>12. Apart'
  BY DEF Apart
<1>13. OnlyTaken'
  BY DEF OnlyTaken, Known
<1>14. NoneLost'
  BY DEF NoneLost, Known
<1>15. Counted'
  BY DEF Counted, Rounds
<1>16. RoundIsFresh'
  BY DEF RoundIsFresh
<1>17. FailuresShow'
  BY DEF FailuresShow
<1>18. PlacesAgree'
  BY DEF PlacesAgree
<1>19. SentinelsComeLast'
  BY DEF SentinelsComeLast
<1>20. AllIsDone'
  BY DEF AllIsDone
<1> QED
  BY <1>11, <1>12, <1>13, <1>14, <1>15, <1>16, <1>17, <1>18, <1>19, <1>20 DEF IInv

\* ... yields a result, ...
LEMMA YieldKeepsIInv ==
  ASSUME IInv, Yield
  PROVE  IInv'
<1>1. /\ cpc = "yield" /\ outcomes # <<>> /\ outcomes' = Tail(outcomes)
      /\ delivered' = delivered \cup {Head(outcomes)}
      /\ UNCHANGED <<work, results, failed, stop, wpc, wjob, cpc, nextJob, outstanding,
                     gathered, error, sentinels, verdict, interrupts>>
  BY DEF Yield, CoordinatorKeeps, workers
<1>2. /\ Held' = Held /\ HeldJobs' = HeldJobs /\ TriedJobs' = TriedJobs
      /\ Len(work) \in Nat /\ Len(results) \in Nat /\ Len(outcomes) \in Nat
      /\ Cardinality(Held) \in Nat /\ (Cardinality(Held) = 0 => Held = {})
      /\ gathered \in Nat /\ outstanding \in Nat /\ sentinels \in Nat
      /\ NumJobs \in Nat /\ Capacity \in Nat /\ Capacity > 0 /\ nextJob \in Nat
      /\ Cardinality(Workers) \in Nat
  BY <1>1, WorkersStay
<1>3. outcomes \in Seq(Jobs) /\ outcomes \in Seq(Jobs \cup {Sentinel}) /\ Once(outcomes)
  BY DEF IInv, TypeOK, Apart
<1>4. /\ outcomes' \in Seq(Jobs) /\ Once(outcomes')
      /\ JobsIn(outcomes') = JobsIn(outcomes) \ {Head(outcomes)}
      /\ Head(outcomes) \in Jobs /\ Head(outcomes) \in JobsIn(outcomes)
  <2>1. Head(outcomes) \in Jobs /\ outcomes' \in Seq(Jobs)
    BY <1>1, <1>3
  <2> QED
    BY <1>1, <1>3, <2>1, TailOfQueue, ConstantFacts
<1> USE <1>1, <1>2, <1>4 DEF IInv, InFlight, Known
<1>11. TypeOK'
  BY DEF TypeOK
<1>12. Apart'
  BY DEF Apart
<1>13. OnlyTaken'
  BY DEF OnlyTaken, Known
<1>14. NoneLost'
  BY DEF NoneLost, Known
<1>15. Counted'
  BY DEF Counted, Rounds
<1>16. RoundIsFresh'
  BY DEF RoundIsFresh
<1>17. FailuresShow'
  BY DEF FailuresShow
<1>18. PlacesAgree'
  BY DEF PlacesAgree
<1>19. SentinelsComeLast'
  BY DEF SentinelsComeLast
<1>20. AllIsDone'
  BY DEF AllIsDone
<1> QED
  BY <1>11, <1>12, <1>13, <1>14, <1>15, <1>16, <1>17, <1>18, <1>19, <1>20 DEF IInv

\* ... discards the queue, ...
LEMMA DrainKeepsIInv ==
  ASSUME IInv, Drain
  PROVE  IInv'
<1>1. /\ cpc = "drain"
      /\ \/ work # <<>> /\ work' = Tail(work) /\ cpc' = cpc /\ sentinels' = sentinels
         \/ /\ work = <<>> /\ work' = work /\ cpc' = "wake"
            /\ sentinels' = Cardinality(Workers)
      /\ UNCHANGED <<results, failed, stop, wpc, wjob, nextJob, outstanding, gathered,
                     outcomes, error, delivered, verdict, interrupts>>
  BY DEF Drain, CoordinatorKeeps, workers
<1>2. /\ Held' = Held /\ HeldJobs' = HeldJobs /\ TriedJobs' = TriedJobs
      /\ Len(work) \in Nat /\ Len(results) \in Nat /\ Len(outcomes) \in Nat
      /\ Cardinality(Held) \in Nat /\ (Cardinality(Held) = 0 => Held = {})
      /\ gathered \in Nat /\ outstanding \in Nat /\ sentinels \in Nat
      /\ NumJobs \in Nat /\ Capacity \in Nat /\ Capacity > 0 /\ nextJob \in Nat
      /\ Cardinality(Workers) \in Nat
  BY <1>1, WorkersStay
<1>3. work \in Seq(Jobs \cup {Sentinel}) /\ Once(work) /\ stop
  BY <1>1 DEF IInv, TypeOK, Apart, PlacesAgree
<1>4. work' \in Seq(Jobs \cup {Sentinel}) /\ Once(work') /\ JobsIn(work') \subseteq JobsIn(work)
  <2>1. CASE work # <<>> /\ work' = Tail(work)
    <3>1. Once(work') /\ JobsIn(work') = JobsIn(work) \ {Head(work)}
      BY <1>3, <2>1, TailOfQueue
    <3> QED
      BY <1>3, <2>1, <3>1
  <2> QED
    BY <1>1, <1>3, <2>1
<1>5. /\ sentinels' \in 0..Cardinality(Workers)
      /\ cpc' = "wake" => Len(work') = 0 /\ sentinels' = Cardinality(Workers)
  BY <1>1, <1>2 DEF IInv, TypeOK
<1> USE <1>1, <1>2, <1>3, <1>4, <1>5 DEF IInv, InFlight, Known
<1>11. TypeOK'
  BY DEF TypeOK
<1>12. Apart'
  BY DEF Apart
<1>13. OnlyTaken'
  BY DEF OnlyTaken, Known
<1>14. NoneLost'
  BY DEF NoneLost, Known
<1>15. Counted'
  BY DEF Counted, Rounds
<1>16. RoundIsFresh'
  BY DEF RoundIsFresh
<1>17. FailuresShow'
  BY DEF FailuresShow
<1>18. PlacesAgree'
  BY DEF PlacesAgree
<1>19. SentinelsComeLast'
  BY DEF SentinelsComeLast
<1>20. AllIsDone'
  BY DEF AllIsDone
<1> QED
  BY <1>11, <1>12, <1>13, <1>14, <1>15, <1>16, <1>17, <1>18, <1>19, <1>20 DEF IInv

\* ... wakes the workers, ...
LEMMA WakeKeepsIInv ==
  ASSUME IInv, Wake
  PROVE  IInv'
<1>1. /\ cpc = "wake"
      /\ \/ /\ sentinels > 0 /\ sentinels' = sentinels - 1 /\ cpc' = cpc
            /\ work' = Append(work, Sentinel)
         \/ /\ ~(sentinels > 0) /\ sentinels' = sentinels /\ work' = work
            /\ cpc' = (IF verdict = "open" THEN "grace" ELSE "closed")
      /\ UNCHANGED <<results, failed, stop, wpc, wjob, nextJob, outstanding, gathered,
                     outcomes, error, delivered, verdict, interrupts>>
  BY DEF Wake, CoordinatorKeeps, workers
<1>2. /\ Held' = Held /\ HeldJobs' = HeldJobs /\ TriedJobs' = TriedJobs
      /\ Len(work) \in Nat /\ Len(results) \in Nat /\ Len(outcomes) \in Nat
      /\ Cardinality(Held) \in Nat /\ (Cardinality(Held) = 0 => Held = {})
      /\ gathered \in Nat /\ outstanding \in Nat /\ sentinels \in Nat
      /\ NumJobs \in Nat /\ Capacity \in Nat /\ Capacity > 0 /\ nextJob \in Nat
      /\ Cardinality(Workers) \in Nat
  BY <1>1, WorkersStay
<1>3. work \in Seq(Jobs \cup {Sentinel}) /\ Once(work) /\ Sentinel \notin JobsIn(work)
  BY DEF IInv, TypeOK, Apart, JobsIn
<1>4. /\ work' \in Seq(Jobs \cup {Sentinel}) /\ Once(work') /\ JobsIn(work') = JobsIn(work)
      /\ Len(work') + sentinels' = Len(work) + sentinels
  <2>1. CASE work' = Append(work, Sentinel) /\ sentinels' = sentinels - 1
    <3>1. Once(work') /\ Len(work') = Len(work) + 1
          /\ JobsIn(work') = JobsIn(work) \cup ({Sentinel} \ {Sentinel})
      BY <1>3, <2>1, AppendToQueue
    <3>2. work' \in Seq(Jobs \cup {Sentinel})
      BY <1>3, <2>1
    <3> QED
      BY <1>2, <2>1, <3>1, <3>2
  <2> QED
    BY <1>1, <1>3, <2>1
<1>5. sentinels' \in 0..Cardinality(Workers)
  BY <1>1, <1>2 DEF IInv, TypeOK
<1> USE <1>1, <1>2, <1>3, <1>4, <1>5 DEF IInv, InFlight, Known
<1>11. TypeOK'
  BY DEF TypeOK
<1>12. Apart'
  BY DEF Apart
<1>13. OnlyTaken'
  BY DEF OnlyTaken, Known
<1>14. NoneLost'
  BY DEF NoneLost, Known
<1>15. Counted'
  BY DEF Counted, Rounds
<1>16. RoundIsFresh'
  BY DEF RoundIsFresh
<1>17. FailuresShow'
  BY DEF FailuresShow, PlacesAgree
<1>18. PlacesAgree'
  BY DEF PlacesAgree
<1>19. SentinelsComeLast'
  BY DEF SentinelsComeLast, PlacesAgree
<1>20. AllIsDone'
  BY DEF AllIsDone
<1> QED
  BY <1>11, <1>12, <1>13, <1>14, <1>15, <1>16, <1>17, <1>18, <1>19, <1>20 DEF IInv

\* ... and ends the workers when all is done.
LEMMA FinishKeepsIInv ==
  ASSUME IInv, Finish
  PROVE  IInv'
<1>1. /\ cpc = "finish"
      /\ \/ /\ sentinels > 0 /\ sentinels' = sentinels - 1 /\ cpc' = cpc
            /\ work' = Append(work, Sentinel)
         \/ /\ ~(sentinels > 0) /\ sentinels' = sentinels /\ work' = work
            /\ cpc' = "join"
      /\ UNCHANGED <<results, failed, stop, wpc, wjob, nextJob, outstanding, gathered,
                     outcomes, error, delivered, verdict, interrupts>>
  BY DEF Finish, CoordinatorKeeps, workers
<1>2. /\ Held' = Held /\ HeldJobs' = HeldJobs /\ TriedJobs' = TriedJobs
      /\ Len(work) \in Nat /\ Len(results) \in Nat /\ Len(outcomes) \in Nat
      /\ Cardinality(Held) \in Nat /\ (Cardinality(Held) = 0 => Held = {})
      /\ gathered \in Nat /\ outstanding \in Nat /\ sentinels \in Nat
      /\ NumJobs \in Nat /\ Capacity \in Nat /\ Capacity > 0 /\ nextJob \in Nat
      /\ Cardinality(Workers) \in Nat
  BY <1>1, WorkersStay
<1>3. work \in Seq(Jobs \cup {Sentinel}) /\ Once(work) /\ Sentinel \notin JobsIn(work)
  BY DEF IInv, TypeOK, Apart, JobsIn
<1>4. /\ work' \in Seq(Jobs \cup {Sentinel}) /\ Once(work') /\ JobsIn(work') = JobsIn(work)
      /\ Len(work') + sentinels' = Len(work) + sentinels
  <2>1. CASE work' = Append(work, Sentinel) /\ sentinels' = sentinels - 1
    <3>1. Once(work') /\ Len(work') = Len(work) + 1
          /\ JobsIn(work') = JobsIn(work) \cup ({Sentinel} \ {Sentinel})
      BY <1>3, <2>1, AppendToQueue
    <3>2. work' \in Seq(Jobs \cup {Sentinel})
      BY <1>3, <2>1
    <3> QED
      BY <1>2, <2>1, <3>1, <3>2
  <2> QED
    BY <1>1, <1>3, <2>1
<1>5. sentinels' \in 0..Cardinality(Workers)
  BY <1>1, <1>2 DEF IInv, TypeOK
<1> USE <1>1, <1>2, <1>3, <1>4, <1>5 DEF IInv, InFlight, Known
<1>11. TypeOK'
  BY DEF TypeOK
<1>12. Apart'
  BY DEF Apart
<1>13. OnlyTaken'
  BY DEF OnlyTaken, Known
<1>14. NoneLost'
  BY DEF NoneLost, Known
<1>15. Counted'
  BY DEF Counted, Rounds
<1>16. RoundIsFresh'
  BY DEF RoundIsFresh
<1>17. FailuresShow'
  BY DEF FailuresShow, PlacesAgree
<1>18. PlacesAgree'
  BY DEF PlacesAgree
<1>19. SentinelsComeLast'
  BY DEF SentinelsComeLast, PlacesAgree
<1>20. AllIsDone'
  BY DEF AllIsDone
<1> QED
  BY <1>11, <1>12, <1>13, <1>14, <1>15, <1>16, <1>17, <1>18, <1>19, <1>20 DEF IInv

----------------------------------------------------------------------------
(* The invariant.                                                          *)

LEMMA InitIInv == Init => IInv
<1> SUFFICES ASSUME Init PROVE IInv
  OBVIOUS
<1>1. /\ work = <<>> /\ results = <<>> /\ outcomes = <<>> /\ failed = {} /\ stop = FALSE
      /\ cpc = "fill" /\ nextJob = 1 /\ outstanding = 0 /\ gathered = 0 /\ error = FALSE
      /\ sentinels = 0 /\ delivered = {} /\ verdict = "open"
  BY DEF Init
<1>2. Held = {} /\ HeldJobs = {} /\ TriedJobs = {} /\ Cardinality(Held) = 0
  <2>1. Held = {} /\ Trying = {}
    BY DEF Init, Held, Trying, HeldBy
  <2> QED
    BY <2>1, FS_EmptySet DEF HeldJobs, TriedJobs
<1>3. JobsIn(<<>>) = {} /\ Once(<<>>) /\ Len(<<>>) = 0
  BY EmptyQueue
<1>4. 1..(nextJob - 1) = {}
  BY <1>1
<1>5. TypeOK
  <2>1. 1 \in 1..(NumJobs + 1) /\ 0 \in 0..Capacity /\ 0 \in 0..Cardinality(Workers)
        /\ 0 \in 0..MaxInterrupts
    BY ConstantFacts, WindowAssumption
  <2>2. wpc \in [Workers -> {"get", "check", "call", "running", "post", "again", "exited"}]
        /\ wjob \in [Workers -> Jobs \cup {Sentinel}] /\ interrupts = 0
    BY DEF Init
  <2>3. <<>> \in Seq(Jobs) /\ <<>> \in Seq(Jobs \cup {Sentinel})
    OBVIOUS
  <2> QED
    BY <1>1, <2>1, <2>2, <2>3 DEF TypeOK
<1>6. Counted
  BY <1>1, <1>2, <1>3 DEF Counted, InFlight
<1>7. SentinelsComeLast
  BY <1>1, <1>3 DEF SentinelsComeLast
<1>8. Apart /\ OnlyTaken /\ NoneLost
  BY <1>1, <1>2, <1>3, <1>4 DEF Apart, OnlyTaken, NoneLost, Known
<1>9. RoundIsFresh /\ FailuresShow /\ PlacesAgree /\ AllIsDone
  BY <1>1 DEF RoundIsFresh, FailuresShow, PlacesAgree, AllIsDone
<1> QED
  BY <1>5, <1>6, <1>7, <1>8, <1>9 DEF IInv

LEMMA StutterKeepsIInv == IInv /\ UNCHANGED vars => IInv'
<1> SUFFICES ASSUME IInv, UNCHANGED vars PROVE IInv'
  OBVIOUS
<1>1. UNCHANGED <<work, results, failed, stop, wpc, wjob, cpc, nextJob, outstanding, gathered,
                  outcomes, error, sentinels, delivered, verdict, interrupts>>
  BY DEF vars, workers, coordinator
<1>2. Held' = Held /\ HeldJobs' = HeldJobs /\ TriedJobs' = TriedJobs
  BY <1>1, WorkersStay
<1> USE <1>1, <1>2 DEF IInv, InFlight, Known
<1>11. TypeOK'
  BY DEF TypeOK
<1>12. Apart'
  BY DEF Apart
<1>13. OnlyTaken'
  BY DEF OnlyTaken, Known
<1>14. NoneLost'
  BY DEF NoneLost, Known
<1>15. Counted'
  BY DEF Counted, Rounds
<1>16. RoundIsFresh'
  BY DEF RoundIsFresh
<1>17. FailuresShow'
  BY DEF FailuresShow
<1>18. PlacesAgree'
  BY DEF PlacesAgree
<1>19. SentinelsComeLast'
  BY DEF SentinelsComeLast
<1>20. AllIsDone'
  BY DEF AllIsDone
<1> QED
  BY <1>11, <1>12, <1>13, <1>14, <1>15, <1>16, <1>17, <1>18, <1>19, <1>20 DEF IInv

\* The inductive invariant holds throughout.
THEOREM Invariance == Spec => []IInv
<1>1. IInv /\ [Next]_vars => IInv'
  <2> SUFFICES ASSUME IInv, [Next]_vars PROVE IInv'
    OBVIOUS
  <2>1. CASE FillOne
    BY <2>1, FillKeepsIInv
  <2>2. CASE FillDone
    BY <2>2, FillDoneKeepsIInv
  <2>3. CASE Gather
    BY <2>3, GatherKeepsIInv
  <2>4. CASE GatherDone
    BY <2>4, RoundKeepsIInv
  <2>5. CASE RequestStop
    BY <2>5, StopKeepsIInv
  <2>6. CASE Drain
    BY <2>6, DrainKeepsIInv
  <2>7. CASE Wake
    BY <2>7, WakeKeepsIInv
  <2>8. CASE GraceTakes
    BY <2>8, GraceKeepsIInv
  <2>9. CASE GraceEnds
    BY <2>9, GraceEndsKeepsIInv
  <2>10. CASE Yield
    BY <2>10, YieldKeepsIInv
  <2>11. CASE YieldDone
    BY <2>11, YieldDoneKeepsIInv
  <2>12. CASE Finish
    BY <2>12, FinishKeepsIInv
  <2>13. CASE Join
    BY <2>13, JoinKeepsIInv
  <2>14. CASE Interrupted
    BY <2>14, InterruptKeepsIInv
  <2>15. ASSUME NEW w \in Workers, WorkerStep(w) \/ WorkerEnds(w)
        PROVE  IInv'
    BY <2>15, GetKeepsIInv, CheckKeepsIInv, CallKeepsIInv, PostKeepsIInv, LoopKeepsIInv,
       ReturnKeepsIInv, RaiseKeepsIInv DEF WorkerStep, WorkerEnds
  <2>16. CASE Terminated \/ UNCHANGED vars
    BY <2>16, StutterKeepsIInv DEF Terminated
  <2> QED
    BY <2>1, <2>2, <2>3, <2>4, <2>5, <2>6, <2>7, <2>8, <2>9, <2>10,
       <2>11, <2>12, <2>13, <2>14, <2>15, <2>16 DEF Next, CoordinatorStep
<1> QED
  BY InitIInv, <1>1, PTL DEF Spec

----------------------------------------------------------------------------
(* What follows from the invariant.                                        *)

\* A job is in a queue at one index if it is there at all.
LEMMA OneIndex ==
  ASSUME NEW s, Once(s), NEW j \in Jobs
  PROVE  /\ j \notin JobsIn(s) => {k \in 1..Len(s) : s[k] = j} = {}
         /\ j \in JobsIn(s) => \E i : {k \in 1..Len(s) : s[k] = j} = {i}
<1>1. j # Sentinel
  BY ConstantFacts
<1>2. j \notin JobsIn(s) => {k \in 1..Len(s) : s[k] = j} = {}
  BY <1>1 DEF JobsIn
<1>3. ASSUME j \in JobsIn(s) PROVE \E i : {k \in 1..Len(s) : s[k] = j} = {i}
  <2>1. PICK i \in 1..Len(s) : s[i] = j
    BY <1>3 DEF JobsIn
  <2>2. \A k \in 1..Len(s) : s[k] = j => k = i
    BY <1>1, <2>1 DEF Once
  <2> QED
    BY <2>1, <2>2
<1> QED
  BY <1>2, <1>3

\* A job has one place if it has been taken, and it has none before.
LEMMA OnePlace ==
  ASSUME IInv, NEW j \in Jobs
  PROVE  /\ j \notin Known => Places(j) = {}
         /\ j \in Known => \E p : Places(j) = {p}
<1> DEFINE Q(s) == {k \in 1..Len(s) : s[k] = j}
           W == {v \in Workers : HeldBy(v) /\ wjob[v] = j}
<1>1. Places(j) = {<<i, "queued">> : i \in Q(work)} \cup {<<w, "worker">> : w \in W}
                  \cup {<<i, "result">> : i \in Q(results)}
                  \cup {<<i, "outcome">> : i \in Q(outcomes)}
                  \cup {<<d, "delivered">> : d \in {j} \cap delivered}
  BY DEF Places
<1>2. \A s \in {work, results, outcomes} :
        /\ j \notin JobsIn(s) => Q(s) = {}
        /\ j \in JobsIn(s) => \E i : Q(s) = {i}
  BY OneIndex DEF IInv, Apart
<1>3. (j \notin HeldJobs => W = {}) /\ (j \in HeldJobs => \E w : W = {w})
  <2>1. W = {v \in Held : wjob[v] = j}
    BY DEF Held
  <2>2. \A v, w \in Held : wjob[v] = wjob[w] => v = w
    BY DEF IInv, Apart
  <2> QED
    BY <2>1, <2>2 DEF HeldJobs
<1>4. /\ (j \notin delivered => {j} \cap delivered = {})
      /\ (j \in delivered => {j} \cap delivered = {j})
  OBVIOUS
<1> HIDE DEF Q, W
<1>5. CASE j \in JobsIn(work)
  <2>1. /\ j \notin HeldJobs /\ j \notin JobsIn(results)
        /\ j \notin JobsIn(outcomes) /\ j \notin delivered
    BY <1>5 DEF IInv, Apart
  <2>2. PICK i : Q(work) = {i}
    BY <1>2, <1>5
  <2>3. Places(j) = {<<i, "queued">>}
    BY <1>1, <1>2, <1>3, <1>4, <2>1, <2>2
  <2> QED
    BY <1>5, <2>3 DEF Known
<1>6. CASE j \in HeldJobs
  <2>1. /\ j \notin JobsIn(work) /\ j \notin JobsIn(results)
        /\ j \notin JobsIn(outcomes) /\ j \notin delivered
    BY <1>6 DEF IInv, Apart
  <2>2. PICK w : W = {w}
    BY <1>3, <1>6
  <2>3. Places(j) = {<<w, "worker">>}
    BY <1>1, <1>2, <1>3, <1>4, <2>1, <2>2
  <2> QED
    BY <1>6, <2>3 DEF Known
<1>7. CASE j \in JobsIn(results)
  <2>1. /\ j \notin JobsIn(work) /\ j \notin HeldJobs
        /\ j \notin JobsIn(outcomes) /\ j \notin delivered
    BY <1>7 DEF IInv, Apart
  <2>2. PICK i : Q(results) = {i}
    BY <1>2, <1>7
  <2>3. Places(j) = {<<i, "result">>}
    BY <1>1, <1>2, <1>3, <1>4, <2>1, <2>2
  <2> QED
    BY <1>7, <2>3 DEF Known
<1>8. CASE j \in JobsIn(outcomes)
  <2>1. j \notin JobsIn(work) /\ j \notin HeldJobs /\ j \notin JobsIn(results) /\ j \notin delivered
    BY <1>8 DEF IInv, Apart
  <2>2. PICK i : Q(outcomes) = {i}
    BY <1>2, <1>8
  <2>3. Places(j) = {<<i, "outcome">>}
    BY <1>1, <1>2, <1>3, <1>4, <2>1, <2>2
  <2> QED
    BY <1>8, <2>3 DEF Known
<1>9. CASE j \in delivered
  <2>1. /\ j \notin JobsIn(work) /\ j \notin HeldJobs
        /\ j \notin JobsIn(results) /\ j \notin JobsIn(outcomes)
    BY <1>9 DEF IInv, Apart
  <2>2. Places(j) = {<<j, "delivered">>}
    BY <1>1, <1>2, <1>3, <1>4, <1>9, <2>1
  <2> QED
    BY <1>9, <2>2 DEF Known
<1>10. CASE j \notin Known
  <2>1. Places(j) = {}
    BY <1>1, <1>2, <1>3, <1>4, <1>10 DEF Known
  <2> QED
    BY <1>10, <2>1
<1> QED
  BY <1>5, <1>6, <1>7, <1>8, <1>9, <1>10 DEF Known

LEMMA PlacesFollow == IInv => EachJobInOnePlace
<1> SUFFICES ASSUME IInv, NEW j \in Jobs
             PROVE  /\ Cardinality(Places(j)) <= 1
                    /\ j >= nextJob => Places(j) = {}
                    /\ j < nextJob /\ ~stop => Places(j) # {}
  BY DEF EachJobInOnePlace
<1>1. j \in Nat /\ j >= 1 /\ nextJob \in Nat
  BY ConstantFacts DEF IInv, TypeOK
<1>2. Cardinality(Places(j)) <= 1
  <2>1. CASE j \in Known
    <3>1. PICK p : Places(j) = {p}
      BY <2>1, OnePlace
    <3>2. Cardinality(Places(j)) = 1
      BY <3>1, FS_Singleton
    <3> QED
      BY <3>2
  <2>2. CASE j \notin Known
    <3>1. Cardinality(Places(j)) = 0
      BY <2>2, OnePlace, FS_EmptySet
    <3> QED
      BY <3>1
  <2> QED
    BY <2>1, <2>2
<1>3. j >= nextJob => j \notin Known
  BY <1>1 DEF IInv, OnlyTaken
<1>4. j < nextJob /\ ~stop => j \in Known
  BY <1>1 DEF IInv, NoneLost
<1> QED
  BY <1>2, <1>3, <1>4, OnePlace

LEMMA RoomFollows == IInv => QueueHasRoom
<1> SUFFICES ASSUME IInv PROVE QueueHasRoom
  OBVIOUS
<1>1. /\ Len(work) \in Nat /\ Len(results) \in Nat /\ gathered \in Nat /\ sentinels \in Nat
      /\ outstanding \in Nat
  BY ConstantFacts DEF IInv, TypeOK
<1>2. Cardinality(Held) \in Nat
  <2>1. Held \subseteq Workers
    BY DEF Held
  <2> QED
    BY <2>1, ConstantFacts, FS_Subset, FS_CardinalityType
<1>3. cpc = "wake" => Len(work) + sentinels <= Cardinality(Workers)
  BY DEF IInv, SentinelsComeLast
<1>4. cpc = "fill" => InFlight <= outstanding
  BY DEF IInv, Counted, Rounds
<1> QED
  BY <1>1, <1>2, <1>3, <1>4, ConstantFacts, SMTT(40) DEF QueueHasRoom, InFlight

\* As many jobs are held as workers hold one.
LEMMA HeldCount ==
  ASSUME IInv
  PROVE  IsFiniteSet(HeldJobs) /\ Cardinality(HeldJobs) = Cardinality(Held)
<1>1. Held \subseteq Workers /\ IsFiniteSet(Held)
  <2>1. Held \subseteq Workers
    BY DEF Held
  <2> QED
    BY <2>1, ConstantFacts, FS_Subset
<1> DEFINE f == [w \in Held |-> wjob[w]]
<1>2. f \in Bijection(Held, HeldJobs)
  <2>1. f \in [Held -> HeldJobs]
    BY DEF HeldJobs
  <2>2. \A v, w \in Held : f[v] = f[w] => v = w
    BY DEF IInv, Apart
  <2>3. \A j \in HeldJobs : \E w \in Held : f[w] = j
    BY DEF HeldJobs
  <2> QED
    BY <2>1, <2>2, <2>3 DEF Bijection, Injection, Surjection, IsInjective
<1>3. ExistsBijection(Held, HeldJobs)
  BY <1>2 DEF ExistsBijection
<1> QED
  BY <1>1, <1>3, FS_Bijection

\* The size of a union of sets without a common element.
LEMMA DisjointUnion ==
  ASSUME NEW S, NEW T, IsFiniteSet(S), IsFiniteSet(T), S \cap T = {}
  PROVE  IsFiniteSet(S \cup T) /\ Cardinality(S \cup T) = Cardinality(S) + Cardinality(T)
<1>1. Cardinality(S) \in Nat /\ Cardinality(T) \in Nat /\ Cardinality(S \cap T) = 0
  BY FS_CardinalityType, FS_EmptySet
<1>2. IsFiniteSet(S \cup T)
      /\ Cardinality(S \cup T) = Cardinality(S) + Cardinality(T) - Cardinality(S \cap T)
  BY FS_Union
<1> QED
  BY <1>1, <1>2

LEMMA OutstandingFollows == IInv => OutstandingIsExact
<1> DEFINE Due == {j \in 1..(nextJob - 1) :
                     j \notin delivered
                     /\ (cpc \in {"wait", "gather"} \/ ~InSeq(j, outcomes))}
<1> SUFFICES ASSUME IInv, ~stop, verdict = "open"
             PROVE  outstanding = Cardinality(Due)
  BY DEF OutstandingIsExact
<1>1. 1..(nextJob - 1) = Known /\ failed = {} /\ ~error
  BY DEF IInv, OnlyTaken, NoneLost, FailuresShow
<1>2. cpc \in Rounds \cup {"finish", "join"}
  BY <1>1 DEF IInv, PlacesAgree, Rounds, TypeOK
<1>3. \A j \in Known : InSeq(j, outcomes) <=> j \in JobsIn(outcomes)
  <2>1. Known \subseteq 1..(nextJob - 1)
    BY DEF IInv, OnlyTaken
  <2>2. \A j \in Known : j # Sentinel
    BY <2>1, ConstantFacts DEF IInv, TypeOK, Sentinel
  <2> QED
    BY <2>2 DEF InSeq, JobsIn
<1>4. CASE cpc \in {"finish", "join"}
  <2>1. /\ outstanding = 0 /\ delivered = Jobs /\ nextJob = NumJobs + 1
    BY <1>4 DEF IInv, AllIsDone
  <2>2. 1..(nextJob - 1) = delivered
    BY <2>1, ConstantFacts DEF Jobs
  <2>3. Due = {}
    BY <2>2
  <2> QED
    BY <2>1, <2>3, FS_EmptySet
<1>5. CASE cpc \in Rounds
  <2> DEFINE A == JobsIn(work) \cup HeldJobs
             B == A \cup JobsIn(results)
             C == B \cup JobsIn(outcomes)
  <2>1. work \in Seq(Jobs) /\ results \in Seq(Jobs) /\ outcomes \in Seq(Jobs)
        /\ Once(work) /\ Once(results) /\ Once(outcomes)
    <3>1. \A i \in 1..Len(work) : work[i] # Sentinel
      BY <1>5 DEF IInv, SentinelsComeLast, Rounds
    <3>2. work \in Seq(Jobs \cup {Sentinel})
      BY DEF IInv, TypeOK
    <3>3. work \in Seq(Jobs)
      BY <3>1, <3>2
    <3> QED
      BY <3>3 DEF IInv, TypeOK, Apart
  <2>2. /\ IsFiniteSet(JobsIn(work)) /\ Cardinality(JobsIn(work)) = Len(work)
        /\ IsFiniteSet(JobsIn(results)) /\ Cardinality(JobsIn(results)) = Len(results)
        /\ IsFiniteSet(JobsIn(outcomes)) /\ Cardinality(JobsIn(outcomes)) = Len(outcomes)
        /\ IsFiniteSet(HeldJobs) /\ Cardinality(HeldJobs) = Cardinality(Held)
    BY <2>1, LengthOfQueue, HeldCount
  <2>3. IsFiniteSet(A) /\ Cardinality(A) = Len(work) + Cardinality(Held)
    <3>1. JobsIn(work) \cap HeldJobs = {}
      BY DEF IInv, Apart
    <3>2. IsFiniteSet(A) /\ Cardinality(A) = Cardinality(JobsIn(work)) + Cardinality(HeldJobs)
      <4>1. IsFiniteSet(JobsIn(work)) /\ IsFiniteSet(HeldJobs)
        BY <2>2
      <4> QED
        BY <3>1, <4>1, DisjointUnion
    <3> HIDE DEF A, B, C
    <3> QED
      BY <2>2, <3>2
  <2>4. IsFiniteSet(B) /\ Cardinality(B) = Len(work) + Cardinality(Held) + Len(results)
    <3>1. A \cap JobsIn(results) = {}
      BY DEF IInv, Apart
    <3>2. IsFiniteSet(B) /\ Cardinality(B) = Cardinality(A) + Cardinality(JobsIn(results))
      <4>1. IsFiniteSet(A) /\ IsFiniteSet(JobsIn(results))
        BY <2>2, <2>3
      <4> QED
        BY <3>1, <4>1, DisjointUnion
    <3> HIDE DEF A, B, C
    <3> QED
      BY <2>2, <2>3, <3>2
  <2>5. IsFiniteSet(C)
        /\ Cardinality(C) = Len(work) + Cardinality(Held) + Len(results) + Len(outcomes)
    <3>1. B \cap JobsIn(outcomes) = {}
      BY DEF IInv, Apart
    <3>2. IsFiniteSet(C) /\ Cardinality(C) = Cardinality(B) + Cardinality(JobsIn(outcomes))
      <4>1. IsFiniteSet(B) /\ IsFiniteSet(JobsIn(outcomes))
        BY <2>2, <2>4
      <4> QED
        BY <3>1, <4>1, DisjointUnion
    <3> HIDE DEF A, B, C
    <3> QED
      BY <2>2, <2>4, <3>2
  <2>6. outstanding = Len(work) + Cardinality(Held) + Len(results) + gathered
    BY <1>1, <1>5 DEF IInv, Counted, InFlight
  <2>7. CASE cpc \in {"wait", "gather"}
    <3>1. gathered = Len(outcomes)
      BY <1>1, <2>7, EmptyQueue DEF IInv, RoundIsFresh
    <3>2. Due = C
      <4>1. Due = {j \in Known : j \notin delivered}
        BY <1>1, <2>7
      <4>2. C \cap delivered = {} /\ Known = C \cup delivered
        BY DEF IInv, Apart, Known
      <4> QED
        BY <4>1, <4>2
    <3> QED
      BY <2>5, <2>6, <3>1, <3>2
  <2>8. CASE cpc \in {"fill", "yield"}
    <3>1. gathered = 0
      BY <1>1, <2>8 DEF IInv, RoundIsFresh
    <3>2. Due = B
      <4>1. Due = {j \in Known : j \notin delivered /\ j \notin JobsIn(outcomes)}
        BY <1>1, <1>3, <2>8
      <4>2. B \cap delivered = {} /\ B \cap JobsIn(outcomes) = {}
            /\ Known = B \cup JobsIn(outcomes) \cup delivered
        BY DEF IInv, Apart, Known
      <4> QED
        BY <4>1, <4>2
    <3>3. outstanding = Len(work) + Cardinality(Held) + Len(results)
      <4>1. Cardinality(B) \in Nat
        BY <2>4, FS_CardinalityType
      <4> QED
        BY <2>4, <2>6, <3>1, <4>1
    <3> QED
      BY <2>4, <3>2, <3>3
  <2> QED
    BY <1>5, <2>7, <2>8 DEF Rounds
<1> QED
  BY <1>2, <1>4, <1>5

\* The jobs and the puts of parallel_job_results are accounted for, whatever
\* the number of jobs, workers, places in the window and interrupts.
THEOREM JobsStayAccounted == Spec => []JobsAreAccounted
<1>1. IInv => JobsAreAccounted
  BY PlacesFollow, RoomFollows, OutstandingFollows DEF IInv, JobsAreAccounted
<1> QED
  BY Invariance, <1>1, PTL

----------------------------------------------------------------------------
(* The refinement.                                                         *)

\* Every step of the window is a step of the stream of results or leaves it as
\* it is: the steps that say something to the consumer are a job that fails,
\* an item that is yielded, and the three ends of the generator.
LEMMA StepIsAStreamStep ==
  ASSUME IInv, [Next]_vars
  PROVE  [Stream!SNext]_(Stream!svars)
<1> USE DEF Stream!svars, CoordinatorKeeps
<1>1. CASE FillOne \/ FillDone \/ Gather \/ GatherDone \/ RequestStop \/ Drain \/ Wake
           \/ GraceTakes \/ GraceEnds \/ Finish
  BY <1>1 DEF FillOne, FillDone, Gather, GatherDone, RequestStop, Drain, Wake, GraceTakes,
              GraceEnds, Finish
<1>2. CASE Yield
  <2>1. cpc = "yield" /\ outcomes # <<>> /\ delivered' = delivered \cup {Head(outcomes)}
        /\ failed' = failed /\ verdict' = verdict
    BY <1>2 DEF Yield
  <2>2. Head(outcomes) \in Jobs /\ Head(outcomes) \in JobsIn(outcomes)
    <3>1. outcomes \in Seq(Jobs) /\ outcomes \in Seq(Jobs \cup {Sentinel}) /\ Once(outcomes)
      BY DEF IInv, TypeOK, Apart
    <3>2. Head(outcomes) \in Jobs
      BY <2>1, <3>1
    <3> QED
      BY <2>1, <3>1, <3>2, TailOfQueue, ConstantFacts
  <2>3. verdict = "open" /\ Head(outcomes) \notin delivered \cup failed
    BY <2>1, <2>2 DEF IInv, PlacesAgree, Apart, FailuresShow
  <2>4. Stream!Deliver(Head(outcomes))
    BY <2>1, <2>3 DEF Stream!Deliver
  <2> QED
    BY <2>2, <2>4 DEF Stream!SNext
<1>3. CASE YieldDone
  <2>1. CASE error
    <3>1. cpc = "yield" /\ verdict' = "raised" /\ delivered' = delivered /\ failed' = failed
      BY <1>3, <2>1 DEF YieldDone
    <3>2. verdict = "open" /\ failed # {}
      BY <2>1, <3>1 DEF IInv, PlacesAgree, FailuresShow
    <3>3. Stream!End("raised")
      BY <3>1, <3>2 DEF Stream!End
    <3> QED
      BY <3>3 DEF Stream!SNext
  <2>2. CASE ~error
    BY <1>3, <2>2 DEF YieldDone
  <2> QED
    BY <2>1, <2>2
<1>4. CASE Join
  <2>1. cpc = "join" /\ verdict' = "returned" /\ delivered' = delivered /\ failed' = failed
    BY <1>4 DEF Join
  <2>2. verdict = "open" /\ delivered = Jobs /\ failed = {}
    BY <2>1 DEF IInv, PlacesAgree, AllIsDone
  <2>3. Stream!End("returned")
    BY <2>1, <2>2 DEF Stream!End
  <2> QED
    BY <2>3 DEF Stream!SNext
<1>5. CASE Interrupted
  <2>1. Stream!End("aborted")
    BY <1>5 DEF Interrupted, Stream!End
  <2> QED
    BY <2>1 DEF Stream!SNext
<1>6. ASSUME NEW w \in Workers, WorkerStep(w) \/ WorkerReturns(w)
      PROVE  UNCHANGED Stream!svars
  BY <1>6 DEF WorkerStep, GetEntry, CheckStop, CallWorker, PostOutcome, LoopAgain, WorkerReturns
<1>7. ASSUME NEW w \in Workers, WorkerRaises(w)
      PROVE  Stream!SNext
  <2>1. wpc[w] = "running" /\ failed' = failed \cup {wjob[w]} /\ delivered' = delivered
        /\ verdict' = verdict
    BY <1>7 DEF WorkerRaises
  <2>2. wjob[w] \in HeldJobs /\ wjob[w] \in TriedJobs
    BY <2>1 DEF HeldJobs, TriedJobs, Held, HeldBy, Trying
  <2>3. wjob[w] \in Jobs
    BY <2>2, ConstantFacts DEF IInv, OnlyTaken, Known, TypeOK
  <2>4. wjob[w] \notin delivered \cup failed
    BY <2>2 DEF IInv, Apart, FailuresShow
  <2>5. Stream!JobFails(wjob[w])
    BY <2>1, <2>4 DEF Stream!JobFails
  <2> QED
    BY <2>3, <2>5 DEF Stream!SNext
<1>8. CASE Terminated \/ UNCHANGED vars
  BY <1>8 DEF Terminated, vars
<1> QED
  BY <1>1, <1>2, <1>3, <1>4, <1>5, <1>6, <1>7, <1>8 DEF Next, CoordinatorStep, WorkerEnds

\* parallel_job_results keeps the promise of JobStream: no result twice, none
\* for a failed job, a normal end only with every job out and none failed, and
\* an error only if a job has failed.
THEOREM PromiseIsKept == Spec => KeepsStreamPromise
<1>1. Init => Stream!SInit
  BY DEF Init, Stream!SInit
<1>2. IInv /\ [Next]_vars => [Stream!SNext]_(Stream!svars)
  BY StepIsAStreamStep
<1> QED
  BY Invariance, <1>1, <1>2, PTL DEF Spec, KeepsStreamPromise, Stream!SSpec
=============================================================================
