----------------------------- MODULE HardResults -----------------------------
(***************************************************************************)
(* The full Hard-RQ0 run of node 1 (run_all.sh) and what node 2 trusts of  *)
(* it. A run prepares the data, evaluates the base policy, trains and      *)
(* evaluates a specialist for every backend and seed (hard_policy_eval.py  *)
(* resumes from the rows it finds), reports, and publishes a completion    *)
(* marker. A watcher on node 2 accepts the run when the marker names the   *)
(* data and the checkpoints that are there now (exp002_completion.py).     *)
(*                                                                         *)
(* A digest is the thing it digests: data, an evaluator and a training     *)
(* configuration are version numbers, a signature is what it signs. A line *)
(* that a kill leaves torn is dropped by its readers and its successor     *)
(* (common.py), so a file is the sequence of its whole rows. The order in  *)
(* which the window of parallel jobs completes is modelled in ParallelJobs.*)
(***************************************************************************)
EXTENDS PolicyReport

CONSTANTS
  Requests,     \* finitely many [seeds, limit, report]: SEEDS, LIMIT, RUN_REPORT
  WatchSeeds,   \* the seeds node 2 requires, in ascending order
  Workers,      \* episodes in flight; a checkpoint holds as many rows
  MaxRuns,      \* bound: runs the operator starts
  MaxEdits,     \* bound: changes of the configuration, forced trainings
  MaxFaults     \* bound: failures, crashes

CONSTANT None

VARIABLES
  tree,      \* the versions the checked-out files ask for
  data,      \* the version of the prepared data, as its manifest tells
  trained,   \* each specialist's completion marker, None without one
  files,     \* each policy's result file
  archive,   \* the rows of results/policies/archive
  marker,    \* .complete.json of the result set
  reported,  \* .complete.json of the report
  run,       \* the run in progress: its request and the steps it has left
  proc,      \* the training or evaluation process of the current step
  watch,     \* node 2's watcher: the marker it read and what it has to compare
  used       \* [runs, edits, faults, trainings] so far

vars == <<tree, data, trained, files, archive, marker, reported, run, proc, watch, used>>

ASSUME RequestAssumption ==
  /\ IsFiniteSet(Requests)
  /\ \A r \in Requests :
       /\ r.seeds # <<>> /\ IsInjective(r.seeds) /\ r.limit \in Nat \ {0}
       /\ r.report => Len(r.seeds) >= MinSeeds /\ r.limit >= 2
  /\ \A r \in Requests : r.seeds \in Seq(Nat)
  /\ WatchSeeds \in Seq(Nat) /\ WatchSeeds # <<>>
  /\ Workers \in Nat \ {0}
  /\ {MaxRuns, MaxEdits, MaxFaults} \subseteq Nat

AllSeeds == Range(WatchSeeds) \cup UNION {Range(r.seeds) : r \in Requests}
SpecialistPolicies == [tag : Specialists, seed : AllSeeds]
Policies == SpecialistPolicies \cup {BasePolicy}

-----------------------------------------------------------------------------
(***************************************************************************)
(* The steps of a run, in their order.                                     *)
(***************************************************************************)
Step(does, policy) == [does |-> does, policy |-> policy]

Specialised(tag, seeds) ==
  [n \in 1..(2 * Len(seeds)) |->
    Step(IF n % 2 = 1 THEN "train" ELSE "evaluate", Policy(tag, seeds[(n + 1) \div 2]))]

Steps(request) ==
  <<Step("prepare", None), Step("unselected", None), Step("evaluate", BasePolicy)>>
  \o Specialised("bm25-specialist", request.seeds)
  \o Specialised("e5-specialist", request.seeds)
  \o (IF request.report THEN <<Step("report", None)>> ELSE <<>>)
  \o <<Step("complete", None)>>

Doing(does) == /\ run # None
               /\ proc = None
               /\ Head(run.todo).does = does

StepPolicy == Head(run.todo).policy

Advanced == [run EXCEPT !.todo = Tail(@)]

\* expected_policy_files.
Selected(request) == {BasePolicy} \cup [tag : Specialists, seed : Range(request.seeds)]

RowsOf(policies) == UNION {Range(files[p]) : p \in policies}

Count(what) == [used EXCEPT ![what] = @ + 1]

-----------------------------------------------------------------------------
\* Mutant of StartRun: the markers of the last run stay until the new ones.
StartKeepingMarkers(request) ==
  /\ run = None /\ proc = None
  /\ used.runs < MaxRuns
  /\ run' = [request |-> request, todo |-> Steps(request)]
  /\ used' = Count("runs")
  /\ UNCHANGED <<tree, data, trained, files, archive, marker, reported, proc, watch>>

(***************************************************************************)
(* run_all.sh removes both markers before anything else.                   *)
(***************************************************************************)
StartRun(request) ==
  /\ run = None /\ proc = None
  /\ used.runs < MaxRuns
  /\ run' = [request |-> request, todo |-> Steps(request)]
  /\ marker' = None
  /\ reported' = None
  /\ used' = Count("runs")
  /\ UNCHANGED <<tree, data, trained, files, archive, proc, watch>>

\* prepare_data.sh: see DataPreparation.
PrepareData ==
  /\ Doing("prepare")
  /\ data' = tree.data
  /\ run' = Advanced
  /\ UNCHANGED <<tree, trained, files, archive, marker, reported, proc, watch, used>>

\* The result files of policies that are not selected move to the archive.
ArchiveUnselected ==
  /\ Doing("unselected")
  /\ LET extras == Policies \ Selected(run.request)
     IN /\ archive' = archive \cup RowsOf(extras)
        /\ files' = [p \in Policies |-> IF p \in extras THEN <<>> ELSE files[p]]
  /\ run' = Advanced
  /\ UNCHANGED <<tree, data, trained, marker, reported, proc, watch, used>>

-----------------------------------------------------------------------------
(***************************************************************************)
(* train_specialist.sh reuses a checkpoint whose marker has the signature  *)
(* of this training, and otherwise moves the old one aside, marker and     *)
(* all, before it trains.                                                  *)
(***************************************************************************)
TrainSignature == [data |-> data, training |-> tree.training]

Reusable(policy) ==
  trained[policy] # None /\ trained[policy].signature = TrainSignature

ReuseTraining ==
  /\ Doing("train")
  /\ Reusable(StepPolicy)
  /\ run' = Advanced
  /\ UNCHANGED <<tree, data, trained, files, archive, marker, reported, proc, watch, used>>

Training(policy) ==
  /\ trained' = [trained EXCEPT ![policy] = None]
  /\ proc' = [does |-> "train", policy |-> policy, signature |-> TrainSignature]

StartTraining ==
  /\ Doing("train")
  /\ ~Reusable(StepPolicy)
  /\ Training(StepPolicy)
  /\ UNCHANGED <<tree, data, files, archive, marker, reported, run, watch, used>>

\* FORCE_TRAIN=1, by hand, between runs.
ForceTraining(policy) ==
  /\ run = None /\ proc = None
  /\ used.edits < MaxEdits
  /\ trained[policy] # None
  /\ Training(policy)
  /\ used' = Count("edits")
  /\ UNCHANGED <<tree, data, files, archive, marker, reported, run, watch>>

\* Every training ends with weights of its own.
FinishTraining ==
  /\ proc # None /\ proc.does = "train"
  /\ trained' = [trained EXCEPT ![proc.policy] =
       [signature |-> proc.signature, model |-> used.trainings + 1]]
  /\ used' = Count("trainings")
  /\ proc' = None
  /\ run' = IF run = None THEN None ELSE Advanced
  /\ UNCHANGED <<tree, data, files, archive, marker, reported, watch>>

-----------------------------------------------------------------------------
(***************************************************************************)
(* The evaluator. Its context is read once, when it starts; the data must  *)
(* be what the configuration asks for. The run signature signs the whole   *)
(* configuration, the seeds of the selection included; the ids of the      *)
(* questions are told by their number.                                     *)
(***************************************************************************)
HasModel(policy) == policy # BasePolicy => trained[policy] # None

Model(policy) == IF policy = BasePolicy THEN 0 ELSE trained[policy].model

Evaluation(request) ==
  [data |-> data, evaluator |-> tree.evaluator,
   asked |-> Min({request.limit, Len(Questions)})]

Grids == [n \in 1..Len(Questions) |-> Grid(Limited(n))]

GridOf(eval) == Grids[eval.asked]

RunSignature(policy, request) ==
  [policy |-> policy, eval |-> Evaluation(request), model |-> Model(policy),
   seeds |-> request.seeds]

Matches(row, id) == row.run = id /\ row.key \in Range(GridOf(id.eval))

\* A row gives way to a later one of its key.
Superseded(rows, id, i) ==
  \E j \in DOMAIN rows : j > i /\ Matches(rows[j], id) /\ rows[j].key = rows[i].key

(***************************************************************************)
(* The rows that are kept stand where their keys came first. Rows that     *)
(* match have the same run, so the first of a key equals the last.         *)
(***************************************************************************)
First(rows, id) ==
  {i \in DOMAIN rows : Matches(rows[i], id) /\ \A j \in DOMAIN rows :
     j < i /\ Matches(rows[j], id) => rows[j].key # rows[i].key}

\* The n-th number of a set.
Nth(S, n) == CHOOSE i \in S : Cardinality({j \in S : j <= i}) = n

Current(rows, id) ==
  LET first == First(rows, id)
  IN [n \in 1..Cardinality(first) |-> rows[Nth(first, n)]]

\* Mutant of Stale: the rows of the same evaluation are all that is archived.
StaleOfEvaluation(rows, id) ==
  {row \in Range(rows) : ~Matches(row, id) /\ row.run.eval = id.eval}

Stale(rows, id) ==
  {rows[i] : i \in {i \in DOMAIN rows :
                      Matches(rows[i], id) => Superseded(rows, id, i)}}

\* Mutant of Evaluator: the cache is read, and every episode asked again.
EvaluatorFromScratch(policy, id, rows) ==
  [does |-> "evaluate", policy |-> policy, id |-> id,
   done |-> {}, rewritten |-> FALSE, buffer |-> <<>>]

Evaluator(policy, id, rows) ==
  [does |-> "evaluate", policy |-> policy, id |-> id,
   done |-> {row.key : row \in Range(rows)},
   rewritten |-> FALSE, buffer |-> <<>>]

(***************************************************************************)
(* prepare_result_cache writes the archive first, then the file.           *)
(***************************************************************************)
StartEvaluation ==
  /\ Doing("evaluate")
  /\ data = tree.data
  /\ HasModel(StepPolicy)
  /\ LET id == RunSignature(StepPolicy, run.request)
         rows == files[StepPolicy]
     IN /\ archive' = archive \cup Stale(rows, id)
        /\ proc' = Evaluator(StepPolicy, id, Current(rows, id))
  /\ UNCHANGED <<tree, data, trained, files, marker, reported, run, watch, used>>

Evaluating == proc # None /\ proc.does = "evaluate"

RewriteCache ==
  /\ Evaluating /\ ~proc.rewritten
  /\ files' = [files EXCEPT ![proc.policy] = Current(@, proc.id)]
  /\ proc' = [proc EXCEPT !.rewritten = TRUE]
  /\ UNCHANGED <<tree, data, trained, archive, marker, reported, run, watch, used>>

Jobs == GridOf(proc.id.eval)

Left == {i \in DOMAIN Jobs : Jobs[i] \notin proc.done}

\* The workers take the jobs in their order.
InFlight == {Jobs[i] : i \in {j \in Left : Cardinality({l \in Left : l < j}) < Workers}}

Answered(key) == Append(proc.buffer, [key |-> key, run |-> proc.id])

CheckpointSize == Min({32, Workers})

\* An episode ends; a full checkpoint is appended to the file.
FinishEpisode(key) ==
  /\ Evaluating /\ proc.rewritten
  /\ key \in InFlight
  /\ LET rows == Answered(key)
         full == Len(rows) >= CheckpointSize
     IN /\ files' = IF full THEN [files EXCEPT ![proc.policy] = @ \o rows] ELSE files
        /\ proc' = [proc EXCEPT !.done = @ \cup {key},
                                !.buffer = IF full THEN <<>> ELSE rows]
  /\ UNCHANGED <<tree, data, trained, archive, marker, reported, run, watch, used>>

FlushLast ==
  /\ Evaluating /\ proc.rewritten
  /\ Left = {} /\ proc.buffer # <<>>
  /\ files' = [files EXCEPT ![proc.policy] = @ \o proc.buffer]
  /\ proc' = [proc EXCEPT !.buffer = <<>>]
  /\ UNCHANGED <<tree, data, trained, archive, marker, reported, run, watch, used>>

\* The rows of the complete grid replace the file, in the order of the jobs.
FinishEvaluation ==
  /\ Evaluating /\ proc.rewritten
  /\ Left = {} /\ proc.buffer = <<>>
  /\ files' = [files EXCEPT ![proc.policy] =
       LET rows == Range(@)
       IN [i \in DOMAIN Jobs |-> CHOOSE row \in rows : row.key = Jobs[i]]]
  /\ proc' = None
  /\ run' = Advanced
  /\ UNCHANGED <<tree, data, trained, archive, marker, reported, watch, used>>

-----------------------------------------------------------------------------
(***************************************************************************)
(* make_report.sh reads every result file, validates and reports.          *)
(***************************************************************************)
PolicyOrder == SetToSeq(Policies)

Frame == FlattenSeq([i \in DOMAIN PolicyOrder |-> files[PolicyOrder[i]]])

MakeReport ==
  /\ Doing("report")
  /\ ValidFrame(Frame, Range(run.request.seeds))
  /\ CanReport(Range(Frame))
  /\ reported' = Report(Range(Frame))
  /\ run' = Advanced
  /\ UNCHANGED <<tree, data, trained, files, archive, marker, proc, watch, used>>

\* current_input_provenance: the data and the specialists' markers.
Provenance(seeds) ==
  [data |-> data, specialists |-> [p \in [tag : Specialists, seed : seeds] |-> trained[p]]]

HasMarkers(seeds) == \A p \in [tag : Specialists, seed : seeds] : trained[p] # None

(***************************************************************************)
(* The completion marker needs a first row of every selected file, and     *)
(* that they share their evaluation signature.                             *)
(***************************************************************************)
Comparable(policies) ==
  /\ \A p \in policies : files[p] # <<>>
  /\ Cardinality({files[p][1].run.eval : p \in policies}) = 1

Complete ==
  /\ Doing("complete")
  /\ Comparable(Selected(run.request))
  /\ run.request.report => reported # None
  /\ HasMarkers(Range(run.request.seeds))
  /\ marker' = [request |-> run.request,
                eval |-> files[BasePolicy][1].run.eval,
                inputs |-> Provenance(Range(run.request.seeds)),
                results |-> [p \in Selected(run.request) |-> files[p]],
                report |-> reported]
  /\ run' = None
  /\ UNCHANGED <<tree, data, trained, files, archive, reported, proc, watch, used>>

-----------------------------------------------------------------------------
(***************************************************************************)
(* A step that cannot be done ends the run (set -e).                       *)
(***************************************************************************)
CanStart == data = tree.data /\ HasModel(StepPolicy)

CanMakeReport == ValidFrame(Frame, Range(run.request.seeds)) /\ CanReport(Range(Frame))

CanComplete ==
  /\ Comparable(Selected(run.request))
  /\ run.request.report => reported # None
  /\ HasMarkers(Range(run.request.seeds))

Refuse ==
  /\ \/ Doing("evaluate") /\ ~CanStart
     \/ Doing("report") /\ ~CanMakeReport
     \/ Doing("complete") /\ ~CanComplete
  /\ run' = None
  /\ UNCHANGED <<tree, data, trained, files, archive, marker, reported, proc, watch, used>>

Fault == used.faults < MaxFaults /\ used' = Count("faults")

(***************************************************************************)
(* An episode raises: the checkpoint is flushed, as far as the disk takes  *)
(* it.                                                                     *)
(***************************************************************************)
EpisodeFails ==
  /\ Evaluating /\ proc.rewritten /\ Left # {}
  /\ Fault
  /\ \E written \in 0..Len(proc.buffer) :
       files' = [files EXCEPT ![proc.policy] = @ \o SubSeq(proc.buffer, 1, written)]
  /\ proc' = None /\ run' = None
  /\ UNCHANGED <<tree, data, trained, archive, marker, reported, watch>>

\* The checkpoints about to be appended.
Pending ==
  {rows \in {Answered(key) : key \in InFlight} : Len(rows) >= CheckpointSize}
  \cup IF Left = {} /\ proc.buffer # <<>> THEN {proc.buffer} ELSE {}

(***************************************************************************)
(* An append raises after some of its rows are on disk: the handler        *)
(* flushes the whole checkpoint again, which may stop after some rows too, *)
(* or not happen at all when the process is killed.                        *)
(***************************************************************************)
AppendFails ==
  /\ Evaluating /\ proc.rewritten
  /\ Fault
  /\ \E rows \in Pending : \E once, again \in 0..Len(rows) :
       files' = [files EXCEPT ![proc.policy] =
         @ \o SubSeq(rows, 1, once) \o SubSeq(rows, 1, again)]
  /\ proc' = None /\ run' = None
  /\ UNCHANGED <<tree, data, trained, archive, marker, reported, watch>>

\* The node dies: the process, the run and the rows in memory are gone.
Crash ==
  /\ run # None \/ proc # None
  /\ Fault
  /\ proc' = None /\ run' = None
  /\ UNCHANGED <<tree, data, trained, files, archive, marker, reported, watch>>

(***************************************************************************)
(* The configuration, the evaluator or the training code changes. No       *)
(* process reads them once it has started, so a change meanwhile is one    *)
(* after it.                                                               *)
(***************************************************************************)
Edit(what) ==
  /\ proc = None
  /\ used.edits < MaxEdits
  /\ tree' = [tree EXCEPT ![what] = @ + 1]
  /\ used' = Count("edits")
  /\ UNCHANGED <<data, trained, files, archive, marker, reported, run, proc, watch>>

-----------------------------------------------------------------------------
(***************************************************************************)
(* validate_run_completion on node 2: it reads the marker, then one        *)
(* specialist's marker after the other, and takes the digest of the data   *)
(* manifest last. It compares when all are read, with nothing written      *)
(* meanwhile, so a difference may as well be seen at once: either way the  *)
(* watcher polls again. A marker stands on prepared data only, so the      *)
(* manifest, whose form is tested first, is there.                         *)
(***************************************************************************)
Watched ==
  [n \in 1..(2 * Len(WatchSeeds)) |->
    Policy(IF n % 2 = 1 THEN "bm25-specialist" ELSE "e5-specialist",
           WatchSeeds[(n + 1) \div 2])]

WatchRead ==
  /\ watch.at = "poll"
  /\ marker # None
  /\ Range(WatchSeeds) \subseteq Range(marker.request.seeds)
  /\ watch' = [at |-> "specialists", payload |-> marker, left |-> Watched]
  /\ UNCHANGED <<tree, data, trained, files, archive, marker, reported, run, proc, used>>

Polling == [at |-> "poll", payload |-> None, left |-> Watched]

\* Mutant of SameSpecialist: the training signature is compared, not the marker.
SameTraining(recorded, present) ==
  present # None /\ recorded.signature = present.signature

SameSpecialist(recorded, present) == present # None /\ recorded = present

WatchSpecialist ==
  /\ watch.at = "specialists"
  /\ LET p == Head(watch.left)
     IN watch' = IF ~SameSpecialist(watch.payload.inputs.specialists[p], trained[p])
                 THEN Polling
                 ELSE [watch EXCEPT !.left = Tail(@),
                         !.at = IF Tail(watch.left) = <<>> THEN "data" ELSE @]
  /\ UNCHANGED <<tree, data, trained, files, archive, marker, reported, run, proc, used>>

WatchData ==
  /\ watch.at = "data"
  /\ watch' = IF watch.payload.inputs.data = data
              THEN [watch EXCEPT !.at = "ready"] ELSE Polling
  /\ UNCHANGED <<tree, data, trained, files, archive, marker, reported, run, proc, used>>

-----------------------------------------------------------------------------
Init ==
  /\ tree = [data |-> 0, evaluator |-> 0, training |-> 0]
  /\ data = None
  /\ trained = [p \in SpecialistPolicies |-> None]
  /\ files = [p \in Policies |-> <<>>]
  /\ archive = {}
  /\ marker = None /\ reported = None
  /\ run = None /\ proc = None
  /\ watch = Polling
  /\ used = [runs |-> 0, edits |-> 0, faults |-> 0, trainings |-> 0]

Orchestrate ==
  \/ \E request \in Requests : StartRun(request)
  \/ PrepareData
  \/ ArchiveUnselected
  \/ ReuseTraining
  \/ StartTraining
  \/ FinishTraining
  \/ MakeReport
  \/ Complete
  \/ Refuse

Evaluate ==
  \/ StartEvaluation
  \/ RewriteCache
  \/ \E key \in IF Evaluating THEN InFlight ELSE {} : FinishEpisode(key)
  \/ FlushLast
  \/ FinishEvaluation

Environment ==
  \/ EpisodeFails
  \/ AppendFails
  \/ Crash
  \/ \E what \in DOMAIN tree : Edit(what)
  \/ \E p \in SpecialistPolicies : ForceTraining(p)

Watch == WatchRead \/ WatchData \/ WatchSpecialist

Next == Orchestrate \/ Evaluate \/ Environment \/ Watch

Spec == Init /\ [][Next]_vars
-----------------------------------------------------------------------------
(***************************************************************************)
(* A result file holds rows of its own policy only, and an evaluator never *)
(* holds a full checkpoint (hard_policy_eval.py).                          *)
(***************************************************************************)
TypeOK ==
  /\ tree \in [{"data", "evaluator", "training"} -> 0..MaxEdits]
  /\ data \in (0..MaxEdits) \cup {None}
  /\ \A p \in SpecialistPolicies :
       trained[p] = None \/ trained[p].model \in 1..used.trainings
  /\ \A p \in Policies : \A row \in Range(files[p]) : row.run.policy = p
  /\ Evaluating => Len(proc.buffer) < CheckpointSize
  /\ IsSuffix(watch.left, Watched)

(***************************************************************************)
(* What a completion marker claims is so: every selected policy answered   *)
(* the whole grid of the request, all in the evaluation it names, on the   *)
(* data it names, and each specialist with the very checkpoint it names,   *)
(* whatever was resumed, edited or retrained on the way and even when no   *)
(* report validated the results (run_all.sh).                              *)
(***************************************************************************)
ExpectedRun(m, p) ==
  [policy |-> p, eval |-> m.eval, seeds |-> m.request.seeds,
   model |-> IF p = BasePolicy THEN 0 ELSE m.inputs.specialists[p].model]

ExpectedRows(m, p) ==
  LET keys == Grid(Limited(m.request.limit))
  IN [i \in DOMAIN keys |-> [key |-> keys[i], run |-> ExpectedRun(m, p)]]

MarkerIsTrue ==
  marker # None =>
    /\ marker.eval.data = marker.inputs.data
    /\ \A p \in Selected(marker.request) : marker.results[p] = ExpectedRows(marker, p)

(***************************************************************************)
(* A completion marker describes the results and the report that are on    *)
(* disk now: a rerun that changes one of them, or fails half way, leaves   *)
(* no older marker behind (the comment at run_all.sh:98).                  *)
(***************************************************************************)
MarkerDescribesDisk ==
  marker # None =>
    /\ marker.report = reported
    /\ \A p \in Policies :
         files[p] = IF p \in Selected(marker.request) THEN marker.results[p] ELSE <<>>

(***************************************************************************)
(* Whoever reads a completion marker may rely on all that it says.         *)
(***************************************************************************)
MarkersAreTrue == TypeOK /\ MarkerIsTrue /\ MarkerDescribesDisk

(***************************************************************************)
(* The published report is the one the definitions in its own text give    *)
(* for the cells of the request (hard_rq0_report.py): the subset is chosen *)
(* by the base policy alone, a Holm-adjusted p-value is the largest of the *)
(* products of the p-values up to it, and the base policy's scores cancel  *)
(* from the primary decision.                                              *)
(***************************************************************************)
TrueScore(m, tag, seed, q, b, k) ==
  Measured([key |-> <<q, b, k>>,
            run |-> ExpectedRun(m, [tag |-> tag, seed |-> seed])]).score

TrueGain(m, tag, seed, q, b, k) ==
  TrueScore(m, tag, seed, q, b, k) - TrueScore(m, BaseTag, 0, q, b, k)

TrueBase(m, unit, b) ==
  Measured([key |-> <<unit[1], b, unit[2]>>, run |-> ExpectedRun(m, BasePolicy)])

TrueMatched(m) ==
  {unit \in Range(Limited(m.eval.asked)) \X Range(Topks) :
     /\ \A b \in Range(Backends) : 2 * TrueBase(m, unit, b).turn1 <= Unit
     /\ \E b \in Range(Backends) : \A c \in Range(Backends) :
          TrueBase(m, unit, b).turn3 > TrueBase(m, unit, c).turn1}

TrueExcess(m, tag, seed, units) ==
  SumFunction([u \in units |->
    IF tag = "bm25-specialist"
    THEN TrueGain(m, tag, seed, u[1], "bm25", u[2]) - TrueGain(m, tag, seed, u[1], "e5", u[2])
    ELSE TrueGain(m, tag, seed, u[1], "e5", u[2]) - TrueGain(m, tag, seed, u[1], "bm25", u[2])])

\* The signs flipped are those of a set of seeds that did not gain in all.
TrueSignFlip(values) ==
  Cardinality({flipped \in SUBSET DOMAIN values :
                 SumFunctionOnSet(values, flipped) <= 0})

TrueHolm(m) ==
  LET seeds == Range(m.request.seeds)
      asked == Range(Limited(m.eval.asked)) \X Range(Topks)
      matched == TrueMatched(m)
      units(c) == {unit \in IF c[1][1] = "all" THEN asked ELSE matched :
                     DatasetOf(unit[1]) = c[2][1] /\ unit[2] = c[2][2]}
      cells == {c \in ({"all", "matched-hard"} \X Specialists) \X (Datasets \X Range(Topks)) :
                  units(c) # {}}
      tests == {[cell |-> c,
                 p |-> TrueSignFlip([s \in seeds |-> TrueExcess(m, c[1][2], s, units(c))])] :
                  c \in cells}
      product(t) == t.p * Cardinality({u \in tests : u.p >= t.p})
  IN {<<t.cell, t.p, Min({2^Cardinality(seeds),
                          Max({product(u) : u \in {v \in tests : v.p <= t.p}})})>> :
        t \in tests}

TrueDecision(m) ==
  LET seeds == Range(m.request.seeds)
      asked(d) == {q \in Range(Limited(m.eval.asked)) : DatasetOf(q) = d}
      weight(q) == Product([d \in Datasets \ {DatasetOf(q)} |-> Cardinality(asked(d))])
      home(s, q) ==
        TrueScore(m, "bm25-specialist", s, q, "bm25", PrimaryTopk)
          - TrueScore(m, "bm25-specialist", s, q, "e5", PrimaryTopk)
          + TrueScore(m, "e5-specialist", s, q, "e5", PrimaryTopk)
          - TrueScore(m, "e5-specialist", s, q, "bm25", PrimaryTopk)
      perSeed == [s \in seeds |->
        SumFunction([q \in Range(Limited(m.eval.asked)) |-> weight(q) * home(s, q)])]
      scale == Product([d \in Datasets |-> Cardinality(asked(d))])
      signal == Signal(perSeed, 2 * Cardinality(Datasets) * scale * Unit)
  IN CASE Len(m.request.seeds) >= MinConfirmatory /\ signal -> "GO"
       [] Len(m.request.seeds) >= MinConfirmatory /\ ~signal -> "NO-GO"
       [] Len(m.request.seeds) < MinConfirmatory /\ signal -> "EXPLORATORY-SIGNAL"
       [] OTHER -> "EXPLORATORY-NO-SIGNAL"

TrueReport(m) ==
  [matched |-> TrueMatched(m), holm |-> TrueHolm(m), decision |-> TrueDecision(m)]

ReportIsTrue ==
  [][marker' \notin {None, marker} /\ marker'.report # None =>
       marker'.report = TrueReport(marker')]_vars

(***************************************************************************)
(* An answer that reached the disk is in the results or in the archive     *)
(* ever after, through resumes, crashes between the archive and the        *)
(* rewrite, and failing appends (prepare_result_cache, append_jsonl).      *)
(***************************************************************************)
OnDisk == RowsOf(Policies) \cup archive

DurableRowsAreKept == [][OnDisk \subseteq OnDisk']_<<files, archive>>

(***************************************************************************)
(* An episode whose answer is on disk for this very run is not asked again *)
(* (the resume of hard_policy_eval.py).                                    *)
(***************************************************************************)
NoEpisodeIsRepeated ==
  Evaluating => \A row \in Range(files[proc.policy]) :
    row.run = proc.id => row.key \in proc.done

(***************************************************************************)
(* What node 2 finds in place, when it reads it, is what every result of   *)
(* the marker it holds was measured with: each specialist's checkpoint,    *)
(* and at last the data. A training or a preparation after the run makes   *)
(* the marker stale (exp002_completion.py:146), wherever it falls between  *)
(* the reads.                                                              *)
(***************************************************************************)
AcceptedIsMeasured ==
  [][/\ watch.at = "specialists" /\ watch'.at \in {"specialists", "data"} =>
          LET p == Head(watch.left)
          IN /\ trained[p] # None
             /\ \A row \in Range(watch.payload.results[p]) :
                  row.run.model = trained[p].model
     /\ watch.at = "data" /\ watch'.at = "ready" =>
          \A p \in Range(Watched) : \A row \in Range(watch.payload.results[p]) :
            row.run.eval.data = data]_watch
=============================================================================
