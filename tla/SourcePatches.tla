----------------------------- MODULE SourcePatches -----------------------------
(***************************************************************************)
(* The patched checkout of Search-R1 that all trainings share. Python      *)
(* scripts (hard_rq0/patch_searchr1_*.py) edit six files of it, each file  *)
(* in one write, and migrate what their older versions left. The drivers   *)
(* (bootstrap, a specialist, a mixed policy, an experiment) apply the same *)
(* scripts in orders of their own, one driver at a time, and may be killed *)
(* between any two writes.                                                 *)
(*                                                                         *)
(* A file is a record of the fragments the scripts look for and put in,    *)
(* each at a version. A version names one text: where a script keeps the   *)
(* text of an older version under its own marker, what it leaves has a     *)
(* version of its own, V2_over_V1 or V3_over_V2. A script that does not    *)
(* find what it expects raises and ends its driver: its text is Refused.   *)
(***************************************************************************)
EXTENDS Naturals, Sequences, FiniteSets, SequencesExt

CONSTANTS
  OldTrees,   \* checkouts that earlier versions of the scripts have patched
  MaxRuns,    \* bound: drivers started
  MaxKills,   \* bound: drivers killed
  None, Refused

VARIABLES
  tree,       \* the files of the checkout
  driver,     \* the running driver: its mode and the steps it has left
  trainings,  \* the trainings so far: [mode, tree]
  refused,    \* the step that ended the last driver, None if none did
  used        \* [runs, kills] so far

vars == <<tree, driver, trainings, refused, used>>

-----------------------------------------------------------------------------
(***************************************************************************)
(* The files as pinned (SEARCH_R1_COMMIT).                                 *)
(***************************************************************************)
Pinned ==
  [generation |-> [timeout |-> "unbounded", sampling |-> "dropped", action |-> "none",
                   geometry |-> "none", routing |-> "none", helper |-> "none"],
   trainer |-> [validation |-> "none", metadata |-> "none"],
   main |-> [score |-> "pinned", helper |-> FALSE, evidence |-> "none",
             unicode |-> FALSE, env |-> "none"],
   workers |-> "pinned",
   rollout |-> "pinned",
   ray |-> "pinned"]

(***************************************************************************)
(* The versions that the scripts and their predecessors left in a file.    *)
(***************************************************************************)
\* The texts that the present markers stand over.
PresentTexts == {"V2", "V2_over_V1"}
PresentEnvs == {"V3", "V3_over_V2"}

Generations ==
  [timeout : {"unbounded", "bounded"}, sampling : {"dropped", "kept"},
   action : {"none", "V1"} \cup PresentTexts, geometry : {"none", "V1"},
   routing : {"none", "V1"} \cup PresentTexts, helper : {"none", "top-level", "package"}]

Trainers == [validation : {"none", "V2", "V3"}, metadata : {"none", "V2"}]

Mains ==
  [score : {"pinned", "V1", "V2", "evidence_V2"}, helper : BOOLEAN,
   evidence : {"none", "V3", "V4"}, unicode : BOOLEAN,
   env : {"none", "V1", "V2"} \cup PresentEnvs]

Trees ==
  [generation : Generations, trainer : Trainers, main : Mains,
   workers : {"pinned", "V1", "V2", "V3"}, rollout : {"pinned", "V1", "V2"},
   ray : {"pinned", "V1"}]

\* What every version of a script has put in together: mixed routing bounds its
\* requests and imports its helper, evidence comes with an import of its own.
Coherent(t) ==
  /\ t.generation.routing # "none" => t.generation.timeout = "bounded"
  /\ t.generation.routing \in PresentTexts => t.generation.helper # "none"
  /\ t.main.unicode = (t.main.evidence # "none" \/ t.main.score = "evidence_V2")

ASSUME TreeAssumption ==
  /\ OldTrees \subseteq {t \in Trees : Coherent(t)}
  /\ Refused \notin Generations \cup Trainers \cup Mains \cup {"V1", "V2", "V3"}

Modified == {f \in DOMAIN tree : tree[f] # Pinned[f]}

(***************************************************************************)
(* The scripts, as what they make of their file.                           *)
(***************************************************************************)
\* git apply: in place already, or where its context is.
Timeout(g) ==
  CASE g.timeout = "bounded" -> g
    [] g.timeout = "unbounded" -> [g EXCEPT !.timeout = "bounded"]
    [] OTHER -> Refused

RolloutSeed(text) == "V2"

RayIdentity(text) == "V1"

WorkerCuda(text) == "V3"

ExhaustiveValidation(t) == [t EXCEPT !.validation = "V3"]

ValidationSampling(g) == [g EXCEPT !.sampling = "kept"]

\* The action protocol and mixed routing rename the marker of their V1 and add
\* to its text; only a file without either gets the present text.
Migrated(version) ==
  CASE version = "none" -> "V2"
    [] version = "V1" -> "V2_over_V1"
    [] OTHER -> version

ActionProtocol(g) == [g EXCEPT !.action = Migrated(g.action)]

ObservationGeometry(g) ==
  IF g.geometry = "none" /\ g.action \notin PresentTexts THEN Refused
  ELSE [g EXCEPT !.geometry = "V1"]

\* The block of V1 is replaced, that of V2 gets two more lines.
ExperimentEnv(m) ==
  CASE m.env \in {"none", "V1"} -> [m EXCEPT !.env = "V3"]
    [] m.env = "V2" -> [m EXCEPT !.env = "V3_over_V2"]
    [] OTHER -> m

\* Mutant of WithoutEvidence: the import that evidence needed stays.
KeepingImport(m) == [m EXCEPT !.evidence = "none"]

(***************************************************************************)
(* The terminal reward: evidence of the present version is taken out, the  *)
(* answer helper and the score block are put in.                           *)
(***************************************************************************)
WithoutEvidence(m) ==
  IF m.evidence = "none" THEN m
  ELSE [m EXCEPT !.evidence = "none", !.unicode = FALSE]

TerminalReward(m) ==
  [WithoutEvidence(m) EXCEPT
     !.score = "V2",
     !.helper = TRUE,
     !.unicode = IF m.score = "evidence_V2" THEN FALSE ELSE @]

\* The evidence reward replaces the answer-only score of V2.
EvidenceReward(m) ==
  IF m.score = "V2" /\ m.evidence \in {"none", "V4"}
  THEN [m EXCEPT !.evidence = "V4", !.unicode = TRUE] ELSE Refused

\* Mutant of MixedRouting: its batch_search forgets the bounded request.
MixedWithoutTimeout(g) ==
  IF g.routing \in PresentTexts /\ g.helper = "none" THEN Refused
  ELSE [g EXCEPT !.routing = Migrated(g.routing), !.helper = "package",
                 !.timeout = IF g.routing = "none" THEN "routed" ELSE @]

(***************************************************************************)
(* Mixed routing: batch_search of the pinned file is replaced by one that  *)
(* has the bounded request too.                                            *)
(***************************************************************************)
MixedRouting(g) ==
  IF g.routing \in PresentTexts /\ g.helper = "none" THEN Refused
  ELSE [g EXCEPT !.routing = Migrated(g.routing), !.helper = "package",
                 !.timeout = IF g.routing = "none" THEN "bounded" ELSE @]

MixedMetadata(t) == [t EXCEPT !.metadata = "V2"]

-----------------------------------------------------------------------------
(***************************************************************************)
(* The drivers: a driver is a sequence of writes, of checks and of the     *)
(* training that the writes are for.                                       *)
(***************************************************************************)
\* Mutant of Validation: the marker in the trainer stands for both files.
ValidationByMarker ==
  IF tree.trainer.validation = "V3" THEN <<>>
  ELSE <<"exhaustive_validation", "validation_sampling">>

Validation == <<"exhaustive_validation", "validation_sampling">>

Common ==
  <<"rollout_seed", "ray_identity", "worker_cuda">> \o Validation
  \o <<"action_protocol", "observation_geometry", "terminal_reward">>

Bootstrap == <<"timeout">> \o Common \o <<"experiment_env">>

\* train_specialist.sh; the Stage 2 driver is its answer mode.
Specialist(mode) ==
  <<"timeout">> \o Common
  \o (IF mode = "evidence"
      THEN <<"experiment_env", "terminal_reward", "evidence_reward">> ELSE <<>>)
  \o <<"experiment_env", "preflight", "train">>

\* train_mixed_policy.sh; ready is NUMBERED_SETUP_READY.
Mixed(ready) ==
  (IF ready THEN <<>> ELSE Bootstrap) \o Common
  \o <<"experiment_env", "mixed_routing", "mixed_metadata", "train">>

\* The run.sh of EXP-003, EXP-004 and, with evidence, EXP-005.
Experiment(mode, ready) ==
  (IF ready THEN <<>> ELSE Bootstrap) \o <<"reset">>
  \o IF mode = "evidence" THEN <<"timeout">> \o Specialist(mode) ELSE Mixed(ready)

Drivers ==
  {[mode |-> "none", todo |-> Bootstrap]}
  \cup {[mode |-> m, todo |-> Specialist(m)] : m \in {"answer", "evidence"}}
  \cup {[mode |-> "mixed", todo |-> Mixed(r)] : r \in BOOLEAN}
  \cup {[mode |-> m, todo |-> Experiment(m, r)] : m \in {"mixed", "evidence"}, r \in BOOLEAN}

Doing(step) == driver # None /\ Head(driver.todo) = step

Advanced ==
  IF Tail(driver.todo) = <<>> THEN None ELSE [driver EXCEPT !.todo = Tail(@)]

-----------------------------------------------------------------------------
Init ==
  /\ tree \in {Pinned} \cup OldTrees
  /\ driver = None
  /\ trainings = {}
  /\ refused = None
  /\ used = [runs |-> 0, kills |-> 0]

Start(d) ==
  /\ driver = None
  /\ used.runs < MaxRuns
  /\ driver' = d
  /\ refused' = None
  /\ used' = [used EXCEPT !.runs = @ + 1]
  /\ UNCHANGED <<tree, trainings>>

Stop(step) ==
  /\ driver' = None
  /\ refused' = step
  /\ UNCHANGED <<tree, trainings, used>>

\* One file is written, or its script raises.
Write(step, file, text) ==
  /\ Doing(step)
  /\ IF text = Refused THEN Stop(step)
     ELSE /\ tree' = [tree EXCEPT ![file] = text]
          /\ driver' = Advanced
          /\ UNCHANGED <<trainings, refused, used>>

WriteTimeout == Write("timeout", "generation", Timeout(tree.generation))
WriteRolloutSeed == Write("rollout_seed", "rollout", RolloutSeed(tree.rollout))
WriteRayIdentity == Write("ray_identity", "ray", RayIdentity(tree.ray))
WriteWorkerCuda == Write("worker_cuda", "workers", WorkerCuda(tree.workers))
WriteValidation ==
  Write("exhaustive_validation", "trainer", ExhaustiveValidation(tree.trainer))
WriteSampling ==
  Write("validation_sampling", "generation", ValidationSampling(tree.generation))
WriteAction == Write("action_protocol", "generation", ActionProtocol(tree.generation))
WriteGeometry ==
  Write("observation_geometry", "generation", ObservationGeometry(tree.generation))
WriteReward == Write("terminal_reward", "main", TerminalReward(tree.main))
WriteEnv == Write("experiment_env", "main", ExperimentEnv(tree.main))
WriteEvidence == Write("evidence_reward", "main", EvidenceReward(tree.main))
WriteRouting == Write("mixed_routing", "generation", MixedRouting(tree.generation))
WriteMetadata == Write("mixed_metadata", "trainer", MixedMetadata(tree.trainer))

(***************************************************************************)
(* reset_searchr1_experiment_files.sh restores the files it knows, unless  *)
(* another one has changes.                                                *)
(***************************************************************************)
KnownFiles == {"generation", "main", "trainer", "workers", "rollout"}

Reset ==
  /\ Doing("reset")
  /\ IF Modified \subseteq KnownFiles
     THEN /\ tree' = [f \in DOMAIN tree |-> IF f \in KnownFiles THEN Pinned[f] ELSE tree[f]]
          /\ driver' = Advanced
          /\ UNCHANGED <<trainings, refused, used>>
     ELSE Stop("reset")

\* preflight_searchr1.sh.
ReadyToTrain ==
  /\ tree.generation.timeout = "bounded"
  /\ tree.generation.action \in PresentTexts
  /\ tree.generation.geometry = "V1"
  /\ tree.generation.sampling = "kept"
  /\ tree.trainer.validation = "V3"
  /\ tree.main.score = "V2"

Preflight ==
  /\ Doing("preflight")
  /\ IF ReadyToTrain
     THEN driver' = Advanced /\ UNCHANGED <<tree, trainings, refused, used>>
     ELSE Stop("preflight")

Train ==
  /\ Doing("train")
  /\ trainings' = trainings \cup {[mode |-> driver.mode, tree |-> tree]}
  /\ driver' = Advanced
  /\ UNCHANGED <<tree, refused, used>>

Kill ==
  /\ driver # None
  /\ used.kills < MaxKills
  /\ driver' = None
  /\ used' = [used EXCEPT !.kills = @ + 1]
  /\ UNCHANGED <<tree, trainings, refused>>

\* The checkout is removed, and bootstrap clones it again.
Reclone ==
  /\ driver = None
  /\ tree # Pinned
  /\ tree' = Pinned
  /\ UNCHANGED <<driver, trainings, refused, used>>

Apply ==
  \/ WriteTimeout \/ WriteRolloutSeed \/ WriteRayIdentity \/ WriteWorkerCuda
  \/ WriteValidation \/ WriteSampling \/ WriteAction \/ WriteGeometry
  \/ WriteReward \/ WriteEnv \/ WriteEvidence \/ WriteRouting \/ WriteMetadata

Next ==
  \/ \E d \in Drivers : Start(d)
  \/ Apply
  \/ Reset
  \/ Preflight
  \/ Train
  \/ Kill
  \/ Reclone

Spec == Init /\ [][Next]_vars
-----------------------------------------------------------------------------
(***************************************************************************)
(* A training is rewarded as its mode says: an evidence-patched checkout,  *)
(* of this run or of an older version, never reaches an answer-only        *)
(* training (hard_rq0/README.md:144), nor an answer-only one an evidence   *)
(* training.                                                               *)
(***************************************************************************)
RewardIsTheModes ==
  \A t \in trainings :
    /\ t.tree.main.score = "V2" /\ t.tree.main.helper
    /\ t.tree.main.evidence = (IF t.mode = "evidence" THEN "V4" ELSE "none")

(***************************************************************************)
(* No training runs on a checkout that is only partly patched, whichever   *)
(* driver was killed between which of its writes; train_mixed_policy.sh    *)
(* has no preflight that would notice.                                     *)
(***************************************************************************)
TrainsWhole ==
  \A t \in trainings :
    /\ t.tree.generation.timeout = "bounded" /\ t.tree.generation.sampling = "kept"
    /\ t.tree.generation.action \in PresentTexts /\ t.tree.generation.geometry = "V1"
    /\ t.tree.trainer.validation = "V3"
    /\ t.tree.main.env \in PresentEnvs
    /\ <<t.tree.workers, t.tree.rollout, t.tree.ray>> = <<"V3", "V2", "V1">>
    /\ t.mode = "mixed" =>
         /\ t.tree.generation.routing \in PresentTexts
         /\ t.tree.generation.helper = "package"
         /\ t.tree.trainer.metadata = "V2"

(***************************************************************************)
(* A training runs on the whole checkout that its mode asks for.           *)
(***************************************************************************)
TrainsAsAsked == RewardIsTheModes /\ TrainsWhole

(***************************************************************************)
(* Whatever the scripts and their older versions left, in any order of the *)
(* drivers and however they were killed, the scripts and the preflight     *)
(* accept: a checkout is never stuck half way.                             *)
(***************************************************************************)
PatchesAcceptTheirOwn == refused \in {None, "reset"}

(***************************************************************************)
(* The fingerprint of the checkout, a digest of its git diff that every    *)
(* training signature holds (train_specialist.sh:352), does not tell in    *)
(* which order and how often the scripts were run, nor what they have      *)
(* taken out again: two trainings of one mode have the same texts, unless  *)
(* mixed routing is still in one of them (bootstrap_searchr1.sh:84) or     *)
(* only one of them still has the text of an older version's action        *)
(* protocol or environment block.                                          *)
(***************************************************************************)
Routed(t) == <<t.tree.generation.routing, t.tree.generation.helper, t.tree.trainer.metadata>>

Inherited(t) == <<t.tree.generation.action, t.tree.main.env>>

FingerprintIsStable ==
  \A s, t \in trainings :
    s.mode = t.mode /\ Routed(s) = Routed(t) /\ Inherited(s) = Inherited(t) => s.tree = t.tree

(***************************************************************************)
(* What experiments/README.md:114 says, "That one command runs EXP-003,    *)
(* EXP-004, EXP-005, EXP-006": the reset with which each of them starts    *)
(* its runs knows the files that the repository's own scripts have edited. *)
(***************************************************************************)
ResetKnowsThePatches == refused # "reset"
=============================================================================
