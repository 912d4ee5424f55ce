---------------------------- MODULE SearchR1Proofs ----------------------------
(***************************************************************************)
(* Theorems about the patched Search-R1.                                   *)
(*                                                                         *)
(* SourcePatches, for any coherent checkouts left by older versions and    *)
(* any number of drivers and kills: a training finds the tree that its     *)
(* mode asks for, no script refuses what another one left, and the         *)
(* fingerprint of a checkout does not tell how it came about, but for the  *)
(* texts of older versions that the scripts keep.                          *)
(*                                                                         *)
(* SearchRollout, for any batches, corpora, budgets and windows: the rows  *)
(* of a batch stay apart, every row ends as the evaluator's episode of the *)
(* same texts, the reward is the evaluator's metrics, and validation       *)
(* scores every source row once.                                           *)
(***************************************************************************)
EXTENDS SourcePatches, SearchRollout, WellFoundedInduction, SequenceTheorems,
        FiniteSetTheorems, TLAPS

(***************************************************************************)
(* Part I: the checkout                                                    *)
(***************************************************************************)

Modes == {"none", "answer", "evidence", "mixed"}

Patches ==
  {"timeout", "rollout_seed", "ray_identity", "worker_cuda", "exhaustive_validation",
   "validation_sampling", "action_protocol", "observation_geometry", "terminal_reward",
   "experiment_env", "evidence_reward", "mixed_routing", "mixed_metadata"}

Steps == Patches \cup {"reset", "preflight", "train"}

\* What a patch leaves in a tree ...
Done(t, patch) ==
  /\ patch = "timeout" => t.generation.timeout = "bounded"
  /\ patch = "rollout_seed" => t.rollout = "V2"
  /\ patch = "ray_identity" => t.ray = "V1"
  /\ patch = "worker_cuda" => t.workers = "V3"
  /\ patch = "exhaustive_validation" => t.trainer.validation = "V3"
  /\ patch = "validation_sampling" => t.generation.sampling = "kept"
  /\ patch = "action_protocol" => t.generation.action \in PresentTexts
  /\ patch = "observation_geometry" => t.generation.geometry = "V1"
  /\ patch = "terminal_reward" => t.main.score = "V2" /\ t.main.helper /\ t.main.evidence = "none"
  /\ patch = "experiment_env" => t.main.env \in PresentEnvs
  /\ patch = "evidence_reward" => t.main.score = "V2" /\ t.main.helper /\ t.main.evidence = "V4"
  /\ patch = "mixed_routing" => /\ t.generation.routing \in PresentTexts
                                /\ t.generation.helper = "package"
                                /\ t.generation.timeout = "bounded"
  /\ patch = "mixed_metadata" => t.trainer.metadata = "V2"

\* ... until a step takes it out again.
Undoes(step, patch) ==
  \/ step = "reset"
  \/ step = "evidence_reward" /\ patch = "terminal_reward"
  \/ step = "terminal_reward" /\ patch = "evidence_reward"

\* The patches that a mode is trained with.
AskedFor(mode) ==
  (Patches \ {"timeout", "terminal_reward", "evidence_reward", "mixed_routing", "mixed_metadata"})
  \cup (IF mode = "mixed" THEN {"mixed_routing", "mixed_metadata"} ELSE {"timeout"})
  \cup (IF mode = "evidence" THEN {"evidence_reward"} ELSE {"terminal_reward"})

\* Nothing before the j-th step undoes a patch; the patch is applied before the
\* j-th step and stays.
Untouched(todo, patch, j) == \A i \in 1..(j - 1) : ~Undoes(todo[i], patch)
AppliedBefore(todo, patch, j) ==
  \E i \in 1..(j - 1) :
    /\ todo[i] = patch
    /\ \A h \in (i + 1)..(j - 1) : ~Undoes(todo[h], patch)

\* Whenever the driver comes to a step, the tree has what a patch leaves.
Prepared(todo, t, patch, step) ==
  \A j \in 1..Len(todo) :
    todo[j] = step => AppliedBefore(todo, patch, j) \/ (Done(t, patch) /\ Untouched(todo, patch, j))

PlanIsSound(todo, mode, t) ==
  /\ \A patch \in AskedFor(mode), step \in {"preflight", "train"} : Prepared(todo, t, patch, step)
  /\ Prepared(todo, t, "action_protocol", "observation_geometry")
  /\ Prepared(todo, t, "terminal_reward", "evidence_reward")

CheckoutTypeOK ==
  /\ tree \in Trees
  /\ driver = None \/ (driver \in [mode : Modes, todo : Seq(Steps)] /\ driver.todo # <<>>)
  /\ trainings \subseteq [mode : Modes, tree : Trees]

TreesAreCoherent == Coherent(tree) /\ \A t \in trainings : Coherent(t.tree)

DriverIsSound == driver # None => PlanIsSound(driver.todo, driver.mode, tree)

TrainingsAreDone == \A t \in trainings : \A patch \in AskedFor(t.mode) : Done(t.tree, patch)

CheckoutInv ==
  CheckoutTypeOK /\ TreesAreCoherent /\ DriverIsSound /\ TrainingsAreDone /\ PatchesAcceptTheirOwn

----------------------------------------------------------------------------
(* Plans.                                                                  *)

\* The first step of a plan finds what it needs.
LEMMA AtTheHead ==
  ASSUME NEW todo \in Seq(Steps), todo # <<>>, NEW t, NEW patch,
         Prepared(todo, t, patch, Head(todo))
  PROVE  Done(t, patch)
<1>1. 1 \in 1..Len(todo) /\ todo[1] = Head(todo)
  OBVIOUS
<1>2. ~AppliedBefore(todo, patch, 1)
  BY DEF AppliedBefore
<1> QED
  BY <1>1, <1>2 DEF Prepared

\* A step leaves a plan prepared if the tree keeps what the step does not undo.
LEMMA PreparedAfter ==
  ASSUME NEW todo \in Seq(Steps), todo # <<>>, NEW t, NEW u, NEW patch, NEW step,
         Prepared(todo, t, patch, step),
         Head(todo) = patch => Done(u, patch),
         Done(t, patch) /\ ~Undoes(Head(todo), patch) => Done(u, patch)
  PROVE  Prepared(Tail(todo), u, patch, step)
<1> DEFINE rest == Tail(todo)
<1>1. /\ Len(todo) \in Nat /\ Len(rest) = Len(todo) - 1 /\ Head(todo) = todo[1]
      /\ \A i \in 1..Len(rest) : rest[i] = todo[i + 1]
  OBVIOUS
<1> HIDE DEF rest
<1> SUFFICES ASSUME NEW j \in 1..Len(rest), rest[j] = step
             PROVE  AppliedBefore(rest, patch, j) \/ (Done(u, patch) /\ Untouched(rest, patch, j))
  BY DEF rest, Prepared
<1>2. j + 1 \in 1..Len(todo) /\ todo[j + 1] = step /\ (j + 1) - 1 = j
  BY <1>1
<1>3. \A i \in 1..(j - 1) : i + 1 \in 1..j /\ rest[i] = todo[i + 1]
  BY <1>1, SMTT(30)
<1>4. CASE Done(t, patch) /\ Untouched(todo, patch, j + 1)
  <2>1. \A i \in 1..j : ~Undoes(todo[i], patch)
    BY <1>2, <1>4 DEF Untouched
  <2>2. ~Undoes(Head(todo), patch)
    BY <1>1, <2>1
  <2>3. Untouched(rest, patch, j)
    BY <1>3, <2>1 DEF Untouched
  <2> QED
    BY <1>4, <2>2, <2>3
<1>5. CASE AppliedBefore(todo, patch, j + 1)
  <2>1. PICK i \in 1..j : todo[i] = patch /\ \A h \in (i + 1)..j : ~Undoes(todo[h], patch)
    BY <1>2, <1>5 DEF AppliedBefore
  <2>2. CASE i = 1
    <3>1. \A h \in 1..(j - 1) : ~Undoes(rest[h], patch)
      BY <1>3, <2>1, <2>2
    <3>2. Head(todo) = patch
      BY <1>1, <2>1, <2>2
    <3> QED
      BY <3>1, <3>2 DEF Untouched
  <2>3. CASE i # 1
    <3>1. i - 1 \in 1..(j - 1) /\ rest[i - 1] = todo[i] /\ (i - 1) + 1 = i
      BY <1>3, <2>3
    <3>2. \A h \in ((i - 1) + 1)..(j - 1) : ~Undoes(rest[h], patch)
      BY <1>3, <2>1, <3>1
    <3> QED
      BY <2>1, <3>1, <3>2 DEF AppliedBefore
  <2> QED
    BY <2>2, <2>3
<1> QED
  BY <1>2, <1>4, <1>5 DEF Prepared

\* A step leaves a sound plan sound if it keeps what it does not undo.
LEMMA PlanAdvances ==
  ASSUME NEW todo \in Seq(Steps), todo # <<>>, NEW mode \in Modes, NEW t, NEW u,
         PlanIsSound(todo, mode, t),
         \A patch \in Patches : Head(todo) = patch => Done(u, patch),
         \A patch \in Patches : Done(t, patch) /\ ~Undoes(Head(todo), patch) => Done(u, patch)
  PROVE  PlanIsSound(Tail(todo), mode, u)
<1>1. AskedFor(mode) \subseteq Patches /\ {"action_protocol", "terminal_reward"} \subseteq Patches
  BY DEF AskedFor, Patches
<1>2. ASSUME NEW patch \in Patches, NEW step, Prepared(todo, t, patch, step)
      PROVE  Prepared(Tail(todo), u, patch, step)
  BY <1>2, PreparedAfter
<1> QED
  BY <1>1, <1>2 DEF PlanIsSound

\* A plan that prepares each of its steps itself.
Closed(todo, patch, step) ==
  \A j \in 1..Len(todo) : todo[j] = step => AppliedBefore(todo, patch, j)
PlanIsClosed(todo, mode) ==
  /\ \A patch \in AskedFor(mode), step \in {"preflight", "train"} : Closed(todo, patch, step)
  /\ Closed(todo, "action_protocol", "observation_geometry")
  /\ Closed(todo, "terminal_reward", "evidence_reward")

\* Such a plan is sound on any tree, ...
LEMMA ClosedIsSound ==
  ASSUME NEW todo, NEW mode, NEW t, PlanIsClosed(todo, mode)
  PROVE  PlanIsSound(todo, mode, t)
  BY DEF PlanIsClosed, PlanIsSound, Closed, Prepared

\* ... and so are two of them in a row.
LEMMA ClosedInARow ==
  ASSUME NEW one \in Seq(Steps), NEW two \in Seq(Steps), NEW patch, NEW step,
         Closed(one, patch, step), Closed(two, patch, step)
  PROVE  Closed(one \o two, patch, step)
<1> DEFINE all == one \o two
<1>1. /\ Len(one) \in Nat /\ Len(two) \in Nat /\ Len(all) = Len(one) + Len(two)
      /\ \A i \in 1..Len(one) : all[i] = one[i]
      /\ \A i \in 1..Len(two) : all[Len(one) + i] = two[i]
  OBVIOUS
<1> HIDE DEF all
<1> SUFFICES ASSUME NEW j \in 1..Len(all), all[j] = step
             PROVE  AppliedBefore(all, patch, j)
  BY DEF all, Closed
<1>2. CASE j \in 1..Len(one)
  <2>1. AppliedBefore(one, patch, j)
    BY <1>1, <1>2 DEF Closed
  <2>2. \A i \in 1..(j - 1) : all[i] = one[i]
    BY <1>1, <1>2
  <2>3. PICK i \in 1..(j - 1) : one[i] = patch /\ \A h \in (i + 1)..(j - 1) : ~Undoes(one[h], patch)
    BY <2>1 DEF AppliedBefore
  <2>4. all[i] = patch /\ \A h \in (i + 1)..(j - 1) : ~Undoes(all[h], patch)
    BY <2>2, <2>3
  <2> QED
    BY <2>3, <2>4 DEF AppliedBefore
<1>3. CASE j \notin 1..Len(one)
  <2> DEFINE k == j - Len(one)
  <2>1. k \in 1..Len(two) /\ j = Len(one) + k
    BY <1>1, <1>3
  <2> HIDE DEF k
  <2>2. two[k] = step
    BY <1>1, <2>1
  <2>3. AppliedBefore(two, patch, k)
    BY <2>1, <2>2 DEF Closed
  <2>4. PICK i \in 1..(k - 1) :
          two[i] = patch /\ \A h \in (i + 1)..(k - 1) : ~Undoes(two[h], patch)
    BY <2>3 DEF AppliedBefore
  <2>5. Len(one) + i \in 1..(j - 1) /\ all[Len(one) + i] = patch
    BY <1>1, <2>1, <2>4
  <2>6. ASSUME NEW h \in (Len(one) + i + 1)..(j - 1)
        PROVE  ~Undoes(all[h], patch)
    <3>1. h - Len(one) \in (i + 1)..(k - 1) /\ h - Len(one) \in 1..Len(two)
          /\ h = Len(one) + (h - Len(one))
      BY <1>1, <2>1, <2>4
    <3>2. all[h] = two[h - Len(one)]
      BY <1>1, <3>1
    <3> QED
      BY <2>4, <3>1, <3>2
  <2> QED
    BY <2>5, <2>6 DEF AppliedBefore
<1> QED
  BY <1>2, <1>3

\* Two plans in a row, for every patch of the mode.
LEMMA PlansInARow ==
  ASSUME NEW one \in Seq(Steps), NEW two \in Seq(Steps), NEW mode,
         PlanIsClosed(one, mode), PlanIsClosed(two, mode)
  PROVE  /\ one \o two \in Seq(Steps) /\ PlanIsClosed(one \o two, mode)
         /\ two # <<>> => one \o two # <<>>
<1>1. \A patch, step : Closed(one, patch, step) /\ Closed(two, patch, step) =>
        Closed(one \o two, patch, step)
  BY ClosedInARow
<1>2. PlanIsClosed(one \o two, mode)
  BY <1>1 DEF PlanIsClosed
<1>3. two # <<>> => one \o two # <<>>
  BY ConcatEqualIffEmpty
<1> QED
  BY <1>2, <1>3

----------------------------------------------------------------------------
(* The plans of the drivers, step by step.                                 *)

\* A sequence with elements is not empty.
LEMMA NotEmpty ==
  ASSUME NEW seq, Len(seq) # 0
  PROVE  seq # <<>>
  BY EmptySeq

\* The elements of two sequences in a row.
LEMMA InARow ==
  ASSUME NEW one \in Seq(Steps), NEW two \in Seq(Steps)
  PROVE  /\ one \o two \in Seq(Steps) /\ Len(one \o two) = Len(one) + Len(two)
         /\ \A i \in 1..Len(one) : (one \o two)[i] = one[i]
         /\ \A i \in 1..Len(two) : (one \o two)[Len(one) + i] = two[i]
  OBVIOUS

\* The first five patches.
LEMMA ValidationSteps ==
  <<"rollout_seed", "ray_identity", "worker_cuda">> \o Validation =
    <<"rollout_seed", "ray_identity", "worker_cuda", "exhaustive_validation",
      "validation_sampling">>
<1> DEFINE one == <<"rollout_seed", "ray_identity", "worker_cuda">>
           two == <<"exhaustive_validation", "validation_sampling">>
           all == one \o two
<1>1. /\ one \in Seq(Steps) /\ Len(one) = 3
      /\ one[1] = "rollout_seed" /\ one[2] = "ray_identity" /\ one[3] = "worker_cuda"
  BY DEF Steps, Patches
<1>2. /\ two \in Seq(Steps) /\ Len(two) = 2
      /\ two[1] = "exhaustive_validation" /\ two[2] = "validation_sampling"
  BY DEF Steps, Patches
<1> HIDE DEF one, two
<1>3. /\ all \in Seq(Steps) /\ Len(all) = Len(one) + Len(two)
      /\ \A i \in 1..Len(one) : all[i] = one[i]
      /\ \A i \in 1..Len(two) : all[Len(one) + i] = two[i]
  BY <1>1, <1>2, InARow
<1> HIDE DEF all
<1>4. /\ all[1] = "rollout_seed" /\ all[2] = "ray_identity" /\ all[3] = "worker_cuda"
  BY <1>1, <1>3
<1>5. /\ all[3 + 1] = "exhaustive_validation"
      /\ all[3 + 2] = "validation_sampling"
  BY <1>1, <1>2, <1>3
<1>6. all = <<"rollout_seed", "ray_identity", "worker_cuda", "exhaustive_validation",
              "validation_sampling">>
  BY <1>1, <1>2, <1>3, <1>4, <1>5
<1> QED
  BY <1>6 DEF one, two, all, Validation

\* The patches that every driver applies.
LEMMA CommonSteps ==
  Common =
    <<"rollout_seed", "ray_identity", "worker_cuda", "exhaustive_validation",
      "validation_sampling", "action_protocol", "observation_geometry", "terminal_reward">>
<1> DEFINE one == <<"rollout_seed", "ray_identity", "worker_cuda", "exhaustive_validation",
                    "validation_sampling">>
           two == <<"action_protocol", "observation_geometry", "terminal_reward">>
           all == one \o two
<1>1. /\ one \in Seq(Steps) /\ Len(one) = 5
      /\ one[1] = "rollout_seed" /\ one[2] = "ray_identity" /\ one[3] = "worker_cuda"
      /\ one[4] = "exhaustive_validation" /\ one[5] = "validation_sampling"
  BY DEF Steps, Patches
<1>2. /\ two \in Seq(Steps) /\ Len(two) = 3
      /\ two[1] = "action_protocol" /\ two[2] = "observation_geometry"
      /\ two[3] = "terminal_reward"
  BY DEF Steps, Patches
<1> HIDE DEF one, two
<1>3. /\ all \in Seq(Steps) /\ Len(all) = Len(one) + Len(two)
      /\ \A i \in 1..Len(one) : all[i] = one[i]
      /\ \A i \in 1..Len(two) : all[Len(one) + i] = two[i]
  BY <1>1, <1>2, InARow
<1> HIDE DEF all
<1>4. /\ all[1] = "rollout_seed" /\ all[2] = "ray_identity" /\ all[3] = "worker_cuda"
      /\ all[4] = "exhaustive_validation" /\ all[5] = "validation_sampling"
  BY <1>1, <1>3
<1>5. /\ all[5 + 1] = "action_protocol"
      /\ all[5 + 2] = "observation_geometry"
      /\ all[5 + 3] = "terminal_reward"
  BY <1>1, <1>2, <1>3
<1>6. all = <<"rollout_seed", "ray_identity", "worker_cuda", "exhaustive_validation",
              "validation_sampling", "action_protocol", "observation_geometry",
              "terminal_reward">>
  BY <1>1, <1>2, <1>3, <1>4, <1>5
<1> QED
  BY <1>6, ValidationSteps, Zenon DEF one, two, all, Common

\* The patches of bootstrap and of a specialist start with the timeout.
LEMMA FirstSteps ==
  <<"timeout">> \o Common =
    <<"timeout", "rollout_seed", "ray_identity", "worker_cuda", "exhaustive_validation",
      "validation_sampling", "action_protocol", "observation_geometry", "terminal_reward">>
<1> DEFINE one == <<"timeout">>
           two == <<"rollout_seed", "ray_identity", "worker_cuda", "exhaustive_validation",
                    "validation_sampling", "action_protocol", "observation_geometry",
                    "terminal_reward">>
           all == one \o two
<1>1. /\ one \in Seq(Steps) /\ Len(one) = 1
      /\ one[1] = "timeout"
  BY DEF Steps, Patches
<1>2. /\ two \in Seq(Steps) /\ Len(two) = 8
      /\ two[1] = "rollout_seed" /\ two[2] = "ray_identity" /\ two[3] = "worker_cuda"
      /\ two[4] = "exhaustive_validation" /\ two[5] = "validation_sampling"
      /\ two[6] = "action_protocol" /\ two[7] = "observation_geometry"
      /\ two[8] = "terminal_reward"
  BY DEF Steps, Patches
<1> HIDE DEF one, two
<1>3. /\ all \in Seq(Steps) /\ Len(all) = Len(one) + Len(two)
      /\ \A i \in 1..Len(one) : all[i] = one[i]
      /\ \A i \in 1..Len(two) : all[Len(one) + i] = two[i]
  BY <1>1, <1>2, InARow
<1> HIDE DEF all
<1>4. /\ all[1] = "timeout"
  BY <1>1, <1>3
<1>5. /\ all[1 + 1] = "rollout_seed"
      /\ all[1 + 2] = "ray_identity"
      /\ all[1 + 3] = "worker_cuda"
      /\ all[1 + 4] = "exhaustive_validation"
      /\ all[1 + 5] = "validation_sampling"
      /\ all[1 + 6] = "action_protocol"
      /\ all[1 + 7] = "observation_geometry"
      /\ all[1 + 8] = "terminal_reward"
  BY <1>1, <1>2, <1>3
<1>6. all = <<"timeout", "rollout_seed", "ray_identity", "worker_cuda",
              "exhaustive_validation", "validation_sampling", "action_protocol",
              "observation_geometry", "terminal_reward">>
  BY <1>1, <1>2, <1>3, <1>4, <1>5
<1> QED
  BY <1>6, CommonSteps, Zenon DEF one, two, all

\* train_specialist.sh in answer mode.
LEMMA AnswerSteps ==
  Specialist("answer") =
    <<"timeout", "rollout_seed", "ray_identity", "worker_cuda", "exhaustive_validation",
      "validation_sampling", "action_protocol", "observation_geometry", "terminal_reward",
      "experiment_env", "preflight", "train">>
<1> DEFINE one == <<"timeout", "rollout_seed", "ray_identity", "worker_cuda",
                    "exhaustive_validation", "validation_sampling", "action_protocol",
                    "observation_geometry", "terminal_reward">>
           two == <<"experiment_env", "preflight", "train">>
           all == one \o two
<1>1. /\ one \in Seq(Steps) /\ Len(one) = 9
      /\ one[1] = "timeout" /\ one[2] = "rollout_seed" /\ one[3] = "ray_identity"
      /\ one[4] = "worker_cuda" /\ one[5] = "exhaustive_validation"
      /\ one[6] = "validation_sampling" /\ one[7] = "action_protocol"
      /\ one[8] = "observation_geometry" /\ one[9] = "terminal_reward"
  BY DEF Steps, Patches
<1>2. /\ two \in Seq(Steps) /\ Len(two) = 3
      /\ two[1] = "experiment_env" /\ two[2] = "preflight" /\ two[3] = "train"
  BY DEF Steps, Patches
<1> HIDE DEF one, two
<1>3. /\ all \in Seq(Steps) /\ Len(all) = Len(one) + Len(two)
      /\ \A i \in 1..Len(one) : all[i] = one[i]
      /\ \A i \in 1..Len(two) : all[Len(one) + i] = two[i]
  BY <1>1, <1>2, InARow
<1> HIDE DEF all
<1>4. /\ all[1] = "timeout" /\ all[2] = "rollout_seed" /\ all[3] = "ray_identity"
      /\ all[4] = "worker_cuda" /\ all[5] = "exhaustive_validation"
      /\ all[6] = "validation_sampling" /\ all[7] = "action_protocol"
      /\ all[8] = "observation_geometry" /\ all[9] = "terminal_reward"
  BY <1>1, <1>3
<1>5. /\ all[9 + 1] = "experiment_env"
      /\ all[9 + 2] = "preflight"
      /\ all[9 + 3] = "train"
  BY <1>1, <1>2, <1>3
<1>6. all = <<"timeout", "rollout_seed", "ray_identity", "worker_cuda",
              "exhaustive_validation", "validation_sampling", "action_protocol",
              "observation_geometry", "terminal_reward", "experiment_env", "preflight",
              "train">>
  BY <1>1, <1>2, <1>3, <1>4, <1>5
<1>7. (IF "answer" = "evidence" THEN <<"experiment_env", "terminal_reward", "evidence_reward">>
       ELSE <<>>) = <<>>
  OBVIOUS
<1>8. one \o <<>> = one
  BY <1>1, ConcatEmptySeq
<1>9. Specialist("answer") = (one \o <<>>) \o two
  BY <1>7, FirstSteps, Zenon DEF one, two, Specialist
<1> QED
  BY <1>6, <1>8, <1>9, Zenon DEF all

\* The rewards of evidence mode: the answer-only one first.
LEMMA RewardSteps ==
  (<<"timeout">> \o Common) \o <<"experiment_env", "terminal_reward", "evidence_reward">> =
    <<"timeout", "rollout_seed", "ray_identity", "worker_cuda", "exhaustive_validation",
      "validation_sampling", "action_protocol", "observation_geometry", "terminal_reward",
      "experiment_env", "terminal_reward", "evidence_reward">>
<1> DEFINE one == <<"timeout", "rollout_seed", "ray_identity", "worker_cuda",
                    "exhaustive_validation", "validation_sampling", "action_protocol",
                    "observation_geometry", "terminal_reward">>
           two == <<"experiment_env", "terminal_reward", "evidence_reward">>
           all == one \o two
<1>1. /\ one \in Seq(Steps) /\ Len(one) = 9
      /\ one[1] = "timeout" /\ one[2] = "rollout_seed" /\ one[3] = "ray_identity"
      /\ one[4] = "worker_cuda" /\ one[5] = "exhaustive_validation"
      /\ one[6] = "validation_sampling" /\ one[7] = "action_protocol"
      /\ one[8] = "observation_geometry" /\ one[9] = "terminal_reward"
  BY DEF Steps, Patches
<1>2. /\ two \in Seq(Steps) /\ Len(two) = 3
      /\ two[1] = "experiment_env" /\ two[2] = "terminal_reward"
      /\ two[3] = "evidence_reward"
  BY DEF Steps, Patches
<1> HIDE DEF one, two
<1>3. /\ all \in Seq(Steps) /\ Len(all) = Len(one) + Len(two)
      /\ \A i \in 1..Len(one) : all[i] = one[i]
      /\ \A i \in 1..Len(two) : all[Len(one) + i] = two[i]
  BY <1>1, <1>2, InARow
<1> HIDE DEF all
<1>4. /\ all[1] = "timeout" /\ all[2] = "rollout_seed" /\ all[3] = "ray_identity"
      /\ all[4] = "worker_cuda" /\ all[5] = "exhaustive_validation"
      /\ all[6] = "validation_sampling" /\ all[7] = "action_protocol"
      /\ all[8] = "observation_geometry" /\ all[9] = "terminal_reward"
  BY <1>1, <1>3
<1>5. /\ all[9 + 1] = "experiment_env"
      /\ all[9 + 2] = "terminal_reward"
      /\ all[9 + 3] = "evidence_reward"
  BY <1>1, <1>2, <1>3
<1>6. all = <<"timeout", "rollout_seed", "ray_identity", "worker_cuda",
              "exhaustive_validation", "validation_sampling", "action_protocol",
              "observation_geometry", "terminal_reward", "experiment_env",
              "terminal_reward", "evidence_reward">>
  BY <1>1, <1>2, <1>3, <1>4, <1>5
<1> QED
  BY <1>6, FirstSteps, Zenon DEF one, two, all

\* train_specialist.sh in evidence mode.
LEMMA EvidenceSteps ==
  Specialist("evidence") =
    <<"timeout", "rollout_seed", "ray_identity", "worker_cuda", "exhaustive_validation",
      "validation_sampling", "action_protocol", "observation_geometry", "terminal_reward",
      "experiment_env", "terminal_reward", "evidence_reward", "experiment_env", "preflight",
      "train">>
<1> DEFINE one == <<"timeout", "rollout_seed", "ray_identity", "worker_cuda",
                    "exhaustive_validation", "validation_sampling", "action_protocol",
                    "observation_geometry", "terminal_reward", "experiment_env",
                    "terminal_reward", "evidence_reward">>
           two == <<"experiment_env", "preflight", "train">>
           all == one \o two
<1>1. /\ one \in Seq(Steps) /\ Len(one) = 12
      /\ one[1] = "timeout" /\ one[2] = "rollout_seed" /\ one[3] = "ray_identity"
      /\ one[4] = "worker_cuda" /\ one[5] = "exhaustive_validation"
      /\ one[6] = "validation_sampling" /\ one[7] = "action_protocol"
      /\ one[8] = "observation_geometry" /\ one[9] = "terminal_reward"
      /\ one[10] = "experiment_env" /\ one[11] = "terminal_reward"
      /\ one[12] = "evidence_reward"
  BY DEF Steps, Patches
<1>2. /\ two \in Seq(Steps) /\ Len(two) = 3
      /\ two[1] = "experiment_env" /\ two[2] = "preflight" /\ two[3] = "train"
  BY DEF Steps, Patches
<1> HIDE DEF one, two
<1>3. /\ all \in Seq(Steps) /\ Len(all) = Len(one) + Len(two)
      /\ \A i \in 1..Len(one) : all[i] = one[i]
      /\ \A i \in 1..Len(two) : all[Len(one) + i] = two[i]
  BY <1>1, <1>2, InARow
<1> HIDE DEF all
<1>4. /\ all[1] = "timeout" /\ all[2] = "rollout_seed" /\ all[3] = "ray_identity"
      /\ all[4] = "worker_cuda" /\ all[5] = "exhaustive_validation"
      /\ all[6] = "validation_sampling" /\ all[7] = "action_protocol"
      /\ all[8] = "observation_geometry" /\ all[9] = "terminal_reward"
      /\ all[10] = "experiment_env" /\ all[11] = "terminal_reward"
      /\ all[12] = "evidence_reward"
  BY <1>1, <1>3
<1>5. /\ all[12 + 1] = "experiment_env"
      /\ all[12 + 2] = "preflight"
      /\ all[12 + 3] = "train"
  BY <1>1, <1>2, <1>3
<1>6. all = <<"timeout", "rollout_seed", "ray_identity", "worker_cuda",
              "exhaustive_validation", "validation_sampling", "action_protocol",
              "observation_geometry", "terminal_reward", "experiment_env",
              "terminal_reward", "evidence_reward", "experiment_env", "preflight", "train">>
  BY <1>1, <1>2, <1>3, <1>4, <1>5
<1>7. Specialist("evidence") = one \o two
  BY RewardSteps, Zenon DEF one, two, Specialist
<1> QED
  BY <1>6, <1>7, Zenon DEF all

\* train_mixed_policy.sh once its setup is ready.
LEMMA MixedSteps ==
  Common \o <<"experiment_env", "mixed_routing", "mixed_metadata", "train">> =
    <<"rollout_seed", "ray_identity", "worker_cuda", "exhaustive_validation",
      "validation_sampling", "action_protocol", "observation_geometry", "terminal_reward",
      "experiment_env", "mixed_routing", "mixed_metadata", "train">>
<1> DEFINE one == <<"rollout_seed", "ray_identity", "worker_cuda", "exhaustive_validation",
                    "validation_sampling", "action_protocol", "observation_geometry",
                    "terminal_reward">>
           two == <<"experiment_env", "mixed_routing", "mixed_metadata", "train">>
           all == one \o two
<1>1. /\ one \in Seq(Steps) /\ Len(one) = 8
      /\ one[1] = "rollout_seed" /\ one[2] = "ray_identity" /\ one[3] = "worker_cuda"
      /\ one[4] = "exhaustive_validation" /\ one[5] = "validation_sampling"
      /\ one[6] = "action_protocol" /\ one[7] = "observation_geometry"
      /\ one[8] = "terminal_reward"
  BY DEF Steps, Patches
<1>2. /\ two \in Seq(Steps) /\ Len(two) = 4
      /\ two[1] = "experiment_env" /\ two[2] = "mixed_routing" /\ two[3] = "mixed_metadata"
      /\ two[4] = "train"
  BY DEF Steps, Patches
<1> HIDE DEF one, two
<1>3. /\ all \in Seq(Steps) /\ Len(all) = Len(one) + Len(two)
      /\ \A i \in 1..Len(one) : all[i] = one[i]
      /\ \A i \in 1..Len(two) : all[Len(one) + i] = two[i]
  BY <1>1, <1>2, InARow
<1> HIDE DEF all
<1>4. /\ all[1] = "rollout_seed" /\ all[2] = "ray_identity" /\ all[3] = "worker_cuda"
      /\ all[4] = "exhaustive_validation" /\ all[5] = "validation_sampling"
      /\ all[6] = "action_protocol" /\ all[7] = "observation_geometry"
      /\ all[8] = "terminal_reward"
  BY <1>1, <1>3
<1>5. /\ all[8 + 1] = "experiment_env"
      /\ all[8 + 2] = "mixed_routing"
      /\ all[8 + 3] = "mixed_metadata"
      /\ all[8 + 4] = "train"
  BY <1>1, <1>2, <1>3
<1>6. all = <<"rollout_seed", "ray_identity", "worker_cuda", "exhaustive_validation",
              "validation_sampling", "action_protocol", "observation_geometry",
              "terminal_reward", "experiment_env", "mixed_routing", "mixed_metadata",
              "train">>
  BY <1>1, <1>2, <1>3, <1>4, <1>5
<1> QED
  BY <1>6, CommonSteps, Zenon DEF one, two, all

----------------------------------------------------------------------------
(* The plans of the drivers are closed.                                    *)

\* The common patches apply the action protocol before the geometry.
LEMMA CommonIsClosed ==
  ASSUME NEW mode
  PROVE  Common \in Seq(Steps) /\ PlanIsClosed(Common, mode)
<1> DEFINE w == <<"rollout_seed", "ray_identity", "worker_cuda", "exhaustive_validation",
                  "validation_sampling", "action_protocol", "observation_geometry",
                  "terminal_reward">>
<1>1. /\ w \in Seq(Steps) /\ Len(w) = 8
      /\ w[1] = "rollout_seed" /\ w[2] = "ray_identity" /\ w[3] = "worker_cuda"
      /\ w[4] = "exhaustive_validation" /\ w[5] = "validation_sampling"
      /\ w[6] = "action_protocol" /\ w[7] = "observation_geometry"
      /\ w[8] = "terminal_reward"
  BY DEF Steps, Patches
<1> HIDE DEF w
<1>2. \A j \in 1..Len(w) : j = 1 \/ j = 2 \/ j = 3 \/ j = 4 \/ j = 5 \/ j = 6 \/ j = 7
                          \/ j = 8
  BY <1>1
<1>3. \A step \in {"preflight", "train", "evidence_reward"} : \A patch : Closed(w, patch, step)
  BY <1>1, <1>2 DEF Closed
<1>4. \A j \in 1..Len(w) : w[j] = "observation_geometry" => j = 7
  BY <1>1, <1>2
<1>5. AppliedBefore(w, "action_protocol", 7)
  BY <1>1 DEF AppliedBefore
<1>6. Closed(w, "action_protocol", "observation_geometry")
  BY <1>4, <1>5 DEF Closed
<1>7. PlanIsClosed(w, mode)
  BY <1>3, <1>6 DEF PlanIsClosed
<1> QED
  BY <1>1, <1>7, CommonSteps, Zenon DEF w

\* A step that needs nothing prepared.
LEMMA StepIsClosed ==
  ASSUME NEW mode, NEW step \in {"timeout", "experiment_env", "reset"}
  PROVE  <<step>> \in Seq(Steps) /\ PlanIsClosed(<<step>>, mode)
<1> DEFINE w == <<step>>
<1>1. w \in Seq(Steps) /\ \A j \in 1..Len(w) : w[j] = step
  BY DEF Steps, Patches
<1> HIDE DEF w
<1>2. \A later \in {"preflight", "train", "evidence_reward", "observation_geometry"} : \A patch :
        Closed(w, patch, later)
  BY <1>1 DEF Closed
<1>3. PlanIsClosed(w, mode)
  BY <1>2 DEF PlanIsClosed
<1> QED
  BY <1>1, <1>3, Zenon DEF w

\* bootstrap_searchr1.sh, or no setup at all.
LEMMA BootstrapIsClosed ==
  ASSUME NEW mode
  PROVE  /\ Bootstrap \in Seq(Steps) /\ Bootstrap # <<>> /\ PlanIsClosed(Bootstrap, mode)
         /\ <<>> \in Seq(Steps) /\ PlanIsClosed(<<>>, mode)
<1>1. <<"timeout">> \o Common \in Seq(Steps) /\ PlanIsClosed(<<"timeout">> \o Common, mode)
  BY CommonIsClosed, StepIsClosed, PlansInARow
<1>2. /\ <<"experiment_env">> \in Seq(Steps) /\ PlanIsClosed(<<"experiment_env">>, mode)
      /\ <<"experiment_env">> # <<>>
  BY StepIsClosed
<1>3. LET steps == (<<"timeout">> \o Common) \o <<"experiment_env">>
      IN  steps \in Seq(Steps) /\ steps # <<>> /\ PlanIsClosed(steps, mode)
  BY <1>1, <1>2, PlansInARow
<1>4. Bootstrap \in Seq(Steps) /\ Bootstrap # <<>> /\ PlanIsClosed(Bootstrap, mode)
  BY <1>3, Zenon DEF Bootstrap
<1>5. <<>> \in Seq(Steps) /\ Len(<<>>) = 0
  OBVIOUS
<1>6. \A step, patch : Closed(<<>>, patch, step)
  BY <1>5 DEF Closed
<1> QED
  BY <1>4, <1>5, <1>6 DEF PlanIsClosed

\* A specialist in answer mode applies all that it trains with, ...
LEMMA AnswerIsClosed ==
  ASSUME NEW steps, steps = Specialist("answer")
  PROVE  steps \in Seq(Steps) /\ steps # <<>> /\ PlanIsClosed(steps, "answer")
<1> DEFINE w == <<"timeout", "rollout_seed", "ray_identity", "worker_cuda",
                  "exhaustive_validation", "validation_sampling", "action_protocol",
                  "observation_geometry", "terminal_reward", "experiment_env", "preflight",
                  "train">>
<1>1. /\ w \in Seq(Steps) /\ Len(w) = 12
      /\ w[1] = "timeout" /\ w[2] = "rollout_seed" /\ w[3] = "ray_identity"
      /\ w[4] = "worker_cuda" /\ w[5] = "exhaustive_validation"
      /\ w[6] = "validation_sampling" /\ w[7] = "action_protocol"
      /\ w[8] = "observation_geometry" /\ w[9] = "terminal_reward"
      /\ w[10] = "experiment_env" /\ w[11] = "preflight" /\ w[12] = "train"
  BY DEF Steps, Patches
<1> HIDE DEF w
<1>2. Len(w) = 12
  BY <1>1
<1>3. \A j \in 1..Len(w) : j = 1 \/ j = 2 \/ j = 3 \/ j = 4 \/ j = 5 \/ j = 6 \/ j = 7
                          \/ j = 8 \/ j = 9 \/ j = 10 \/ j = 11 \/ j = 12
  BY <1>2
<1>4. \A j \in 1..Len(w) : w[j] \in {"preflight", "train"} => j \in 11..12
  BY <1>1, <1>3
<1>5. \A j \in 1..Len(w) : w[j] # "reset" /\ w[j] # "evidence_reward"
  BY <1>1, <1>3
<1>6. ASSUME NEW patch \in AskedFor("answer")
      PROVE  \E i \in 1..10 : w[i] = patch /\ \A h \in (i + 1)..12 : ~Undoes(w[h], patch)
  <2>1. \A h \in 1..12 : ~Undoes(w[h], patch)
    BY <1>1, <1>5 DEF Undoes, AskedFor, Patches
  <2>2. \E i \in 1..10 : w[i] = patch
    BY <1>1 DEF AskedFor, Patches
  <2> QED
    BY <2>1, <2>2
<1>7. ASSUME NEW patch \in AskedFor("answer"), NEW step \in {"preflight", "train"}
      PROVE  Closed(w, patch, step)
  <2> SUFFICES ASSUME NEW j \in 1..Len(w), w[j] = step
               PROVE  AppliedBefore(w, patch, j)
    BY DEF Closed
  <2>1. j \in 11..12
    BY <1>4
  <2>2. PICK i \in 1..10 : w[i] = patch /\ \A h \in (i + 1)..12 : ~Undoes(w[h], patch)
    BY <1>6
  <2>3. i \in 1..(j - 1) /\ \A h \in (i + 1)..(j - 1) : h \in (i + 1)..12
    BY <2>1
  <2> QED
    BY <2>2, <2>3 DEF AppliedBefore
<1>8. Closed(w, "action_protocol", "observation_geometry")
  <2>1. \A j \in 1..Len(w) : w[j] = "observation_geometry" => j = 8
    BY <1>1, <1>3
  <2>2. AppliedBefore(w, "action_protocol", 8)
    BY <1>1 DEF AppliedBefore
  <2> QED
    BY <2>1, <2>2 DEF Closed
<1>9. Closed(w, "terminal_reward", "evidence_reward")
  BY <1>5 DEF Closed
<1>10. PlanIsClosed(w, "answer")
  BY <1>7, <1>8, <1>9 DEF PlanIsClosed
<1>11. Len(w) # 0
  BY <1>2
<1>12. w # <<>>
  BY <1>11, NotEmpty, Zenon
<1> QED
  BY <1>1, <1>10, <1>12, AnswerSteps, Zenon DEF w

\* ... one in evidence mode too, its reward after the one it replaces, ...
LEMMA EvidenceIsClosed ==
  ASSUME NEW steps, steps = Specialist("evidence")
  PROVE  steps \in Seq(Steps) /\ steps # <<>> /\ PlanIsClosed(steps, "evidence")
<1> DEFINE w == <<"timeout", "rollout_seed", "ray_identity", "worker_cuda",
                  "exhaustive_validation", "validation_sampling", "action_protocol",
                  "observation_geometry", "terminal_reward", "experiment_env",
                  "terminal_reward", "evidence_reward", "experiment_env", "preflight",
                  "train">>
<1>1. /\ w \in Seq(Steps) /\ Len(w) = 15
      /\ w[1] = "timeout" /\ w[2] = "rollout_seed" /\ w[3] = "ray_identity"
      /\ w[4] = "worker_cuda" /\ w[5] = "exhaustive_validation"
      /\ w[6] = "validation_sampling" /\ w[7] = "action_protocol"
      /\ w[8] = "observation_geometry" /\ w[9] = "terminal_reward"
      /\ w[10] = "experiment_env" /\ w[11] = "terminal_reward" /\ w[12] = "evidence_reward"
      /\ w[13] = "experiment_env" /\ w[14] = "preflight" /\ w[15] = "train"
  BY DEF Steps, Patches
<1> HIDE DEF w
<1>2. Len(w) = 15
  BY <1>1
<1>3. \A j \in 1..Len(w) : j = 1 \/ j = 2 \/ j = 3 \/ j = 4 \/ j = 5 \/ j = 6 \/ j = 7
                          \/ j = 8 \/ j = 9 \/ j = 10 \/ j = 11 \/ j = 12 \/ j = 13
                          \/ j = 14 \/ j = 15
  BY <1>2
<1>4. \A j \in 1..Len(w) : w[j] \in {"preflight", "train"} => j \in 14..15
  BY <1>1, <1>3
<1>5. \A j \in 1..Len(w) : w[j] # "reset"
  BY <1>1, <1>3
<1>6. ASSUME NEW patch \in AskedFor("evidence")
      PROVE  \E i \in 1..13 : w[i] = patch /\ \A h \in (i + 1)..15 : ~Undoes(w[h], patch)
  <2>1. CASE patch # "evidence_reward"
    <3>1. \A h \in 1..15 : ~Undoes(w[h], patch)
      BY <1>1, <1>5, <2>1 DEF Undoes, AskedFor, Patches
    <3>2. \E i \in 1..13 : w[i] = patch
      BY <1>1, <2>1 DEF AskedFor, Patches
    <3> QED
      BY <3>1, <3>2
  <2>2. CASE patch = "evidence_reward"
    <3>1. \A h \in 13..15 : w[h] # "reset" /\ w[h] # "terminal_reward"
      BY <1>1, <1>3
    <3>2. \A h \in 13..15 : ~Undoes(w[h], patch)
      BY <3>1, <2>2 DEF Undoes
    <3>3. 12 \in 1..13 /\ w[12] = patch /\ 12 + 1 = 13
      BY <1>1, <2>2
    <3> QED
      BY <3>2, <3>3
  <2> QED
    BY <2>1, <2>2
<1>7. ASSUME NEW patch \in AskedFor("evidence"), NEW step \in {"preflight", "train"}
      PROVE  Closed(w, patch, step)
  <2> SUFFICES ASSUME NEW j \in 1..Len(w), w[j] = step
               PROVE  AppliedBefore(w, patch, j)
    BY DEF Closed
  <2>1. j \in 14..15
    BY <1>4
  <2>2. PICK i \in 1..13 : w[i] = patch /\ \A h \in (i + 1)..15 : ~Undoes(w[h], patch)
    BY <1>6
  <2>3. i \in 1..(j - 1) /\ \A h \in (i + 1)..(j - 1) : h \in (i + 1)..15
    BY <2>1
  <2> QED
    BY <2>2, <2>3 DEF AppliedBefore
<1>8. Closed(w, "action_protocol", "observation_geometry")
  <2>1. \A j \in 1..Len(w) : w[j] = "observation_geometry" => j = 8
    BY <1>1, <1>3
  <2>2. AppliedBefore(w, "action_protocol", 8)
    BY <1>1 DEF AppliedBefore
  <2> QED
    BY <2>1, <2>2 DEF Closed
<1>9. Closed(w, "terminal_reward", "evidence_reward")
  <2>1. \A j \in 1..Len(w) : w[j] = "evidence_reward" => j = 12
    BY <1>1, <1>3
  <2>2. AppliedBefore(w, "terminal_reward", 12)
    BY <1>1 DEF AppliedBefore
  <2> QED
    BY <2>1, <2>2 DEF Closed
<1>10. PlanIsClosed(w, "evidence")
  BY <1>7, <1>8, <1>9 DEF PlanIsClosed
<1>11. Len(w) # 0
  BY <1>2
<1>12. w # <<>>
  BY <1>11, NotEmpty, Zenon
<1> QED
  BY <1>1, <1>10, <1>12, EvidenceSteps, Zenon DEF w

\* ... and the mixed driver.
LEMMA MixedIsClosed ==
  ASSUME NEW steps,
         steps = Common \o <<"experiment_env", "mixed_routing", "mixed_metadata", "train">>
  PROVE  steps \in Seq(Steps) /\ steps # <<>> /\ PlanIsClosed(steps, "mixed")
<1> DEFINE w == <<"rollout_seed", "ray_identity", "worker_cuda", "exhaustive_validation",
                  "validation_sampling", "action_protocol", "observation_geometry",
                  "terminal_reward", "experiment_env", "mixed_routing", "mixed_metadata",
                  "train">>
<1>1. /\ w \in Seq(Steps) /\ Len(w) = 12
      /\ w[1] = "rollout_seed" /\ w[2] = "ray_identity" /\ w[3] = "worker_cuda"
      /\ w[4] = "exhaustive_validation" /\ w[5] = "validation_sampling"
      /\ w[6] = "action_protocol" /\ w[7] = "observation_geometry"
      /\ w[8] = "terminal_reward" /\ w[9] = "experiment_env" /\ w[10] = "mixed_routing"
      /\ w[11] = "mixed_metadata" /\ w[12] = "train"
  BY DEF Steps, Patches
<1> HIDE DEF w
<1>2. \A j \in 1..Len(w) : j = 1 \/ j = 2 \/ j = 3 \/ j = 4 \/ j = 5 \/ j = 6 \/ j = 7
                          \/ j = 8 \/ j = 9 \/ j = 10 \/ j = 11 \/ j = 12
  BY <1>1
<1>3. \A j \in 1..Len(w) : w[j] \in {"preflight", "train"} => j \in 12..12
  BY <1>1, <1>2, SMTT(30)
<1>4. \A j \in 1..Len(w) : w[j] # "reset" /\ w[j] # "evidence_reward"
  BY <1>1, <1>2
<1>5. ASSUME NEW patch \in AskedFor("mixed")
      PROVE  \E i \in 1..11 : w[i] = patch /\ \A h \in (i + 1)..12 : ~Undoes(w[h], patch)
  <2>1. \A h \in 1..12 : ~Undoes(w[h], patch)
    BY <1>1, <1>4 DEF Undoes, AskedFor, Patches
  <2>2. \E i \in 1..11 : w[i] = patch
    BY <1>1 DEF AskedFor, Patches
  <2> QED
    BY <2>1, <2>2
<1>6. ASSUME NEW patch \in AskedFor("mixed"), NEW step \in {"preflight", "train"}
      PROVE  Closed(w, patch, step)
  <2> SUFFICES ASSUME NEW j \in 1..Len(w), w[j] = step
               PROVE  AppliedBefore(w, patch, j)
    BY DEF Closed
  <2>1. j \in 12..12
    BY <1>3
  <2>2. PICK i \in 1..11 : w[i] = patch /\ \A h \in (i + 1)..12 : ~Undoes(w[h], patch)
    BY <1>5
  <2>3. i \in 1..(j - 1) /\ \A h \in (i + 1)..(j - 1) : h \in (i + 1)..12
    BY <2>1
  <2> QED
    BY <2>2, <2>3 DEF AppliedBefore
<1>7. Closed(w, "action_protocol", "observation_geometry")
  <2>1. \A j \in 1..Len(w) : w[j] = "observation_geometry" => j = 7
    BY <1>1, <1>2
  <2>2. AppliedBefore(w, "action_protocol", 7)
    BY <1>1 DEF AppliedBefore
  <2> QED
    BY <2>1, <2>2 DEF Closed
<1>8. Closed(w, "terminal_reward", "evidence_reward")
  BY <1>4 DEF Closed
<1>9. PlanIsClosed(w, "mixed")
  BY <1>6, <1>7, <1>8 DEF PlanIsClosed
<1>10. Len(w) # 0
  BY <1>1
<1>11. w # <<>>
  BY <1>10, NotEmpty, Zenon
<1> QED
  BY <1>1, <1>9, <1>11, MixedSteps, Zenon DEF w

\* The setup, which a ready one skips.
LEMMA StartIsClosed ==
  ASSUME NEW mode, NEW ready \in BOOLEAN, NEW steps, steps = (IF ready THEN <<>> ELSE Bootstrap)
  PROVE  steps \in Seq(Steps) /\ PlanIsClosed(steps, mode)
  BY BootstrapIsClosed

\* The mixed driver with its setup.
LEMMA MixedRunIsClosed ==
  ASSUME NEW ready \in BOOLEAN
  PROVE  Mixed(ready) \in Seq(Steps) /\ Mixed(ready) # <<>> /\ PlanIsClosed(Mixed(ready), "mixed")
<1> DEFINE start == IF ready THEN <<>> ELSE Bootstrap
           rest == <<"experiment_env", "mixed_routing", "mixed_metadata", "train">>
<1>1. start \in Seq(Steps) /\ PlanIsClosed(start, "mixed")
  BY StartIsClosed
<1>2. Common \in Seq(Steps)
  BY CommonIsClosed
<1>3. rest \in Seq(Steps)
  BY DEF Steps, Patches
<1>4. /\ Common \o rest \in Seq(Steps) /\ Common \o rest # <<>>
      /\ PlanIsClosed(Common \o rest, "mixed")
  BY MixedIsClosed
<1>5. Mixed(ready) = (start \o Common) \o rest
  BY Zenon DEF Mixed
<1> HIDE DEF start, rest
<1>6. (start \o Common) \o rest = start \o (Common \o rest)
  BY <1>1, <1>2, <1>3, ConcatAssociative
<1>7. /\ start \o (Common \o rest) \in Seq(Steps) /\ start \o (Common \o rest) # <<>>
      /\ PlanIsClosed(start \o (Common \o rest), "mixed")
  BY <1>1, <1>4, PlansInARow
<1> QED
  BY <1>5, <1>6, <1>7, Zenon

\* An experiment applies everything after its own reset.
LEMMA ExperimentIsClosed ==
  ASSUME NEW mode \in {"mixed", "evidence"}, NEW ready \in BOOLEAN, NEW steps,
         steps = Experiment(mode, ready)
  PROVE  steps \in Seq(Steps) /\ steps # <<>> /\ PlanIsClosed(steps, mode)
<1> DEFINE start == IF ready THEN <<>> ELSE Bootstrap
           run == IF mode = "evidence" THEN <<"timeout">> \o Specialist(mode) ELSE Mixed(ready)
<1>1. start \in Seq(Steps) /\ PlanIsClosed(start, mode)
  BY StartIsClosed
<1>2. <<"reset">> \in Seq(Steps) /\ PlanIsClosed(<<"reset">>, mode)
  BY StepIsClosed
<1>3. run \in Seq(Steps) /\ run # <<>> /\ PlanIsClosed(run, mode)
  <2>1. CASE mode = "evidence"
    <3>1. /\ Specialist("evidence") \in Seq(Steps) /\ Specialist("evidence") # <<>>
          /\ PlanIsClosed(Specialist("evidence"), "evidence")
      BY EvidenceIsClosed
    <3>2. <<"timeout">> \in Seq(Steps) /\ PlanIsClosed(<<"timeout">>, "evidence")
      BY StepIsClosed
    <3>3. LET all == <<"timeout">> \o Specialist("evidence")
          IN  all \in Seq(Steps) /\ all # <<>> /\ PlanIsClosed(all, "evidence")
      BY <3>1, <3>2, PlansInARow
    <3> QED
      BY <2>1, <3>3, Zenon
  <2>2. CASE mode = "mixed"
    <3>1. run = Mixed(ready)
      BY <2>2
    <3> QED
      BY <2>2, <3>1, MixedRunIsClosed, Zenon
  <2> QED
    BY <2>1, <2>2
<1>4. steps = (start \o <<"reset">>) \o run
  BY Zenon DEF Experiment
<1> HIDE DEF start, run
<1>5. start \o <<"reset">> \in Seq(Steps) /\ PlanIsClosed(start \o <<"reset">>, mode)
  BY <1>1, <1>2, PlansInARow
<1>6. LET all == (start \o <<"reset">>) \o run
      IN  all \in Seq(Steps) /\ all # <<>> /\ PlanIsClosed(all, mode)
  BY <1>3, <1>5, PlansInARow
<1> QED
  BY <1>4, <1>6, Zenon

\* Whatever it finds, a driver applies what its mode asks for before it trains.
LEMMA DriversAreClosed ==
  ASSUME NEW d \in Drivers
  PROVE  /\ d \in [mode : Modes, todo : Seq(Steps)] /\ d.todo # <<>>
         /\ PlanIsClosed(d.todo, d.mode)
<1> DEFINE Plan(mode, todo) ==
      todo \in Seq(Steps) /\ todo # <<>> /\ PlanIsClosed(todo, mode)
<1>1. ASSUME NEW mode \in Modes, NEW todo, Plan(mode, todo), d = [mode |-> mode, todo |-> todo]
      PROVE  /\ d \in [mode : Modes, todo : Seq(Steps)] /\ d.todo # <<>>
             /\ PlanIsClosed(d.todo, d.mode)
  <2>1. d.mode = mode /\ d.todo = todo
    BY <1>1
  <2> QED
    BY <1>1, <2>1
<1>2. CASE d = [mode |-> "none", todo |-> Bootstrap]
  <2>1. "none" \in Modes /\ Plan("none", Bootstrap)
    BY BootstrapIsClosed DEF Modes
  <2> QED
    BY <1>1, <1>2, <2>1
<1>3. CASE \E m \in {"answer", "evidence"} : d = [mode |-> m, todo |-> Specialist(m)]
  <2>1. PICK m \in {"answer", "evidence"} : d = [mode |-> m, todo |-> Specialist(m)]
    BY <1>3
  <2>2. m \in Modes /\ Plan(m, Specialist(m))
    BY AnswerIsClosed, EvidenceIsClosed DEF Modes
  <2> QED
    BY <1>1, <2>1, <2>2
<1>4. CASE \E r \in BOOLEAN : d = [mode |-> "mixed", todo |-> Mixed(r)]
  <2>1. PICK r \in BOOLEAN : d = [mode |-> "mixed", todo |-> Mixed(r)]
    BY <1>4
  <2>2. "mixed" \in Modes /\ Plan("mixed", Mixed(r))
    BY MixedRunIsClosed DEF Modes
  <2> QED
    BY <1>1, <2>1, <2>2
<1>5. CASE \E m \in {"mixed", "evidence"}, r \in BOOLEAN :
              d = [mode |-> m, todo |-> Experiment(m, r)]
  <2>1. PICK m \in {"mixed", "evidence"}, r \in BOOLEAN :
               d = [mode |-> m, todo |-> Experiment(m, r)]
    BY <1>5
  <2>2. m \in Modes /\ Plan(m, Experiment(m, r))
    BY ExperimentIsClosed DEF Modes
  <2> QED
    BY <1>1, <2>1, <2>2
<1>6. \/ d = [mode |-> "none", todo |-> Bootstrap]
      \/ \E m \in {"answer", "evidence"} : d = [mode |-> m, todo |-> Specialist(m)]
      \/ \E r \in BOOLEAN : d = [mode |-> "mixed", todo |-> Mixed(r)]
      \/ \E m \in {"mixed", "evidence"}, r \in BOOLEAN :
           d = [mode |-> m, todo |-> Experiment(m, r)]
  BY DEF Drivers
<1> QED
  BY <1>2, <1>3, <1>4, <1>5, <1>6, Zenon

----------------------------------------------------------------------------
(* What a step makes of the tree.                                          *)

\* A step leaves what its patch is for, and all else that it does not undo.
Applied(step, t, u) ==
  /\ u \in Trees /\ Coherent(u)
  /\ \A patch \in Patches : step = patch => Done(u, patch)
  /\ \A patch \in Patches : Done(t, patch) /\ ~Undoes(step, patch) => Done(u, patch)

\* A write of generation.py that keeps what earlier patches put in.
LEMMA GenerationStep ==
  ASSUME NEW t \in Trees, Coherent(t), NEW g \in Generations, NEW step,
         step \in {"timeout", "validation_sampling", "action_protocol", "observation_geometry",
                   "mixed_routing"},
         g.routing # "none" => g.timeout = "bounded",
         g.routing \in PresentTexts => g.helper # "none",
         t.generation.timeout = "bounded" \/ step = "timeout" => g.timeout = "bounded",
         t.generation.sampling = "kept" \/ step = "validation_sampling" => g.sampling = "kept",
         t.generation.action \in PresentTexts \/ step = "action_protocol" =>
           g.action \in PresentTexts,
         t.generation.geometry = "V1" \/ step = "observation_geometry" => g.geometry = "V1",
         step = "mixed_routing" =>
           g.routing \in PresentTexts /\ g.helper = "package" /\ g.timeout = "bounded",
         t.generation.routing \in PresentTexts => g.routing \in PresentTexts,
         t.generation.helper = "package" => g.helper = "package"
  PROVE  Applied(step, t, [t EXCEPT !["generation"] = g])
<1> DEFINE u == [t EXCEPT !["generation"] = g]
<1>1. /\ u \in Trees /\ u.generation = g /\ u.trainer = t.trainer /\ u.main = t.main
      /\ u.workers = t.workers /\ u.rollout = t.rollout /\ u.ray = t.ray
  BY DEF Trees
<1> HIDE DEF u
<1>2. Coherent(u)
  BY <1>1 DEF Coherent
<1>3. \A patch \in Patches : step = patch => Done(u, patch)
  BY <1>1 DEF Done
<1>4. \A patch \in Patches : Done(t, patch) /\ ~Undoes(step, patch) => Done(u, patch)
  BY <1>1 DEF Done, Patches
<1>5. Applied(step, t, u)
  BY <1>1, <1>2, <1>3, <1>4 DEF Applied
<1> QED
  BY <1>5, Zenon DEF u

\* A write of ray_trainer.py that keeps what earlier patches put in.
LEMMA TrainerStep ==
  ASSUME NEW t \in Trees, Coherent(t), NEW v \in Trainers, NEW step,
         step \in {"exhaustive_validation", "mixed_metadata"},
         t.trainer.validation = "V3" \/ step = "exhaustive_validation" => v.validation = "V3",
         t.trainer.metadata = "V2" \/ step = "mixed_metadata" => v.metadata = "V2"
  PROVE  Applied(step, t, [t EXCEPT !["trainer"] = v])
<1> DEFINE u == [t EXCEPT !["trainer"] = v]
<1>1. /\ u \in Trees /\ u.generation = t.generation /\ u.trainer = v /\ u.main = t.main
      /\ u.workers = t.workers /\ u.rollout = t.rollout /\ u.ray = t.ray
  BY DEF Trees
<1> HIDE DEF u
<1>2. Coherent(u)
  BY <1>1 DEF Coherent
<1>3. \A patch \in Patches : step = patch => Done(u, patch)
  BY <1>1 DEF Done
<1>4. \A patch \in Patches : Done(t, patch) /\ ~Undoes(step, patch) => Done(u, patch)
  BY <1>1 DEF Done, Patches
<1>5. Applied(step, t, u)
  BY <1>1, <1>2, <1>3, <1>4 DEF Applied
<1> QED
  BY <1>5, Zenon DEF u

\* A write of main_ppo.py: the two rewards replace each other.
LEMMA MainStep ==
  ASSUME NEW t \in Trees, Coherent(t), NEW m \in Mains, NEW step,
         step \in {"terminal_reward", "experiment_env", "evidence_reward"},
         m.unicode = (m.evidence # "none" \/ m.score = "evidence_V2"),
         t.main.env \in PresentEnvs \/ step = "experiment_env" => m.env \in PresentEnvs,
         step = "terminal_reward" => m.score = "V2" /\ m.helper = TRUE /\ m.evidence = "none",
         step = "evidence_reward" => m.score = "V2" /\ m.evidence = "V4",
         step \in {"evidence_reward", "experiment_env"} => m.helper = t.main.helper,
         step = "experiment_env" => m.score = t.main.score /\ m.evidence = t.main.evidence,
         step = "evidence_reward" => t.main.helper = TRUE
  PROVE  Applied(step, t, [t EXCEPT !["main"] = m])
<1> DEFINE u == [t EXCEPT !["main"] = m]
<1>1. /\ u \in Trees /\ u.generation = t.generation /\ u.trainer = t.trainer /\ u.main = m
      /\ u.workers = t.workers /\ u.rollout = t.rollout /\ u.ray = t.ray
  BY DEF Trees
<1> HIDE DEF u
<1>2. Coherent(u)
  BY <1>1 DEF Coherent
<1>3. \A patch \in Patches : step = patch => Done(u, patch)
  BY <1>1 DEF Done
<1>4. \A patch \in Patches : Done(t, patch) /\ ~Undoes(step, patch) => Done(u, patch)
  BY <1>1 DEF Done, Undoes, Patches
<1>5. Applied(step, t, u)
  BY <1>1, <1>2, <1>3, <1>4 DEF Applied
<1> QED
  BY <1>5, Zenon DEF u

\* The three files that one script each writes.
LEMMA SmallFileStep ==
  ASSUME NEW t \in Trees, Coherent(t), NEW step, NEW file, NEW text,
         \/ step = "worker_cuda" /\ file = "workers" /\ text = "V3"
         \/ step = "rollout_seed" /\ file = "rollout" /\ text = "V2"
         \/ step = "ray_identity" /\ file = "ray" /\ text = "V1"
  PROVE  Applied(step, t, [t EXCEPT ![file] = text])
<1> DEFINE u == [t EXCEPT ![file] = text]
<1>1. /\ u \in Trees /\ u.generation = t.generation /\ u.trainer = t.trainer /\ u.main = t.main
      /\ u.workers = (IF file = "workers" THEN text ELSE t.workers)
      /\ u.rollout = (IF file = "rollout" THEN text ELSE t.rollout)
      /\ u.ray = (IF file = "ray" THEN text ELSE t.ray)
  BY DEF Trees
<1> HIDE DEF u
<1>2. Coherent(u)
  BY <1>1 DEF Coherent
<1>3. \A patch \in Patches : step = patch => Done(u, patch)
  BY <1>1 DEF Done
<1>4. \A patch \in Patches : Done(t, patch) /\ ~Undoes(step, patch) => Done(u, patch)
  BY <1>1 DEF Done, Patches
<1>5. Applied(step, t, u)
  BY <1>1, <1>2, <1>3, <1>4 DEF Applied
<1> QED
  BY <1>5, Zenon DEF u

\* What the scripts make of their file.
LEMMA TimeoutText ==
  ASSUME NEW t \in Trees, Coherent(t)
  PROVE  /\ Timeout(t.generation) # Refused
         /\ Applied("timeout", t, [t EXCEPT !["generation"] = Timeout(t.generation)])
<1> DEFINE g == Timeout(t.generation)
<1>1. t.generation \in Generations
  BY DEF Trees
<1>2. /\ g \in Generations /\ g.timeout = "bounded"
      /\ g.sampling = t.generation.sampling /\ g.action = t.generation.action
      /\ g.geometry = t.generation.geometry /\ g.routing = t.generation.routing
      /\ g.helper = t.generation.helper
  BY <1>1 DEF Generations, Timeout
<1> HIDE DEF g
<1>3. g # Refused
  BY <1>2, TreeAssumption
<1>4. g.routing \in PresentTexts => g.helper # "none"
  BY <1>2 DEF Coherent
<1>5. Applied("timeout", t, [t EXCEPT !["generation"] = g])
  BY <1>2, <1>4, GenerationStep
<1> QED
  BY <1>3, <1>5, Zenon DEF g

\* Validation sampling applies to every checkout.
LEMMA SamplingText ==
  ASSUME NEW t \in Trees, Coherent(t)
  PROVE  /\ ValidationSampling(t.generation) # Refused
         /\ Applied("validation_sampling", t,
                    [t EXCEPT !["generation"] = ValidationSampling(t.generation)])
<1> DEFINE g == ValidationSampling(t.generation)
<1>1. t.generation \in Generations
  BY DEF Trees
<1>2. /\ g \in Generations /\ g.timeout = t.generation.timeout
      /\ g.sampling = "kept" /\ g.action = t.generation.action
      /\ g.geometry = t.generation.geometry /\ g.routing = t.generation.routing
      /\ g.helper = t.generation.helper
  BY <1>1 DEF Generations, ValidationSampling
<1> HIDE DEF g
<1>3. g # Refused
  BY <1>2, TreeAssumption
<1>4. /\ g.routing # "none" => g.timeout = "bounded"
      /\ g.routing \in PresentTexts => g.helper # "none"
  BY <1>2 DEF Coherent
<1>5. Applied("validation_sampling", t, [t EXCEPT !["generation"] = g])
  BY <1>2, <1>4, GenerationStep
<1> QED
  BY <1>3, <1>5, Zenon DEF g

\* The action protocol applies to every checkout.
LEMMA ActionText ==
  ASSUME NEW t \in Trees, Coherent(t)
  PROVE  /\ ActionProtocol(t.generation) # Refused
         /\ Applied("action_protocol", t,
                    [t EXCEPT !["generation"] = ActionProtocol(t.generation)])
<1> DEFINE g == ActionProtocol(t.generation)
<1>1. t.generation \in Generations
  BY DEF Trees
<1>2. /\ g \in Generations /\ g.timeout = t.generation.timeout
      /\ g.sampling = t.generation.sampling /\ g.action \in PresentTexts
      /\ g.geometry = t.generation.geometry /\ g.routing = t.generation.routing
      /\ g.helper = t.generation.helper
  BY <1>1 DEF Generations, ActionProtocol, Migrated, PresentTexts
<1> HIDE DEF g
<1>3. g # Refused
  BY <1>2, TreeAssumption
<1>4. /\ g.routing # "none" => g.timeout = "bounded"
      /\ g.routing \in PresentTexts => g.helper # "none"
  BY <1>2 DEF Coherent
<1>5. Applied("action_protocol", t, [t EXCEPT !["generation"] = g])
  BY <1>2, <1>4, GenerationStep
<1> QED
  BY <1>3, <1>5, Zenon DEF g

\* The geometry needs the action protocol.
LEMMA GeometryText ==
  ASSUME NEW t \in Trees, Coherent(t), Done(t, "action_protocol")
  PROVE  /\ ObservationGeometry(t.generation) # Refused
         /\ Applied("observation_geometry", t,
                    [t EXCEPT !["generation"] = ObservationGeometry(t.generation)])
<1> DEFINE g == ObservationGeometry(t.generation)
<1>1. t.generation \in Generations /\ t.generation.action \in PresentTexts
  BY DEF Trees, Done
<1>2. /\ g \in Generations /\ g.timeout = t.generation.timeout
      /\ g.sampling = t.generation.sampling /\ g.action \in PresentTexts
      /\ g.geometry = "V1" /\ g.routing = t.generation.routing
      /\ g.helper = t.generation.helper
  BY <1>1 DEF Generations, ObservationGeometry
<1> HIDE DEF g
<1>3. g # Refused
  BY <1>2, TreeAssumption
<1>4. /\ g.routing # "none" => g.timeout = "bounded"
      /\ g.routing \in PresentTexts => g.helper # "none"
  BY <1>2 DEF Coherent
<1>5. Applied("observation_geometry", t, [t EXCEPT !["generation"] = g])
  BY <1>2, <1>4, GenerationStep
<1> QED
  BY <1>3, <1>5, Zenon DEF g

\* Mixed routing applies to every coherent checkout, with the bounded request.
LEMMA RoutingText ==
  ASSUME NEW t \in Trees, Coherent(t)
  PROVE  /\ MixedRouting(t.generation) # Refused
         /\ Applied("mixed_routing", t,
                    [t EXCEPT !["generation"] = MixedRouting(t.generation)])
<1> DEFINE g == MixedRouting(t.generation)
<1>1. /\ t.generation \in Generations
      /\ t.generation.routing # "none" => t.generation.timeout = "bounded"
      /\ t.generation.routing \in PresentTexts => t.generation.helper # "none"
  BY DEF Trees, Coherent
<1>2. /\ g \in Generations /\ g.timeout = "bounded"
      /\ g.sampling = t.generation.sampling /\ g.action = t.generation.action
      /\ g.geometry = t.generation.geometry /\ g.routing \in PresentTexts
      /\ g.helper = "package"
  <2> DEFINE routing == Migrated(t.generation.routing)
             timeout == IF t.generation.routing = "none" THEN "bounded" ELSE t.generation.timeout
  <2>1. t.generation.routing \in {"none", "V1"} \cup PresentTexts
    BY <1>1 DEF Generations
  <2>2. routing \in PresentTexts
    BY <2>1 DEF Migrated, PresentTexts
  <2>3. g = [t.generation EXCEPT !.routing = routing, !.helper = "package", !.timeout = timeout]
    BY <1>1 DEF MixedRouting, Generations
  <2>4. timeout = "bounded"
    BY <1>1
  <2> HIDE DEF routing, timeout, g
  <2> QED
    BY <1>1, <2>2, <2>3, <2>4 DEF Generations
<1> HIDE DEF g
<1>3. g # Refused
  BY <1>2, TreeAssumption
<1>4. Applied("mixed_routing", t, [t EXCEPT !["generation"] = g])
  BY <1>2, GenerationStep
<1> QED
  BY <1>3, <1>4, Zenon DEF g

\* Exhaustive validation applies to every checkout.
LEMMA ValidationText ==
  ASSUME NEW t \in Trees, Coherent(t)
  PROVE  /\ ExhaustiveValidation(t.trainer) # Refused
         /\ Applied("exhaustive_validation", t,
                    [t EXCEPT !["trainer"] = ExhaustiveValidation(t.trainer)])
<1> DEFINE v == ExhaustiveValidation(t.trainer)
<1>1. t.trainer \in Trainers
  BY DEF Trees
<1>2. v \in Trainers /\ v.validation = "V3" /\ v.metadata = t.trainer.metadata
  BY <1>1 DEF Trainers, ExhaustiveValidation
<1> HIDE DEF v
<1>3. v # Refused
  BY <1>2, TreeAssumption
<1>4. Applied("exhaustive_validation", t, [t EXCEPT !["trainer"] = v])
  BY <1>2, TrainerStep
<1> QED
  BY <1>3, <1>4, Zenon DEF v

\* The metadata of mixed validation applies to every checkout.
LEMMA MetadataText ==
  ASSUME NEW t \in Trees, Coherent(t)
  PROVE  /\ MixedMetadata(t.trainer) # Refused
         /\ Applied("mixed_metadata", t, [t EXCEPT !["trainer"] = MixedMetadata(t.trainer)])
<1> DEFINE v == MixedMetadata(t.trainer)
<1>1. t.trainer \in Trainers
  BY DEF Trees
<1>2. v \in Trainers /\ v.validation = t.trainer.validation /\ v.metadata = "V2"
  BY <1>1 DEF Trainers, MixedMetadata
<1> HIDE DEF v
<1>3. v # Refused
  BY <1>2, TreeAssumption
<1>4. Applied("mixed_metadata", t, [t EXCEPT !["trainer"] = v])
  BY <1>2, TrainerStep
<1> QED
  BY <1>3, <1>4, Zenon DEF v

\* The experiment's environment applies to every checkout.
LEMMA EnvText ==
  ASSUME NEW t \in Trees, Coherent(t)
  PROVE  /\ ExperimentEnv(t.main) # Refused
         /\ Applied("experiment_env", t, [t EXCEPT !["main"] = ExperimentEnv(t.main)])
<1> DEFINE m == ExperimentEnv(t.main)
<1>1. t.main \in Mains
  BY DEF Trees
<1>2. /\ m \in Mains /\ m.score = t.main.score /\ m.helper = t.main.helper
      /\ m.evidence = t.main.evidence /\ m.unicode = t.main.unicode
      /\ m.env \in PresentEnvs
  BY <1>1 DEF Mains, ExperimentEnv, PresentEnvs
<1> HIDE DEF m
<1>3. m # Refused
  BY <1>2, TreeAssumption
<1>4. m.unicode = (m.evidence # "none" \/ m.score = "evidence_V2")
  BY <1>2 DEF Coherent
<1>5. Applied("experiment_env", t, [t EXCEPT !["main"] = m])
  BY <1>2, <1>4, MainStep
<1> QED
  BY <1>3, <1>5, Zenon DEF m

\* The answer-only reward takes an evidence reward out.
LEMMA RewardText ==
  ASSUME NEW t \in Trees, Coherent(t)
  PROVE  /\ TerminalReward(t.main) # Refused
         /\ Applied("terminal_reward", t, [t EXCEPT !["main"] = TerminalReward(t.main)])
<1> DEFINE w == WithoutEvidence(t.main)
           m == TerminalReward(t.main)
<1>1. /\ t.main \in Mains
      /\ t.main.unicode = (t.main.evidence # "none" \/ t.main.score = "evidence_V2")
  BY DEF Trees, Coherent
<1>2. /\ w \in Mains /\ w.evidence = "none" /\ w.env = t.main.env
      /\ t.main.score # "evidence_V2" => w.unicode = FALSE
  BY <1>1 DEF Mains, WithoutEvidence
<1>3. m = [w EXCEPT !.score = "V2", !.helper = TRUE,
                    !.unicode = IF t.main.score = "evidence_V2" THEN FALSE ELSE @]
  BY Zenon DEF TerminalReward
<1> HIDE DEF w, m
<1>4. /\ m \in Mains /\ m.score = "V2" /\ m.helper = TRUE /\ m.evidence = "none"
      /\ m.env = t.main.env /\ m.unicode = FALSE
  BY <1>2, <1>3 DEF Mains
<1>5. m # Refused
  BY <1>4, TreeAssumption
<1>6. m.unicode = (m.evidence # "none" \/ m.score = "evidence_V2")
  BY <1>4
<1>7. Applied("terminal_reward", t, [t EXCEPT !["main"] = m])
  BY <1>4, <1>6, MainStep
<1> QED
  BY <1>5, <1>7, Zenon DEF m

\* The evidence reward needs the answer-only one.
LEMMA EvidenceText ==
  ASSUME NEW t \in Trees, Coherent(t), Done(t, "terminal_reward")
  PROVE  /\ EvidenceReward(t.main) # Refused
         /\ Applied("evidence_reward", t, [t EXCEPT !["main"] = EvidenceReward(t.main)])
<1> DEFINE m == EvidenceReward(t.main)
<1>1. t.main \in Mains /\ t.main.score = "V2" /\ t.main.helper = TRUE /\ t.main.evidence = "none"
  BY DEF Trees, Mains, Done
<1>2. /\ m \in Mains /\ m.score = "V2" /\ m.helper = TRUE /\ m.evidence = "V4"
      /\ m.env = t.main.env /\ m.unicode = TRUE
  BY <1>1 DEF Mains, EvidenceReward
<1> HIDE DEF m
<1>3. m # Refused
  BY <1>2, TreeAssumption
<1>4. m.unicode = (m.evidence # "none" \/ m.score = "evidence_V2")
  BY <1>2
<1>5. Applied("evidence_reward", t, [t EXCEPT !["main"] = m])
  BY <1>1, <1>2, <1>4, MainStep
<1> QED
  BY <1>3, <1>5, Zenon DEF m

----------------------------------------------------------------------------
(* The invariant.                                                          *)

\* A driver that has done a step on a tree is sound for the tree it made.
LEMMA AdvancedIsSound ==
  ASSUME CheckoutTypeOK, DriverIsSound, driver # None, NEW u, Applied(Head(driver.todo), tree, u)
  PROVE  Advanced # None =>
           /\ Advanced \in [mode : Modes, todo : Seq(Steps)] /\ Advanced.todo # <<>>
           /\ PlanIsSound(Advanced.todo, Advanced.mode, u)
<1> DEFINE mode == driver.mode
           todo == driver.todo
<1>1. /\ driver \in [mode : Modes, todo : Seq(Steps)] /\ mode \in Modes
      /\ todo \in Seq(Steps) /\ todo # <<>> /\ PlanIsSound(todo, mode, tree)
  BY DEF CheckoutTypeOK, DriverIsSound
<1>2. PlanIsSound(Tail(todo), mode, u)
  BY <1>1, PlanAdvances DEF Applied
<1>3. Tail(todo) \in Seq(Steps)
  BY <1>1
<1>4. CASE Tail(todo) = <<>>
  BY <1>4 DEF Advanced
<1>5. CASE Tail(todo) # <<>>
  <2>1. Advanced = [driver EXCEPT !.todo = Tail(todo)]
    BY <1>5 DEF Advanced
  <2>2. /\ Advanced \in [mode : Modes, todo : Seq(Steps)]
        /\ Advanced.mode = mode /\ Advanced.todo = Tail(todo)
    BY <1>1, <1>3, <2>1
  <2> QED
    BY <1>2, <1>5, <2>2
<1> QED
  BY <1>4, <1>5

\* A step that goes on keeps the invariant.
LEMMA GoesOn ==
  ASSUME CheckoutInv, driver # None, Applied(Head(driver.todo), tree, tree'), driver' = Advanced,
         UNCHANGED <<trainings, refused, used>>
  PROVE  CheckoutInv'
<1>1. /\ CheckoutTypeOK /\ DriverIsSound /\ TreesAreCoherent /\ TrainingsAreDone
      /\ PatchesAcceptTheirOwn
  BY DEF CheckoutInv
<1>2. tree' \in Trees /\ Coherent(tree')
  BY DEF Applied
<1>3. driver' # None =>
        /\ driver' \in [mode : Modes, todo : Seq(Steps)] /\ driver'.todo # <<>>
        /\ PlanIsSound(driver'.todo, driver'.mode, tree')
  BY <1>1, AdvancedIsSound
<1>4. CheckoutTypeOK'
  BY <1>1, <1>2, <1>3 DEF CheckoutTypeOK
<1>5. TreesAreCoherent'
  BY <1>1, <1>2 DEF TreesAreCoherent
<1>6. DriverIsSound'
  BY <1>3 DEF DriverIsSound
<1>7. TrainingsAreDone'
  BY <1>1 DEF TrainingsAreDone
<1>8. PatchesAcceptTheirOwn'
  BY <1>1 DEF PatchesAcceptTheirOwn
<1> QED
  BY <1>4, <1>5, <1>6, <1>7, <1>8 DEF CheckoutInv

\* A write that applies its patch keeps the invariant ...
LEMMA WriteStep ==
  ASSUME CheckoutInv, NEW step, NEW file, NEW text, Write(step, file, text), text # Refused,
         Applied(step, tree, [tree EXCEPT ![file] = text])
  PROVE  CheckoutInv'
<1>1. /\ driver # None /\ Head(driver.todo) = step /\ tree' = [tree EXCEPT ![file] = text]
      /\ driver' = Advanced /\ UNCHANGED <<trainings, refused, used>>
  BY DEF Write, Doing
<1> QED
  BY <1>1, GoesOn

\* What an action finds when the driver comes to its step.
LEMMA FindsPrepared ==
  ASSUME CheckoutInv, NEW step, Doing(step)
  PROVE  /\ tree \in Trees /\ Coherent(tree)
         /\ driver \in [mode : Modes, todo : Seq(Steps)] /\ driver.todo # <<>>
         /\ \A patch : Prepared(driver.todo, tree, patch, step) => Done(tree, patch)
<1>1. /\ tree \in Trees /\ Coherent(tree)
      /\ driver \in [mode : Modes, todo : Seq(Steps)] /\ driver.todo # <<>>
      /\ Head(driver.todo) = step
  BY DEF CheckoutInv, CheckoutTypeOK, TreesAreCoherent, Doing
<1>2. driver.todo \in Seq(Steps)
  BY <1>1
<1> QED
  BY <1>1, <1>2, AtTheHead

\* ... and every script of the running driver does.
LEMMA ApplyStep ==
  ASSUME CheckoutInv, Apply
  PROVE  CheckoutInv'
<1>1. CASE WriteTimeout
  <2>1. Doing("timeout")
    BY <1>1 DEF WriteTimeout, Write
  <2>2. tree \in Trees /\ Coherent(tree)
    BY <2>1, FindsPrepared
  <2> QED
    BY <1>1, <2>2, TimeoutText, WriteStep DEF WriteTimeout
<1>2. CASE WriteRolloutSeed \/ WriteRayIdentity \/ WriteWorkerCuda
  <2>1. tree \in Trees /\ Coherent(tree)
    BY DEF CheckoutInv, CheckoutTypeOK, TreesAreCoherent
  <2>2. "V1" # Refused /\ "V2" # Refused /\ "V3" # Refused
    BY TreeAssumption
  <2> QED
    BY <1>2, <2>1, <2>2, SmallFileStep, WriteStep
    DEF WriteRolloutSeed, WriteRayIdentity, WriteWorkerCuda, RolloutSeed, RayIdentity, WorkerCuda
<1>3. CASE WriteValidation
  <2>1. tree \in Trees /\ Coherent(tree)
    BY DEF CheckoutInv, CheckoutTypeOK, TreesAreCoherent
  <2> QED
    BY <1>3, <2>1, ValidationText, WriteStep DEF WriteValidation
<1>4. CASE WriteSampling
  <2>1. tree \in Trees /\ Coherent(tree)
    BY DEF CheckoutInv, CheckoutTypeOK, TreesAreCoherent
  <2> QED
    BY <1>4, <2>1, SamplingText, WriteStep DEF WriteSampling
<1>5. CASE WriteAction
  <2>1. tree \in Trees /\ Coherent(tree)
    BY DEF CheckoutInv, CheckoutTypeOK, TreesAreCoherent
  <2> QED
    BY <1>5, <2>1, ActionText, WriteStep DEF WriteAction
<1>6. CASE WriteGeometry
  <2>1. Doing("observation_geometry")
    BY <1>6 DEF WriteGeometry, Write
  <2>2. Prepared(driver.todo, tree, "action_protocol", "observation_geometry")
    BY <2>1 DEF CheckoutInv, DriverIsSound, PlanIsSound, Doing
  <2>3. tree \in Trees /\ Coherent(tree) /\ Done(tree, "action_protocol")
    BY <2>1, <2>2, FindsPrepared
  <2> QED
    BY <1>6, <2>3, GeometryText, WriteStep DEF WriteGeometry
<1>7. CASE WriteReward
  <2>1. tree \in Trees /\ Coherent(tree)
    BY DEF CheckoutInv, CheckoutTypeOK, TreesAreCoherent
  <2> QED
    BY <1>7, <2>1, RewardText, WriteStep DEF WriteReward
<1>8. CASE WriteEnv
  <2>1. tree \in Trees /\ Coherent(tree)
    BY DEF CheckoutInv, CheckoutTypeOK, TreesAreCoherent
  <2> QED
    BY <1>8, <2>1, EnvText, WriteStep DEF WriteEnv
<1>9. CASE WriteEvidence
  <2>1. Doing("evidence_reward")
    BY <1>9 DEF WriteEvidence, Write
  <2>2. Prepared(driver.todo, tree, "terminal_reward", "evidence_reward")
    BY <2>1 DEF CheckoutInv, DriverIsSound, PlanIsSound, Doing
  <2>3. tree \in Trees /\ Coherent(tree) /\ Done(tree, "terminal_reward")
    BY <2>1, <2>2, FindsPrepared
  <2> QED
    BY <1>9, <2>3, EvidenceText, WriteStep DEF WriteEvidence
<1>10. CASE WriteRouting
  <2>1. tree \in Trees /\ Coherent(tree)
    BY DEF CheckoutInv, CheckoutTypeOK, TreesAreCoherent
  <2> QED
    BY <1>10, <2>1, RoutingText, WriteStep DEF WriteRouting
<1>11. CASE WriteMetadata
  <2>1. tree \in Trees /\ Coherent(tree)
    BY DEF CheckoutInv, CheckoutTypeOK, TreesAreCoherent
  <2> QED
    BY <1>11, <2>1, MetadataText, WriteStep DEF WriteMetadata
<1> QED
  BY <1>1, <1>2, <1>3, <1>4, <1>5, <1>6, <1>7, <1>8, <1>9, <1>10, <1>11 DEF Apply

\* The driver is gone and the tree as it was, or sound for it.
LEMMA DriverEnds ==
  ASSUME CheckoutInv, driver' = None, refused' \in {None, "reset"}, UNCHANGED <<tree, trainings>>
  PROVE  CheckoutInv'
<1>1. CheckoutTypeOK' /\ TreesAreCoherent' /\ TrainingsAreDone'
  BY DEF CheckoutInv, CheckoutTypeOK, TreesAreCoherent, TrainingsAreDone
<1>2. DriverIsSound' /\ PatchesAcceptTheirOwn'
  BY DEF DriverIsSound, PatchesAcceptTheirOwn
<1> QED
  BY <1>1, <1>2 DEF CheckoutInv

\* The checkout as pinned.
LEMMA PinnedIsCoherent == Pinned \in Trees /\ Coherent(Pinned)
  BY DEF Pinned, Trees, Generations, Trainers, Mains, Coherent, PresentTexts

\* The reset of an experiment restores or refuses.
LEMMA ResetStep ==
  ASSUME CheckoutInv, Reset
  PROVE  CheckoutInv'
<1>1. CASE Modified \subseteq KnownFiles
  <2>1. /\ driver # None /\ Head(driver.todo) = "reset" /\ driver' = Advanced
        /\ tree' = [f \in DOMAIN tree |-> IF f \in KnownFiles THEN Pinned[f] ELSE tree[f]]
        /\ UNCHANGED <<trainings, refused, used>>
    BY <1>1 DEF Reset, Doing
  <2>2. tree \in Trees
    BY DEF CheckoutInv, CheckoutTypeOK
  <2>3. /\ tree' \in Trees /\ tree'.generation = Pinned.generation
        /\ tree'.main = Pinned.main
    BY <2>1, <2>2, PinnedIsCoherent DEF KnownFiles, Trees
  <2>4. Coherent(tree')
    BY <2>3, PinnedIsCoherent DEF Coherent
  <2>5. \A patch \in Patches : "reset" # patch /\ Undoes("reset", patch)
    BY DEF Patches, Undoes
  <2>6. Applied(Head(driver.todo), tree, tree')
    BY <2>1, <2>3, <2>4, <2>5 DEF Applied
  <2> QED
    BY <2>1, <2>6, GoesOn
<1>2. CASE ~(Modified \subseteq KnownFiles)
  <2>1. driver' = None /\ refused' = "reset" /\ UNCHANGED <<tree, trainings>>
    BY <1>2 DEF Reset, Stop
  <2> QED
    BY <2>1, DriverEnds
<1> QED
  BY <1>1, <1>2

\* The tree that a driver checks or trains on has all that its mode asks for.
LEMMA AskedIsDone ==
  ASSUME CheckoutInv, NEW step \in {"preflight", "train"}, Doing(step)
  PROVE  \A patch \in AskedFor(driver.mode) : Done(tree, patch)
<1>1. \A patch \in AskedFor(driver.mode) : Prepared(driver.todo, tree, patch, step)
  BY DEF CheckoutInv, DriverIsSound, PlanIsSound, Doing
<1> QED
  BY <1>1, FindsPrepared

\* A step that is no patch and leaves the tree alone undoes nothing.
LEMMA LeavesTree ==
  ASSUME CheckoutInv, NEW step \in {"preflight", "train"}
  PROVE  Applied(step, tree, tree)
<1>1. step \notin Patches
  BY DEF Patches
<1>2. tree \in Trees /\ Coherent(tree)
  BY DEF CheckoutInv, CheckoutTypeOK, TreesAreCoherent
<1> QED
  BY <1>1, <1>2 DEF Applied

\* The preflight of a prepared checkout passes.
LEMMA PreflightStep ==
  ASSUME CheckoutInv, Preflight
  PROVE  CheckoutInv'
<1>1. Doing("preflight")
  BY DEF Preflight
<1>2. \A patch \in AskedFor(driver.mode) : Done(tree, patch)
  BY <1>1, AskedIsDone
<1>3. /\ \A patch \in {"action_protocol", "observation_geometry", "validation_sampling",
                       "exhaustive_validation"} : Done(tree, patch)
      /\ Done(tree, "timeout") \/ Done(tree, "mixed_routing")
      /\ Done(tree, "terminal_reward") \/ Done(tree, "evidence_reward")
  BY <1>2 DEF AskedFor, Patches
<1>4. ReadyToTrain
  BY <1>3 DEF Done, ReadyToTrain
<1>5. driver' = Advanced /\ UNCHANGED <<tree, trainings, refused, used>>
  BY <1>4 DEF Preflight
<1>6. driver # None /\ Head(driver.todo) = "preflight"
  BY <1>1 DEF Doing
<1>7. Applied(Head(driver.todo), tree, tree')
  BY <1>5, <1>6, LeavesTree
<1> QED
  BY <1>5, <1>6, <1>7, GoesOn

\* A training records the checkout that its plan has prepared.
LEMMA TrainStep ==
  ASSUME CheckoutInv, Train
  PROVE  CheckoutInv'
<1> DEFINE new == [mode |-> driver.mode, tree |-> tree]
<1>1. /\ Doing("train") /\ driver' = Advanced /\ UNCHANGED <<tree, refused, used>>
      /\ trainings' = trainings \cup {new}
  BY DEF Train
<1>2. \A patch \in AskedFor(driver.mode) : Done(tree, patch)
  BY <1>1, AskedIsDone
<1>3. driver # None /\ Head(driver.todo) = "train"
  BY <1>1 DEF Doing
<1>4. /\ CheckoutTypeOK /\ DriverIsSound /\ TreesAreCoherent /\ TrainingsAreDone
      /\ PatchesAcceptTheirOwn
  BY DEF CheckoutInv
<1>5. driver' # None =>
        /\ driver' \in [mode : Modes, todo : Seq(Steps)] /\ driver'.todo # <<>>
        /\ PlanIsSound(driver'.todo, driver'.mode, tree')
  BY <1>1, <1>3, <1>4, LeavesTree, AdvancedIsSound
<1>6. new \in [mode : Modes, tree : Trees] /\ new.mode = driver.mode /\ new.tree = tree
  BY <1>3, <1>4 DEF CheckoutTypeOK
<1> HIDE DEF new
<1>7. CheckoutTypeOK'
  BY <1>1, <1>4, <1>5, <1>6 DEF CheckoutTypeOK
<1>8. TreesAreCoherent'
  BY <1>1, <1>4, <1>6 DEF TreesAreCoherent
<1>9. DriverIsSound'
  BY <1>5 DEF DriverIsSound
<1>10. TrainingsAreDone'
  BY <1>1, <1>2, <1>4, <1>6 DEF TrainingsAreDone
<1>11. PatchesAcceptTheirOwn'
  BY <1>1, <1>4 DEF PatchesAcceptTheirOwn
<1> QED
  BY <1>7, <1>8, <1>9, <1>10, <1>11 DEF CheckoutInv

\* A driver starts with a plan that prepares everything itself.
LEMMA StartStep ==
  ASSUME CheckoutInv, NEW d \in Drivers, Start(d)
  PROVE  CheckoutInv'
<1>1. /\ driver' = d /\ refused' = None /\ UNCHANGED <<tree, trainings>>
  BY DEF Start
<1>2. /\ d \in [mode : Modes, todo : Seq(Steps)] /\ d.todo # <<>>
      /\ PlanIsClosed(d.todo, d.mode)
  BY DriversAreClosed
<1>3. PlanIsSound(d.todo, d.mode, tree)
  BY <1>2, ClosedIsSound
<1>4. CheckoutTypeOK'
  BY <1>1, <1>2 DEF CheckoutInv, CheckoutTypeOK
<1>5. TreesAreCoherent' /\ TrainingsAreDone'
  BY <1>1 DEF CheckoutInv, TreesAreCoherent, TrainingsAreDone
<1>6. DriverIsSound' /\ PatchesAcceptTheirOwn'
  BY <1>1, <1>3 DEF DriverIsSound, PatchesAcceptTheirOwn
<1> QED
  BY <1>4, <1>5, <1>6 DEF CheckoutInv

\* A kill leaves the checkout between two writes.
LEMMA KillStep ==
  ASSUME CheckoutInv, Kill
  PROVE  CheckoutInv'
<1>1. refused \in {None, "reset"}
  BY DEF CheckoutInv, PatchesAcceptTheirOwn
<1>2. driver' = None /\ refused' \in {None, "reset"} /\ UNCHANGED <<tree, trainings>>
  BY <1>1 DEF Kill
<1> QED
  BY <1>2, DriverEnds

\* A new clone is as pinned.
LEMMA RecloneStep ==
  ASSUME CheckoutInv, Reclone
  PROVE  CheckoutInv'
<1>1. driver = None /\ tree' = Pinned /\ UNCHANGED <<driver, trainings, refused, used>>
  BY DEF Reclone
<1>2. CheckoutTypeOK'
  BY <1>1, PinnedIsCoherent DEF CheckoutInv, CheckoutTypeOK
<1>3. TreesAreCoherent'
  BY <1>1, PinnedIsCoherent DEF CheckoutInv, TreesAreCoherent
<1>4. TrainingsAreDone'
  BY <1>1 DEF CheckoutInv, TrainingsAreDone
<1>5. DriverIsSound' /\ PatchesAcceptTheirOwn'
  BY <1>1 DEF CheckoutInv, DriverIsSound, PatchesAcceptTheirOwn
<1> QED
  BY <1>2, <1>3, <1>4, <1>5 DEF CheckoutInv

\* Before the first driver.
LEMMA PinnedIsSound == Init => CheckoutInv
<1> SUFFICES ASSUME Init PROVE CheckoutInv
  OBVIOUS
<1>1. tree \in Trees /\ Coherent(tree)
  BY PinnedIsCoherent, TreeAssumption DEF Init
<1>2. driver = None /\ trainings = {} /\ refused = None
  BY DEF Init
<1> QED
  BY <1>1, <1>2
  DEF CheckoutInv, CheckoutTypeOK, TreesAreCoherent, DriverIsSound, TrainingsAreDone,
      PatchesAcceptTheirOwn

\* Every step keeps the invariant.
LEMMA CheckoutStaysSound == CheckoutInv /\ [Next]_vars => CheckoutInv'
<1> SUFFICES ASSUME CheckoutInv, [Next]_vars PROVE CheckoutInv'
  OBVIOUS
<1>1. ASSUME NEW d \in Drivers, Start(d) PROVE CheckoutInv'
  BY <1>1, StartStep
<1>2. CASE Apply
  BY <1>2, ApplyStep
<1>3. CASE Reset
  BY <1>3, ResetStep
<1>4. CASE Preflight
  BY <1>4, PreflightStep
<1>5. CASE Train
  BY <1>5, TrainStep
<1>6. CASE Kill
  BY <1>6, KillStep
<1>7. CASE Reclone
  BY <1>7, RecloneStep
<1>8. CASE UNCHANGED vars
  BY <1>8
  DEF vars, CheckoutInv, CheckoutTypeOK, TreesAreCoherent, DriverIsSound, TrainingsAreDone,
      PatchesAcceptTheirOwn
<1> QED
  BY <1>1, <1>2, <1>3, <1>4, <1>5, <1>6, <1>7, <1>8 DEF Next

\* The invariant of the checkout holds in every state.
THEOREM CheckoutInvariance == Spec => []CheckoutInv
<1> QED
  BY PinnedIsSound, CheckoutStaysSound, PTL DEF Spec

\* The invariant has every training as its mode asks.
LEMMA DoneIsAsAsked == CheckoutInv => TrainsAsAsked
<1> SUFFICES ASSUME CheckoutInv, NEW t \in trainings
             PROVE  /\ t.tree.main.score = "V2" /\ t.tree.main.helper
                    /\ t.tree.main.evidence = (IF t.mode = "evidence" THEN "V4" ELSE "none")
                    /\ t.tree.generation.timeout = "bounded"
                    /\ t.tree.generation.sampling = "kept"
                    /\ t.tree.generation.action \in PresentTexts
                    /\ t.tree.generation.geometry = "V1"
                    /\ t.tree.trainer.validation = "V3"
                    /\ t.tree.main.env \in PresentEnvs
                    /\ <<t.tree.workers, t.tree.rollout, t.tree.ray>> = <<"V3", "V2", "V1">>
                    /\ t.mode = "mixed" =>
                         /\ t.tree.generation.routing \in PresentTexts
                         /\ t.tree.generation.helper = "package"
                         /\ t.tree.trainer.metadata = "V2"
  BY DEF TrainsAsAsked, RewardIsTheModes, TrainsWhole
<1>1. \A patch \in AskedFor(t.mode) : Done(t.tree, patch)
  BY DEF CheckoutInv, TrainingsAreDone
<1>2. t.tree \in Trees
  BY DEF CheckoutInv, CheckoutTypeOK
<1>3. /\ \A patch \in Patches \ {"timeout", "terminal_reward", "evidence_reward",
                                 "mixed_routing", "mixed_metadata"} : Done(t.tree, patch)
      /\ IF t.mode = "mixed"
         THEN Done(t.tree, "mixed_routing") /\ Done(t.tree, "mixed_metadata")
         ELSE Done(t.tree, "timeout")
      /\ IF t.mode = "evidence"
         THEN Done(t.tree, "evidence_reward") ELSE Done(t.tree, "terminal_reward")
  BY <1>1 DEF AskedFor
<1>4. /\ Done(t.tree, "rollout_seed") /\ Done(t.tree, "ray_identity")
      /\ Done(t.tree, "worker_cuda") /\ Done(t.tree, "exhaustive_validation")
      /\ Done(t.tree, "validation_sampling") /\ Done(t.tree, "action_protocol")
      /\ Done(t.tree, "observation_geometry") /\ Done(t.tree, "experiment_env")
  BY <1>3 DEF Patches
<1>5. /\ t.tree.main.score = "V2" /\ t.tree.main.helper
      /\ t.tree.main.evidence = (IF t.mode = "evidence" THEN "V4" ELSE "none")
  BY <1>3 DEF Done
<1>6. /\ t.tree.generation.timeout = "bounded" /\ t.tree.generation.sampling = "kept"
      /\ t.tree.generation.action \in PresentTexts /\ t.tree.generation.geometry = "V1"
  BY <1>3, <1>4 DEF Done
<1>7. /\ t.tree.trainer.validation = "V3" /\ t.tree.main.env \in PresentEnvs
      /\ t.tree.workers = "V3" /\ t.tree.rollout = "V2" /\ t.tree.ray = "V1"
  BY <1>4 DEF Done
<1>8. t.mode = "mixed" => /\ t.tree.generation.routing \in PresentTexts
                          /\ t.tree.generation.helper = "package"
                          /\ t.tree.trainer.metadata = "V2"
  BY <1>3 DEF Done
<1> QED
  BY <1>5, <1>6, <1>7, <1>8

\* A training runs on the whole checkout that its mode asks for, whatever
\* earlier drivers, kills and older versions left in it (the mixed driver of
\* train_mixed_policy.sh has no preflight that would notice).
THEOREM TrainingsAreAsAsked == Spec => []TrainsAsAsked
  BY DoneIsAsAsked, CheckoutInvariance, PTL

\* No script and no preflight refuses what the scripts and their older versions
\* have left; only the reset of an experiment may.
THEOREM PatchesAreAccepted == Spec => []PatchesAcceptTheirOwn
<1>1. CheckoutInv => PatchesAcceptTheirOwn
  BY DEF CheckoutInv
<1> QED
  BY <1>1, CheckoutInvariance, PTL

\* The texts that a training signature fingerprints follow from the mode, from
\* what mixed routing has left in them and from which texts of older versions
\* the scripts kept, alone: not from the order or number of the scripts' runs.
THEOREM FingerprintStaysStable == Spec => []FingerprintIsStable
<1>1. CheckoutInv => FingerprintIsStable
  <2> SUFFICES ASSUME CheckoutInv, NEW s \in trainings, NEW t \in trainings, s.mode = t.mode,
                      Routed(s) = Routed(t), Inherited(s) = Inherited(t)
               PROVE  s.tree = t.tree
    BY DEF FingerprintIsStable
  <2>1. /\ s.tree \in Trees /\ Coherent(s.tree)
        /\ t.tree \in Trees /\ Coherent(t.tree)
    BY DEF CheckoutInv, CheckoutTypeOK, TreesAreCoherent
  <2>2. /\ RewardIsTheModes
        /\ TrainsWhole
    BY DoneIsAsAsked DEF TrainsAsAsked
  <2>3. s.tree.generation = t.tree.generation
    <3> DEFINE g == s.tree.generation
               h == t.tree.generation
    <3>1. g \in Generations /\ h \in Generations
      BY <2>1 DEF Trees
    <3>2. /\ g.timeout = h.timeout /\ g.sampling = h.sampling /\ g.geometry = h.geometry
      BY <2>2 DEF TrainsWhole
    <3>3. g.routing = h.routing /\ g.helper = h.helper
      BY DEF Routed
    <3>4. g.action = h.action
      BY DEF Inherited
    <3> HIDE DEF g, h
    <3>5. /\ g = [timeout |-> g.timeout, sampling |-> g.sampling, action |-> g.action,
                  geometry |-> g.geometry, routing |-> g.routing, helper |-> g.helper]
          /\ h = [timeout |-> h.timeout, sampling |-> h.sampling, action |-> h.action,
                  geometry |-> h.geometry, routing |-> h.routing, helper |-> h.helper]
      BY <3>1 DEF Generations
    <3>6. g = h
      BY <3>2, <3>3, <3>4, <3>5, Zenon
    <3> QED
      BY <3>6, Zenon DEF g, h
  <2>4. s.tree.trainer = t.tree.trainer
    <3>1. s.tree.trainer \in Trainers /\ t.tree.trainer \in Trainers
      BY <2>1 DEF Trees
    <3>2. s.tree.trainer.validation = "V3" /\ t.tree.trainer.validation = "V3"
      BY <2>2, Zenon DEF TrainsWhole
    <3>3. s.tree.trainer.metadata = t.tree.trainer.metadata
      BY DEF Routed
    <3> QED
      BY <3>1, <3>2, <3>3 DEF Trainers
  <2>5. s.tree.main = t.tree.main
    <3> DEFINE m == s.tree.main
               n == t.tree.main
    <3>1. m \in Mains /\ n \in Mains
      BY <2>1 DEF Trees
    <3>2. /\ m.unicode = (m.evidence # "none" \/ m.score = "evidence_V2")
          /\ n.unicode = (n.evidence # "none" \/ n.score = "evidence_V2")
      BY <2>1 DEF Coherent
    <3>3. m.score = "V2" /\ m.helper /\ n.score = "V2" /\ n.helper
      BY <2>2, Zenon DEF RewardIsTheModes
    <3>4. m.evidence = n.evidence
      BY <2>2, Zenon DEF RewardIsTheModes
    <3>5. m.env = n.env
      BY DEF Inherited
    <3> HIDE DEF m, n
    <3>6. m.helper = TRUE /\ n.helper = TRUE /\ m.unicode = n.unicode
      BY <3>1, <3>2, <3>3, <3>4 DEF Mains
    <3>7. /\ m = [score |-> m.score, helper |-> m.helper, evidence |-> m.evidence,
                  unicode |-> m.unicode, env |-> m.env]
          /\ n = [score |-> n.score, helper |-> n.helper, evidence |-> n.evidence,
                  unicode |-> n.unicode, env |-> n.env]
      BY <3>1 DEF Mains
    <3>8. m.score = n.score /\ m.helper = n.helper /\ m.env = n.env
      BY <3>3, <3>5, <3>6, Zenon
    <3>9. m = n
      BY <3>4, <3>6, <3>7, <3>8, Zenon
    <3> QED
      BY <3>9, Zenon DEF m, n
  <2>6. /\ s.tree.workers = t.tree.workers /\ s.tree.rollout = t.tree.rollout
        /\ s.tree.ray = t.tree.ray
    <3>1. /\ <<s.tree.workers, s.tree.rollout, s.tree.ray>> = <<"V3", "V2", "V1">>
          /\ <<t.tree.workers, t.tree.rollout, t.tree.ray>> = <<"V3", "V2", "V1">>
      BY <2>2, Zenon DEF TrainsWhole
    <3> QED
      BY <3>1
  <2> QED
    BY <2>1, <2>3, <2>4, <2>5, <2>6 DEF Trees
<1> QED
  BY <1>1, CheckoutInvariance, PTL

----------------------------------------------------------------------------
(***************************************************************************)
(* Part II: the rollout                                                    *)
(***************************************************************************)

(***************************************************************************)
(* Lists                                                                   *)
(***************************************************************************)

\* What Python holds in a list, whatever its elements.
IsList(s) == s \in Seq(Range(s))

\* A sequence over any set is a list of its own values.
LEMMA ListOf ==
  ASSUME NEW S, NEW s \in Seq(S)
  PROVE  /\ IsList(s) /\ Len(s) \in Nat /\ DOMAIN s = 1..Len(s)
         /\ \A i \in 1..Len(s): s[i] \in S
  BY DEF IsList, Range

\* A list is a function on the first numbers.
LEMMA ListIs ==
  ASSUME NEW s, IsList(s)
  PROVE  Len(s) \in Nat /\ DOMAIN s = 1..Len(s)
  BY DEF IsList

\* A function on an initial segment of the numbers is a list.
LEMMA SegmentIsList ==
  ASSUME NEW n \in Nat, NEW s, DOMAIN s = 1..n, s = [i \in 1..n |-> s[i]]
  PROVE  IsList(s) /\ Len(s) = n
<1>1. s \in [1..n -> Range(s)]
  BY DEF Range
<1> QED
  BY <1>1 DEF IsList

(***************************************************************************)
(* Induction along the numbers, for a set of them.                         *)
(***************************************************************************)
LEMMA Least ==
  ASSUME NEW S \in SUBSET Nat, S # {}
  PROVE  \E n \in S: \A m \in S: n <= m
<1>1. PICK n \in S: \A m \in S: ~(<<m, n>> \in OpToRel(<, Nat))
  BY NatLessThanWellFounded, WFMin
<1>2. \A m \in S: ~(m < n)
  BY <1>1 DEF OpToRel
<1> QED
  BY <1>2

\* What passes from each place to the next, and holds at the first, holds at all.
LEMMA Along ==
  ASSUME NEW m \in Nat, NEW S,
         \A i \in 1..m: (i = 1 \/ i - 1 \in S) => i \in S
  PROVE  1..m \subseteq S
<1> DEFINE Bad == {i \in 1..m: i \notin S}
<1>1. SUFFICES ASSUME Bad # {} PROVE FALSE
  OBVIOUS
<1>2. PICK i \in Bad: \A k \in Bad: i <= k
  <2>1. Bad \in SUBSET Nat
    OBVIOUS
  <2> QED
    BY <1>1, <2>1, Least
<1>3. i # 1 => i - 1 \in 1..m /\ i - 1 \notin Bad
  BY <1>2
<1> QED
  BY <1>2, <1>3

\* The greatest element of a set of numbers that are not above one of them.
LEMMA MaxIs ==
  ASSUME NEW m \in Nat, NEW S \in SUBSET (1..m), m \in S
  PROVE  Max(S) = m
<1>1. \A y \in S: m >= y
  OBVIOUS
<1>2. Max(S) \in S /\ \A y \in S: Max(S) >= y
  <2>1. \E x \in S: \A y \in S: x >= y
    BY <1>1
  <2> QED
    BY <2>1 DEF Max
<1>3. PICK x: x = Max(S)
  OBVIOUS
<1>4. x \in 1..m /\ x >= m
  BY <1>2, <1>3
<1> QED
  BY <1>3, <1>4

\* The same, from nothing looked at to all of it.
LEMMA Upward ==
  ASSUME NEW m \in Nat, NEW S, 0 \in S, \A i \in 1..m: i - 1 \in S => i \in S
  PROVE  0..m \subseteq S
<1>1. \A i \in 1..m: (i = 1 \/ i - 1 \in S) => i \in S
  OBVIOUS
<1>2. 1..m \subseteq S
  BY <1>1, Along
<1>3. ASSUME NEW i \in 0..m PROVE i \in S
  <2>1. i = 0 \/ i \in 1..m
    OBVIOUS
  <2> QED
    BY <1>2, <2>1
<1> QED
  BY <1>3

Joins(f, s, n) == f = [i \in 1..n |-> IF i = 1 THEN s[i] ELSE f[i - 1] \o s[i]]

\* The partial joins that FlattenSeq picks do exist: nothing is chosen from nothing.
LEMMA JoinExists ==
  ASSUME NEW s, NEW n \in Nat
  PROVE  \E f: Joins(f, s, n)
<1> DEFINE Bad == {m \in Nat: ~\E f: Joins(f, s, m)}
<1>1. SUFFICES ASSUME Bad # {} PROVE FALSE
  OBVIOUS
<1>2. PICK m \in Bad: \A k \in Bad: m <= k
  <2>1. Bad \in SUBSET Nat
    OBVIOUS
  <2> QED
    BY <1>1, <2>1, Least
<1>3. CASE m = 0
  <2> DEFINE f == [i \in 1..0 |-> s[i]]
  <2>1. Joins(f, s, 0)
    BY DEF Joins
  <2> QED
    BY <1>2, <1>3, <2>1
<1>4. CASE m # 0
  <2>1. m \in Nat /\ m - 1 \in Nat /\ m - 1 \notin Bad
    BY <1>2, <1>4
  <2>2. PICK f: Joins(f, s, m - 1)
    BY <2>1
  <2> DEFINE g == [i \in 1..m |-> IF i < m THEN f[i]
                                  ELSE IF m = 1 THEN s[1] ELSE f[m - 1] \o s[m]]
  <2>3. \A i \in 1..m: g[i] = IF i = 1 THEN s[i] ELSE g[i - 1] \o s[i]
    <3>1. TAKE i \in 1..m
    <3>2. CASE i < m
      <4>1. i \in 1..(m - 1) /\ g[i] = f[i]
        BY <2>1, <3>1, <3>2
      <4>2. f[i] = IF i = 1 THEN s[i] ELSE f[i - 1] \o s[i]
        BY <2>2, <4>1 DEF Joins
      <4>3. i # 1 => g[i - 1] = f[i - 1]
        BY <2>1, <3>1, <3>2
      <4> QED
        BY <4>1, <4>2, <4>3
    <3>3. CASE i = m
      <4>1. m # 1 => g[m - 1] = f[m - 1]
        BY <2>1
      <4> QED
        BY <2>1, <3>3, <4>1
    <3> QED
      BY <2>1, <3>1, <3>2, <3>3
  <2>4. g = [i \in 1..m |-> IF i = 1 THEN s[i] ELSE g[i - 1] \o s[i]]
    BY <2>3
  <2>5. Joins(g, s, m)
    BY <2>4 DEF Joins
  <2> QED
    BY <1>2, <2>5
<1> QED
  BY <1>3, <1>4

IsJoin(w, a, b) == w = a \o b

\* Two lists put together: where the values of each stand in the whole.
LEMMA JoinedIs ==
  ASSUME NEW w, NEW a, NEW b, IsJoin(w, a, b), IsList(a), IsList(b)
  PROVE  /\ IsList(w) /\ Len(a) \in Nat /\ Len(b) \in Nat
         /\ Len(w) = Len(a) + Len(b) /\ DOMAIN w = 1..(Len(a) + Len(b))
         /\ \A i \in DOMAIN a: i \in DOMAIN w /\ w[i] = a[i]
         /\ \A i \in DOMAIN b: Len(a) + i \in DOMAIN w /\ w[Len(a) + i] = b[i]
         /\ \A i \in DOMAIN w: i \in DOMAIN a \/ (i - Len(a) \in DOMAIN b /\ w[i] = b[i - Len(a)])
<1> DEFINE S == Range(a) \cup Range(b)
<1>1. a \in Seq(S) /\ b \in Seq(S)
  BY DEF IsList
<1> HIDE DEF S
<1>2. w \in Seq(S) /\ Len(w) = Len(a) + Len(b)
      /\ Len(a) \in Nat /\ Len(b) \in Nat /\ DOMAIN a = 1..Len(a) /\ DOMAIN b = 1..Len(b)
  BY <1>1 DEF IsJoin
<1>3. IsList(w) /\ DOMAIN w = 1..(Len(a) + Len(b))
  BY <1>2, ListOf
<1>4. \A i \in DOMAIN a: i \in DOMAIN w /\ w[i] = a[i]
  BY <1>1, <1>2, <1>3 DEF IsJoin
<1>5. \A i \in DOMAIN b: Len(a) + i \in DOMAIN w /\ w[Len(a) + i] = b[i]
  BY <1>1, <1>2, <1>3 DEF IsJoin
<1>6. \A i \in DOMAIN w: i \in DOMAIN a \/ (i - Len(a) \in DOMAIN b /\ w[i] = b[i - Len(a)])
  BY <1>1, <1>2, <1>3 DEF IsJoin
<1> QED
  BY <1>2, <1>3, <1>4, <1>5, <1>6

\* A loop that extends one list: what it has after each part.
LEMMA FlatIs ==
  ASSUME NEW s, IsList(s), Len(s) # 0, \A i \in DOMAIN s: IsList(s[i])
  PROVE  \E f: /\ FlattenSeq(s) = f[Len(s)] /\ f[1] = s[1]
               /\ \A i \in 1..Len(s): IsList(f[i])
               /\ \A i \in 1..Len(s): i # 1 => IsJoin(f[i], f[i - 1], s[i])
<1> DEFINE n == Len(s)
           f == CHOOSE f: Joins(f, s, n)
           Listed == {i \in 1..n: IsList(f[i])}
<1>1. n \in Nat /\ DOMAIN s = 1..n /\ 1 \in 1..n
  BY ListIs
<1>2. FlattenSeq(s) = f[n]
  BY DEF FlattenSeq, Joins
<1>3. Joins(f, s, n)
  BY <1>1, JoinExists
<1> HIDE DEF f
<1>4. f[1] = s[1] /\ \A i \in 1..n: i # 1 => IsJoin(f[i], f[i - 1], s[i])
  BY <1>1, <1>3 DEF Joins, IsJoin
<1>5. ASSUME NEW i \in 1..n, i = 1 \/ i - 1 \in Listed PROVE IsList(f[i])
  <2>1. CASE i = 1
    BY <1>1, <1>4, <2>1
  <2>2. CASE i # 1
    <3>1. IsList(f[i - 1]) /\ IsList(s[i]) /\ IsJoin(f[i], f[i - 1], s[i])
      BY <1>1, <1>4, <1>5, <2>2
    <3> QED
      BY <3>1, JoinedIs
  <2> QED
    BY <2>1, <2>2
<1>6. \A i \in 1..n: IsList(f[i])
  <2>1. \A i \in 1..n: (i = 1 \/ i - 1 \in Listed) => i \in Listed
    BY <1>5
  <2>2. 1..n \subseteq Listed
    BY <1>1, <2>1, Along
  <2> QED
    BY <2>2
<1> QED
  BY <1>2, <1>4, <1>6

Episodes(g, s, All, b, turns) ==
  g = [S \in SUBSET All |->
         IF S = {} THEN NewEpisode ELSE Step(g[S \ {Max(S)}], b, turns, s[Max(S)])]

\* The partial episodes that RunEpisode picks do exist.
LEMMA EpisodesExist ==
  ASSUME NEW s, NEW b, NEW turns, NEW n \in Nat
  PROVE  \E g: Episodes(g, s, 1..n, b, turns)
<1> DEFINE E(m) == \E g: Episodes(g, s, 1..m, b, turns)
           Made == {m \in Nat: E(m)}
<1>1. E(0)
  <2> DEFINE g == [S \in SUBSET (1..0) |-> NewEpisode]
  <2>1. \A S \in SUBSET (1..0): S = {}
    OBVIOUS
  <2>2. Episodes(g, s, 1..0, b, turns)
    BY <2>1 DEF Episodes
  <2> QED
    BY <2>2
<1>2. ASSUME NEW m \in 1..n, m - 1 \in Made PROVE E(m)
  <2>1. PICK f: Episodes(f, s, 1..(m - 1), b, turns)
    BY <1>2
  <2> DEFINE g == [S \in SUBSET (1..m) |->
                     IF m \in S THEN Step(f[S \ {m}], b, turns, s[m]) ELSE f[S]]
  <2>2. \A S \in SUBSET (1..m): g[S] =
           IF S = {} THEN NewEpisode ELSE Step(g[S \ {Max(S)}], b, turns, s[Max(S)])
    <3>1. TAKE S \in SUBSET (1..m)
    <3>2. CASE m \in S
      <4>1. Max(S) = m
        BY <3>2, MaxIs
      <4>2. S \ {m} \in SUBSET (1..m) /\ m \notin S \ {m}
        OBVIOUS
      <4>3. g[S \ {m}] = f[S \ {m}] /\ g[S] = Step(f[S \ {m}], b, turns, s[m])
        BY <3>2, <4>2
      <4> QED
        BY <3>2, <4>1, <4>3
    <3>3. CASE m \notin S
      <4>1. S \in SUBSET (1..(m - 1)) /\ S \ {Max(S)} \in SUBSET (1..m) /\ m \notin S \ {Max(S)}
        <5>1. \A i \in S: i \in 1..(m - 1)
          <6>1. \A i \in S: i \in 1..m /\ i # m
            BY <3>3
          <6> QED
            BY <6>1
        <5>2. S \ {Max(S)} \subseteq S
          OBVIOUS
        <5> QED
          BY <3>3, <5>1, <5>2
      <4>2. f[S] = IF S = {} THEN NewEpisode ELSE Step(f[S \ {Max(S)}], b, turns, s[Max(S)])
        BY <2>1, <4>1 DEF Episodes
      <4>3. g[S] = f[S] /\ g[S \ {Max(S)}] = f[S \ {Max(S)}]
        BY <3>3, <4>1
      <4> QED
        BY <4>2, <4>3
    <3> QED
      BY <3>2, <3>3
  <2>3. Episodes(g, s, 1..m, b, turns)
    BY <2>2 DEF Episodes
  <2> QED
    BY <2>3
<1> HIDE DEF E
<1>3. 0 \in Made /\ \A i \in 1..n: i - 1 \in Made => i \in Made
  BY <1>1, <1>2
<1>4. 0..n \subseteq Made
  BY <1>3, Upward
<1> QED
  BY <1>4 DEF E

IsRun(e, b, turns, s) == e = RunEpisode(b, turns, s)

\* The episode after each text.
Unfolds(h, e, b, turns, s, n) ==
  /\ e = h[n] /\ h[0] = NewEpisode
  /\ \A i \in 1..n: h[i] = Step(h[i - 1], b, turns, s[i])

\* run_episode, a loop: the episode after each text.
LEMMA EpisodesAre ==
  ASSUME NEW s, NEW b, NEW turns, NEW n \in Nat, DOMAIN s = 1..n,
         NEW e, IsRun(e, b, turns, s)
  PROVE  \E h: Unfolds(h, e, b, turns, s, n)
<1> DEFINE g == CHOOSE g: Episodes(g, s, 1..n, b, turns)
           h == [i \in 0..n |-> g[1..i]]
<1>1. e = g[1..n]
  BY DEF IsRun, RunEpisode, FoldLeft, MapThenFoldSet, Episodes
<1>2. Episodes(g, s, 1..n, b, turns)
  BY EpisodesExist
<1> HIDE DEF g
<1>3. h[n] = g[1..n] /\ h[0] = NewEpisode
  <2>1. 1..0 = {} /\ {} \in SUBSET (1..n)
    OBVIOUS
  <2>2. g[{}] = NewEpisode
    BY <1>2, <2>1 DEF Episodes
  <2> QED
    BY <2>1, <2>2
<1>4. ASSUME NEW i \in 1..n PROVE h[i] = Step(h[i - 1], b, turns, s[i])
  <2>1. 1..i \in SUBSET (1..n) /\ i \in 1..i /\ 1..i # {} /\ (1..i) \ {i} = 1..(i - 1)
    <3>1. i \in Nat /\ i >= 1 /\ i <= n
      OBVIOUS
    <3>2. \A x: x \in 1..i => x \in 1..n
      BY <3>1
    <3>3. \A x: (x \in 1..i /\ x # i) <=> x \in 1..(i - 1)
      BY <3>1
    <3> QED
      BY <3>1, <3>2, <3>3
  <2>2. Max(1..i) = i
    BY <2>1, MaxIs
  <2>3. g[1..i] = Step(g[(1..i) \ {Max(1..i)}], b, turns, s[Max(1..i)])
    BY <1>2, <2>1 DEF Episodes
  <2>4. g[1..i] = Step(g[1..(i - 1)], b, turns, s[i])
    BY <2>1, <2>2, <2>3
  <2> QED
    BY <2>4
<1> HIDE DEF h
<1>5. Unfolds(h, e, b, turns, s, n)
  BY <1>1, <1>3, <1>4 DEF Unfolds
<1> QED
  BY <1>5

TokenSums(g, s, All) ==
  g = [S \in SUBSET All |->
         IF S = {} THEN 1 ELSE g[S \ {Max(S)}] + Header(s[Max(S)]) + s[Max(S)].text]

\* The partial sums of tokens do exist.
LEMMA TokensExist ==
  ASSUME NEW s,  NEW n \in Nat
  PROVE  \E g: TokenSums(g, s, 1..n)
<1> DEFINE E(m) == \E g: TokenSums(g, s, 1..m)
           Made == {m \in Nat: E(m)}
<1>1. E(0)
  <2> DEFINE g == [S \in SUBSET (1..0) |-> 1]
  <2>1. \A S \in SUBSET (1..0): S = {}
    OBVIOUS
  <2>2. TokenSums(g, s, 1..0)
    BY <2>1 DEF TokenSums
  <2> QED
    BY <2>2
<1>2. ASSUME NEW m \in 1..n, m - 1 \in Made PROVE E(m)
  <2>1. PICK f: TokenSums(f, s, 1..(m - 1))
    BY <1>2
  <2> DEFINE g == [S \in SUBSET (1..m) |->
                     IF m \in S THEN f[S \ {m}] + Header(s[m]) + s[m].text ELSE f[S]]
  <2>2. \A S \in SUBSET (1..m): g[S] =
           IF S = {} THEN 1 ELSE g[S \ {Max(S)}] + Header(s[Max(S)]) + s[Max(S)].text
    <3>1. TAKE S \in SUBSET (1..m)
    <3>2. CASE m \in S
      <4>1. Max(S) = m
        BY <3>2, MaxIs
      <4>2. S \ {m} \in SUBSET (1..m) /\ m \notin S \ {m}
        OBVIOUS
      <4>3. g[S \ {m}] = f[S \ {m}] /\ g[S] = f[S \ {m}] + Header(s[m]) + s[m].text
        BY <3>2, <4>2
      <4> QED
        BY <3>2, <4>1, <4>3
    <3>3. CASE m \notin S
      <4>1. S \in SUBSET (1..(m - 1)) /\ S \ {Max(S)} \in SUBSET (1..m) /\ m \notin S \ {Max(S)}
        <5>1. \A i \in S: i \in 1..(m - 1)
          <6>1. \A i \in S: i \in 1..m /\ i # m
            BY <3>3
          <6> QED
            BY <6>1
        <5>2. S \ {Max(S)} \subseteq S
          OBVIOUS
        <5> QED
          BY <3>3, <5>1, <5>2
      <4>2. f[S] = IF S = {} THEN 1 ELSE f[S \ {Max(S)}] + Header(s[Max(S)]) + s[Max(S)].text
        BY <2>1, <4>1 DEF TokenSums
      <4>3. g[S] = f[S] /\ g[S \ {Max(S)}] = f[S \ {Max(S)}]
        BY <3>3, <4>1
      <4> QED
        BY <4>2, <4>3
    <3> QED
      BY <3>2, <3>3
  <2>3. TokenSums(g, s, 1..m)
    BY <2>2 DEF TokenSums
  <2> QED
    BY <2>3
<1> HIDE DEF E
<1>3. 0 \in Made /\ \A i \in 1..n: i - 1 \in Made => i \in Made
  BY <1>1, <1>2
<1>4. 0..n \subseteq Made
  BY <1>3, Upward
<1> QED
  BY <1>4 DEF E

\* Tokens, passage after passage.
LEMMA TokensAre ==
  ASSUME NEW s,  NEW n \in Nat, DOMAIN s = 1..n
  PROVE  \E h: /\ Tokens(s) = h[n] /\ h[0] = 1
               /\ \A i \in 1..n: h[i] = h[i - 1] + Header(s[i]) + s[i].text
<1> DEFINE g == CHOOSE g: TokenSums(g, s, 1..n)
           h == [i \in 0..n |-> g[1..i]]
<1>1. Tokens(s) = g[1..n]
  BY DEF Tokens, FoldLeft, MapThenFoldSet, TokenSums
<1>2. TokenSums(g, s, 1..n)
  BY TokensExist
<1> HIDE DEF g
<1>3. h[n] = g[1..n] /\ h[0] = 1
  <2>1. 1..0 = {} /\ {} \in SUBSET (1..n)
    OBVIOUS
  <2>2. g[{}] = 1
    BY <1>2, <2>1 DEF TokenSums
  <2> QED
    BY <2>1, <2>2
<1>4. ASSUME NEW i \in 1..n PROVE h[i] = h[i - 1] + Header(s[i]) + s[i].text
  <2>1. 1..i \in SUBSET (1..n) /\ i \in 1..i /\ 1..i # {} /\ (1..i) \ {i} = 1..(i - 1)
    <3>1. i \in Nat /\ i >= 1 /\ i <= n
      OBVIOUS
    <3>2. \A x: x \in 1..i => x \in 1..n
      BY <3>1
    <3>3. \A x: (x \in 1..i /\ x # i) <=> x \in 1..(i - 1)
      BY <3>1
    <3> QED
      BY <3>1, <3>2, <3>3
  <2>2. Max(1..i) = i
    BY <2>1, MaxIs
  <2>3. g[1..i] = g[(1..i) \ {Max(1..i)}] + Header(s[Max(1..i)]) + s[Max(1..i)].text
    BY <1>2, <2>1 DEF TokenSums
  <2>4. g[1..i] = g[1..(i - 1)] + Header(s[i]) + s[i].text
    BY <2>1, <2>2, <2>3
  <2> QED
    BY <2>4
<1> HIDE DEF h
<1> QED
  BY <1>1, <1>3, <1>4

TotalOf(s) == FoldLeft(LAMBDA n, tokens: n + tokens, 0, s)

Sums(g, s, All) ==
  g = [S \in SUBSET All |->
         IF S = {} THEN 0 ELSE g[S \ {Max(S)}] + s[Max(S)]]

\* The partial sums of a list do exist.
LEMMA SumsExist ==
  ASSUME NEW s,  NEW n \in Nat
  PROVE  \E g: Sums(g, s, 1..n)
<1> DEFINE E(m) == \E g: Sums(g, s, 1..m)
           Made == {m \in Nat: E(m)}
<1>1. E(0)
  <2> DEFINE g == [S \in SUBSET (1..0) |-> 0]
  <2>1. \A S \in SUBSET (1..0): S = {}
    OBVIOUS
  <2>2. Sums(g, s, 1..0)
    BY <2>1 DEF Sums
  <2> QED
    BY <2>2
<1>2. ASSUME NEW m \in 1..n, m - 1 \in Made PROVE E(m)
  <2>1. PICK f: Sums(f, s, 1..(m - 1))
    BY <1>2
  <2> DEFINE g == [S \in SUBSET (1..m) |->
                     IF m \in S THEN f[S \ {m}] + s[m] ELSE f[S]]
  <2>2. \A S \in SUBSET (1..m): g[S] =
           IF S = {} THEN 0 ELSE g[S \ {Max(S)}] + s[Max(S)]
    <3>1. TAKE S \in SUBSET (1..m)
    <3>2. CASE m \in S
      <4>1. Max(S) = m
        BY <3>2, MaxIs
      <4>2. S \ {m} \in SUBSET (1..m) /\ m \notin S \ {m}
        OBVIOUS
      <4>3. g[S \ {m}] = f[S \ {m}] /\ g[S] = f[S \ {m}] + s[m]
        BY <3>2, <4>2
      <4> QED
        BY <3>2, <4>1, <4>3
    <3>3. CASE m \notin S
      <4>1. S \in SUBSET (1..(m - 1)) /\ S \ {Max(S)} \in SUBSET (1..m) /\ m \notin S \ {Max(S)}
        <5>1. \A i \in S: i \in 1..(m - 1)
          <6>1. \A i \in S: i \in 1..m /\ i # m
            BY <3>3
          <6> QED
            BY <6>1
        <5>2. S \ {Max(S)} \subseteq S
          OBVIOUS
        <5> QED
          BY <3>3, <5>1, <5>2
      <4>2. f[S] = IF S = {} THEN 0 ELSE f[S \ {Max(S)}] + s[Max(S)]
        BY <2>1, <4>1 DEF Sums
      <4>3. g[S] = f[S] /\ g[S \ {Max(S)}] = f[S \ {Max(S)}]
        BY <3>3, <4>1
      <4> QED
        BY <4>2, <4>3
    <3> QED
      BY <3>2, <3>3
  <2>3. Sums(g, s, 1..m)
    BY <2>2 DEF Sums
  <2> QED
    BY <2>3
<1> HIDE DEF E
<1>3. 0 \in Made /\ \A i \in 1..n: i - 1 \in Made => i \in Made
  BY <1>1, <1>2
<1>4. 0..n \subseteq Made
  BY <1>3, Upward
<1> QED
  BY <1>4 DEF E

\* A sum, number after number.
LEMMA SumsAre ==
  ASSUME NEW s,  NEW n \in Nat, DOMAIN s = 1..n
  PROVE  \E h: /\ TotalOf(s) = h[n] /\ h[0] = 0
               /\ \A i \in 1..n: h[i] = h[i - 1] + s[i]
<1> DEFINE g == CHOOSE g: Sums(g, s, 1..n)
           h == [i \in 0..n |-> g[1..i]]
<1>1. TotalOf(s) = g[1..n]
  BY DEF TotalOf, FoldLeft, MapThenFoldSet, Sums
<1>2. Sums(g, s, 1..n)
  BY SumsExist
<1> HIDE DEF g
<1>3. h[n] = g[1..n] /\ h[0] = 0
  <2>1. 1..0 = {} /\ {} \in SUBSET (1..n)
    OBVIOUS
  <2>2. g[{}] = 0
    BY <1>2, <2>1 DEF Sums
  <2> QED
    BY <2>1, <2>2
<1>4. ASSUME NEW i \in 1..n PROVE h[i] = h[i - 1] + s[i]
  <2>1. 1..i \in SUBSET (1..n) /\ i \in 1..i /\ 1..i # {} /\ (1..i) \ {i} = 1..(i - 1)
    <3>1. i \in Nat /\ i >= 1 /\ i <= n
      OBVIOUS
    <3>2. \A x: x \in 1..i => x \in 1..n
      BY <3>1
    <3>3. \A x: (x \in 1..i /\ x # i) <=> x \in 1..(i - 1)
      BY <3>1
    <3> QED
      BY <3>1, <3>2, <3>3
  <2>2. Max(1..i) = i
    BY <2>1, MaxIs
  <2>3. g[1..i] = g[(1..i) \ {Max(1..i)}] + s[Max(1..i)]
    BY <1>2, <2>1 DEF Sums
  <2>4. g[1..i] = g[1..(i - 1)] + s[i]
    BY <2>1, <2>2, <2>3
  <2> QED
    BY <2>4
<1> HIDE DEF h
<1> QED
  BY <1>1, <1>3, <1>4

Turned(g, s, All, start) ==
  g = [S \in SUBSET All |->
         IF S = {} THEN start ELSE ActOnRow(g[S \ {Max(S)}], s[Max(S)])]

\* The partial turns do exist.
LEMMA TurnsExist ==
  ASSUME NEW s, NEW start, NEW n \in Nat
  PROVE  \E g: Turned(g, s, 1..n, start)
<1> DEFINE E(m) == \E g: Turned(g, s, 1..m, start)
           Made == {m \in Nat: E(m)}
<1>1. E(0)
  <2> DEFINE g == [S \in SUBSET (1..0) |-> start]
  <2>1. \A S \in SUBSET (1..0): S = {}
    OBVIOUS
  <2>2. Turned(g, s, 1..0, start)
    BY <2>1 DEF Turned
  <2> QED
    BY <2>2
<1>2. ASSUME NEW m \in 1..n, m - 1 \in Made PROVE E(m)
  <2>1. PICK f: Turned(f, s, 1..(m - 1), start)
    BY <1>2
  <2> DEFINE g == [S \in SUBSET (1..m) |-> IF m \in S THEN ActOnRow(f[S \ {m}], s[m]) ELSE f[S]]
  <2>2. \A S \in SUBSET (1..m): g[S] =
           IF S = {} THEN start ELSE ActOnRow(g[S \ {Max(S)}], s[Max(S)])
    <3>1. TAKE S \in SUBSET (1..m)
    <3>2. CASE m \in S
      <4>1. Max(S) = m
        BY <3>2, MaxIs
      <4>2. S \ {m} \in SUBSET (1..m) /\ m \notin S \ {m}
        OBVIOUS
      <4>3. g[S \ {m}] = f[S \ {m}] /\ g[S] = ActOnRow(f[S \ {m}], s[m])
        BY <3>2, <4>2
      <4> QED
        BY <3>2, <4>1, <4>3
    <3>3. CASE m \notin S
      <4>1. S \in SUBSET (1..(m - 1)) /\ S \ {Max(S)} \in SUBSET (1..m) /\ m \notin S \ {Max(S)}
        <5>1. \A i \in S: i \in 1..(m - 1)
          <6>1. \A i \in S: i \in 1..m /\ i # m
            BY <3>3
          <6> QED
            BY <6>1
        <5>2. S \ {Max(S)} \subseteq S
          OBVIOUS
        <5> QED
          BY <3>3, <5>1, <5>2
      <4>2. f[S] = IF S = {} THEN start ELSE ActOnRow(f[S \ {Max(S)}], s[Max(S)])
        BY <2>1, <4>1 DEF Turned
      <4>3. g[S] = f[S] /\ g[S \ {Max(S)}] = f[S \ {Max(S)}]
        BY <3>3, <4>1
      <4> QED
        BY <4>2, <4>3
    <3> QED
      BY <3>2, <3>3
  <2>3. Turned(g, s, 1..m, start)
    BY <2>2 DEF Turned
  <2> QED
    BY <2>3
<1> HIDE DEF E
<1>3. 0 \in Made /\ \A i \in 1..n: i - 1 \in Made => i \in Made
  BY <1>1, <1>2
<1>4. 0..n \subseteq Made
  BY <1>3, Upward
<1> QED
  BY <1>4 DEF E

IsTurn(e, s, start) == e = FoldLeft(ActOnRow, start, s)

\* The state after each row.
Advances(h, e, s, start, n) ==
  /\ e = h[n] /\ h[0] = start
  /\ \A i \in 1..n: h[i] = ActOnRow(h[i - 1], s[i])

\* execute_predictions, a loop: its state after each row.
LEMMA TurnsAre ==
  ASSUME NEW s, NEW start, NEW n \in Nat, DOMAIN s = 1..n,
         NEW e, IsTurn(e, s, start)
  PROVE  \E h: Advances(h, e, s, start, n)
<1> DEFINE g == CHOOSE g: Turned(g, s, 1..n, start)
           h == [i \in 0..n |-> g[1..i]]
<1>1. e = g[1..n]
  BY DEF IsTurn, FoldLeft, MapThenFoldSet, Turned
<1>2. Turned(g, s, 1..n, start)
  BY TurnsExist
<1> HIDE DEF g
<1>3. h[n] = g[1..n] /\ h[0] = start
  <2>1. 1..0 = {} /\ {} \in SUBSET (1..n)
    OBVIOUS
  <2>2. g[{}] = start
    BY <1>2, <2>1 DEF Turned
  <2> QED
    BY <2>1, <2>2
<1>4. ASSUME NEW i \in 1..n PROVE h[i] = ActOnRow(h[i - 1], s[i])
  <2>1. 1..i \in SUBSET (1..n) /\ i \in 1..i /\ 1..i # {} /\ (1..i) \ {i} = 1..(i - 1)
    <3>1. i \in Nat /\ i >= 1 /\ i <= n
      OBVIOUS
    <3>2. \A x: x \in 1..i => x \in 1..n
      BY <3>1
    <3>3. \A x: (x \in 1..i /\ x # i) <=> x \in 1..(i - 1)
      BY <3>1
    <3> QED
      BY <3>1, <3>2, <3>3
  <2>2. Max(1..i) = i
    BY <2>1, MaxIs
  <2>3. g[1..i] = ActOnRow(g[(1..i) \ {Max(1..i)}], s[Max(1..i)])
    BY <1>2, <2>1 DEF Turned
  <2>4. g[1..i] = ActOnRow(g[1..(i - 1)], s[i])
    BY <2>1, <2>2, <2>3
  <2> QED
    BY <2>4
<1> HIDE DEF h
<1>5. Advances(h, e, s, start, n)
  BY <1>1, <1>3, <1>4 DEF Advances
<1> QED
  BY <1>5

(***************************************************************************)
(* What the policy says, and what the retrievers find                      *)
(***************************************************************************)

Everywhere == Backends \cup {"hybrid"}

Answerable(query) == \A b \in Backends: query \in DOMAIN Corpus[b]

\* A text that a policy may say: a list of blocks, with a search that is answered.
Sayable(text) ==
  /\ text \in Seq(Blocks)
  /\ ParseAction(text).kind = "search" => Answerable(ParseAction(text).value)

\* The smaller of two numbers.
LEMMA MinIs ==
  ASSUME NEW a \in Int, NEW b \in Int
  PROVE  Min({a, b}) = IF a <= b THEN a ELSE b
<1> DEFINE m == IF a <= b THEN a ELSE b
<1>1. m \in {a, b} /\ \A y \in {a, b}: m <= y
  OBVIOUS
<1>2. Min({a, b}) \in {a, b} /\ \A y \in {a, b}: Min({a, b}) <= y
  <2>1. \E x \in {a, b}: \A y \in {a, b}: x <= y
    BY <1>1
  <2> QED
    BY <2>1 DEF Min
<1>3. PICK x: x = Min({a, b})
  OBVIOUS
<1>4. x \in {a, b} /\ x <= a /\ x <= b
  BY <1>2, <1>3
<1> QED
  BY <1>3, <1>4

\* The parser: an action has words, and there are two kinds of them.
LEMMA ActionIs ==
  ASSUME NEW text \in Seq(Blocks)
  PROVE  /\ ParseAction(text).kind \in {"search", "answer", "invalid"}
         /\ ParseAction(text).kind # "invalid" => ParseAction(text).value # ""
<1> DEFINE actions == {i \in DOMAIN text: IsAction(text[i])}
           others == {text[i]: i \in DOMAIN text \ actions}
           action == text[CHOOSE i \in actions: TRUE]
           Valid == /\ Cardinality(actions) = 1
                    /\ \A b \in others: b.kind = "think" /\ ~b.tags /\ ~HidesAction(b)
                    /\ action.value # "" /\ ~action.tags
<1>1. ParseAction(text) = IF Valid THEN [kind |-> action.kind, value |-> action.value]
                          ELSE Invalid
  BY DEF ParseAction
<1>2. CASE ~Valid
  <2>1. ParseAction(text) = Invalid
    BY <1>1, <1>2
  <2>2. Invalid.kind = "invalid"
    BY DEF Invalid
  <2> QED
    BY <2>1, <2>2
<1>3. CASE Valid
  <2>1. actions # {}
    <3>1. Cardinality(actions) = 1
      BY <1>3
    <3>2. Cardinality({}) = 0
      BY FS_EmptySet
    <3> HIDE DEF actions
    <3>3. ASSUME actions = {} PROVE FALSE
      BY <3>1, <3>2, <3>3
    <3> QED
      BY <3>3
  <2>2. action.kind \in {"search", "answer"}
    <3>1. (CHOOSE i \in actions: TRUE) \in actions
      BY <2>1
    <3>2. PICK k: k = CHOOSE i \in actions: TRUE
      OBVIOUS
    <3>3. k \in DOMAIN text /\ IsAction(text[k])
      BY <3>1, <3>2
    <3>4. text[k] \in Blocks
      BY <3>3
    <3> QED
      BY <3>2, <3>3, <3>4 DEF IsAction, Blocks
  <2>3. ParseAction(text) = [kind |-> action.kind, value |-> action.value]
    BY <1>1, <1>3
  <2>4. action.value # ""
    BY <1>3
  <2> HIDE DEF action, Valid
  <2>5. /\ ParseAction(text).kind = action.kind
        /\ ParseAction(text).value = action.value
    BY <2>3
  <2> QED
    BY <2>2, <2>4, <2>5
<1> QED
  BY <1>2, <1>3

\* The head of a list.
LEMMA FirstIs ==
  ASSUME NEW S, NEW s \in Seq(S), NEW n \in Nat
  PROVE  /\ FirstOf(s, n) \in Seq(S) /\ Len(FirstOf(s, n)) <= n
         /\ Len(FirstOf(s, n)) \in Nat
<1> DEFINE m == Min({Len(s), n})
<1>1. m = IF Len(s) <= n THEN Len(s) ELSE n
  BY MinIs
<1> HIDE DEF m
<1>2. m \in Nat /\ m <= Len(s) /\ m <= n
  BY <1>1
<1>3. SubSeq(s, 1, m) \in Seq(S) /\ Len(SubSeq(s, 1, m)) = m
  BY <1>2
<1> QED
  BY <1>2, <1>3 DEF FirstOf, m

\* A retriever's result: a list of at most Topk passages, documents of the
\* corpus on the two backends.
LEMMA SearchIs ==
  ASSUME NEW b \in Everywhere, NEW query, Answerable(query)
  PROVE  /\ IsList(Search(b, query)) /\ Len(Search(b, query)) <= Topk
         /\ b \in Backends => Search(b, query) \in Seq(Documents)
<1>1. \A c \in Backends: Corpus[c][query] \in Seq(Documents)
  BY ProtocolAssumption DEF Answerable
<1>2. Topk \in Nat
  BY ProtocolAssumption
<1>3. CASE b \in Backends
  <2>1. Search(b, query) = FirstOf(Corpus[b][query], Topk)
    BY <1>3 DEF Search, Backends
  <2>2. Search(b, query) \in Seq(Documents) /\ Len(Search(b, query)) <= Topk
    BY <1>1, <1>2, <1>3, <2>1, FirstIs
  <2> QED
    BY <2>2, ListOf
<1>4. CASE b \notin Backends
  <2> DEFINE rankings == [c \in Backends |-> Corpus[c][query]]
             ids(c) == {rankings[c][i].id: i \in DOMAIN rankings[c]}
             keys == UNION {ids(c): c \in Backends}
  <2>1. b = "hybrid"
    BY <1>4 DEF Everywhere
  <2>2. Search(b, query) = Fuse(rankings, Topk)
    BY <2>1 DEF Search
  <2>3. IsFiniteSet(keys)
    <3>1. ASSUME NEW c \in Backends PROVE IsFiniteSet(ids(c))
      <4> DEFINE s == Corpus[c][query]
      <4>1. s \in Seq(Documents) /\ rankings[c] = s
        BY <1>1
      <4> HIDE DEF s, rankings
      <4>2. Len(s) \in Nat /\ DOMAIN s = 1..Len(s)
        BY <4>1
      <4>3. IsFiniteSet(1..Len(s))
        BY <4>2, FS_Interval
      <4>4. IsFiniteSet({s[i].id: i \in 1..Len(s)})
        <5> DEFINE D == 1..Len(s)
                   f == [i \in D |-> s[i].id]
                   T == {s[i].id: i \in D}
        <5>1. f \in Surjection(D, T)
          BY DEF Surjection
        <5> HIDE DEF D, f, T
        <5>2. IsFiniteSet(T)
          BY <4>3, <5>1, FS_Surjection DEF D
        <5> QED
          BY <5>2 DEF T, D
      <4> QED
        BY <4>1, <4>2, <4>4
    <3>2. keys = ids("bm25") \cup ids("e5")
      BY DEF Backends
    <3> QED
      <4>1. IsFiniteSet(ids("bm25")) /\ IsFiniteSet(ids("e5"))
        BY <3>1 DEF Backends
      <4> HIDE DEF ids, keys
      <4> QED
        BY <3>2, <4>1, FS_Union
  <2> DEFINE m == Min({Topk, Cardinality(keys)})
  <2>4. m \in Nat /\ m <= Topk
    <3>1. PICK c: c = Cardinality(keys)
      OBVIOUS
    <3>2. c \in Nat
      BY <2>3, <3>1, FS_CardinalityType
    <3>3. Min({Topk, c}) = IF Topk <= c THEN Topk ELSE c
      BY <1>2, <3>2, MinIs
    <3>4. m = IF Topk <= c THEN Topk ELSE c
      BY <3>1, <3>3
    <3> HIDE DEF m
    <3> QED
      BY <1>2, <3>2, <3>4
  <2>5. \E f: Fuse(rankings, Topk) = [i \in 1..m |-> f[i]]
    <3> DEFINE fused == Fuse(rankings, Topk)
    <3>1. fused = [i \in 1..m |-> fused[i]]
      BY DEF Fuse
    <3> QED
      BY <3>1
  <2> HIDE DEF m, rankings
  <2>6. PICK f: Search(b, query) = [i \in 1..m |-> f[i]]
    BY <2>2, <2>5
  <2> DEFINE s == Search(b, query)
  <2>7. DOMAIN s = 1..m /\ s = [i \in 1..m |-> s[i]]
    BY <2>6
  <2> HIDE DEF s
  <2>8. IsList(s) /\ Len(s) = m
    BY <2>4, <2>7, SegmentIsList
  <2> QED
    BY <1>4, <2>4, <2>8 DEF s
<1> QED
  BY <1>3, <1>4

\* Titles and normal forms are lists as long as the result; the normal form of a
\* document has its title, and a document without quotes is its own normal form.
LEMMA RenderedIs ==
  ASSUME NEW results, IsList(results)
  PROVE  /\ IsList(Titles(results)) /\ Len(Titles(results)) = Len(results)
         /\ IsList(Normalized(results)) /\ Len(Normalized(results)) = Len(results)
<1>1. Len(results) \in Nat /\ DOMAIN results = 1..Len(results)
  BY ListIs
<1> DEFINE n == Len(results)
           t == Titles(results)
           u == Normalized(results)
<1>2. DOMAIN t = 1..n /\ t = [i \in 1..n |-> t[i]]
  BY <1>1 DEF Titles
<1>3. DOMAIN u = 1..n /\ u = [i \in 1..n |-> u[i]]
  BY <1>1 DEF Normalized
<1> HIDE DEF n, t, u
<1>4. IsList(t) /\ Len(t) = n
  BY <1>1, <1>2, SegmentIsList DEF n
<1>5. IsList(u) /\ Len(u) = n
  BY <1>1, <1>3, SegmentIsList DEF n
<1> QED
  BY <1>4, <1>5 DEF n, t, u

\* normalize_document leaves the titles as they are, and a document without quotes too.
LEMMA NormalizedIs ==
  ASSUME NEW results \in Seq(Documents)
  PROVE  /\ Titles(Normalized(results)) = Titles(results)
         /\ Normalized(results) \in Seq(Documents)
         /\ (\A i \in DOMAIN results: ~results[i].quoted) => Normalized(results) = results
<1>1. Len(results) \in Nat /\ DOMAIN results = 1..Len(results)
  OBVIOUS
<1>2. \A i \in DOMAIN results: results[i] \in Documents
  OBVIOUS
<1>3. \A i \in DOMAIN results:
        /\ [results[i] EXCEPT !.quoted = FALSE] \in Documents
        /\ [results[i] EXCEPT !.quoted = FALSE].title = results[i].title
  BY <1>2 DEF Documents
<1>4. Titles(Normalized(results)) = Titles(results)
  BY <1>3 DEF Titles, Normalized
<1>5. Normalized(results) \in Seq(Documents)
  BY <1>1, <1>3 DEF Normalized
<1>6. ASSUME \A i \in DOMAIN results: ~results[i].quoted PROVE Normalized(results) = results
  <2>1. ASSUME NEW d \in Documents, ~d.quoted PROVE [d EXCEPT !.quoted = FALSE] = d
    <3>1. d.quoted = FALSE
      BY <2>1 DEF Documents
    <3> QED
      BY <3>1 DEF Documents
  <2>2. \A i \in DOMAIN results: [results[i] EXCEPT !.quoted = FALSE] = results[i]
    BY <1>2, <1>6, <2>1
  <2>3. results = [i \in DOMAIN results |-> results[i]]
    OBVIOUS
  <2> QED
    BY <2>2, <2>3 DEF Normalized
<1> QED
  BY <1>4, <1>5, <1>6

\* The titles in the budget are the first of the titles.
LEMMA ObservedAre ==
  ASSUME NEW results, IsList(results)
  PROVE  /\ IsList(ObservedTitles(results))
         /\ ToSet(ObservedTitles(results)) \subseteq ToSet(Titles(results))
<1> DEFINE n == Len(results)
           S == {i \in DOMAIN results:
                   Tokens(SubSeq(results, 1, i - 1)) + Header(results[i]) <= Budget}
           c == Cardinality(S)
           part == SubSeq(results, 1, c)
<1>1. n \in Nat /\ DOMAIN results = 1..n
  BY ListIs
<1>2. c \in Nat /\ c <= n
  <2>1. S \in SUBSET (1..n)
    BY <1>1
  <2> HIDE DEF S, n
  <2>2. IsFiniteSet(1..n) /\ Cardinality(1..n) = n
    BY <1>1, FS_Interval
  <2>3. IsFiniteSet(S) /\ Cardinality(S) <= n
    BY <2>1, <2>2, FS_Subset
  <2> QED
    BY <2>3, FS_CardinalityType
<1> HIDE DEF S
<1>3. results \in Seq(Range(results))
  BY DEF IsList
<1> HIDE DEF c, n
<1>4. IsList(part) /\ Len(part) = c /\ DOMAIN part = 1..c
  <2>1. part \in Seq(Range(results)) /\ Len(part) = c
    BY <1>1, <1>2, <1>3 DEF n
  <2> HIDE DEF part
  <2> QED
    BY <2>1, ListOf
<1>5. \A i \in 1..c: i \in DOMAIN results /\ part[i] = results[i]
  BY <1>1, <1>2, <1>3 DEF n
<1> HIDE DEF part
<1>6. ObservedTitles(results) = Titles(part)
  BY DEF ObservedTitles, part, c, S
<1>7. ToSet(Titles(part)) \subseteq ToSet(Titles(results))
  BY <1>4, <1>5 DEF ToSet, Titles
<1> QED
  BY <1>4, <1>6, <1>7, RenderedIs

\* A rendering whose headers are no longer is no longer.
LEMMA BareIsShorter ==
  ASSUME NEW s \in Seq(Documents), NEW t \in Seq(Documents), Len(s) = Len(t),
         \A i \in 1..Len(s): Header(t[i]) <= Header(s[i]) /\ t[i].text = s[i].text
  PROVE  Tokens(s) \in Nat /\ Tokens(t) \in Nat /\ Tokens(t) <= Tokens(s)
<1> DEFINE n == Len(s)
<1>1. n \in Nat /\ DOMAIN s = 1..n /\ DOMAIN t = 1..n
  OBVIOUS
<1>2. PICK h: Tokens(s) = h[n] /\ h[0] = 1
              /\ \A i \in 1..n: h[i] = h[i - 1] + Header(s[i]) + s[i].text
  BY <1>1, TokensAre
<1>3. PICK g: Tokens(t) = g[n] /\ g[0] = 1
              /\ \A i \in 1..n: g[i] = g[i - 1] + Header(t[i]) + t[i].text
  BY <1>1, TokensAre
<1>4. \A i \in 1..n: /\ Header(s[i]) \in Nat /\ s[i].text \in Nat
                     /\ Header(t[i]) \in Nat /\ t[i].text \in Nat
  <2>1. \A i \in 1..n: s[i] \in Documents /\ t[i] \in Documents
    BY <1>1
  <2> QED
    BY <2>1 DEF Header, Documents
<1> DEFINE S == {i \in 0..n: h[i] \in Nat /\ g[i] \in Nat /\ g[i] <= h[i]}
<1>5. 0 \in S
  BY <1>1, <1>2, <1>3
<1>6. ASSUME NEW i \in 1..n, i - 1 \in S PROVE i \in S
  <2>1. /\ h[i] = h[i - 1] + Header(s[i]) + s[i].text
        /\ g[i] = g[i - 1] + Header(t[i]) + t[i].text
    BY <1>2, <1>3
  <2>2. /\ h[i - 1] \in Nat /\ g[i - 1] \in Nat /\ g[i - 1] <= h[i - 1]
        /\ Header(t[i]) <= Header(s[i]) /\ t[i].text = s[i].text
    BY <1>6
  <2>3. i \in 0..n
    BY <1>1
  <2>4. h[i] \in Nat /\ g[i] \in Nat /\ g[i] <= h[i]
    <3> DEFINE a == h[i - 1]
               b == g[i - 1]
               v == Header(s[i])
               w == Header(t[i])
               k == s[i].text
    <3>1. /\ a \in Nat /\ b \in Nat /\ b <= a /\ v \in Nat /\ w \in Nat /\ w <= v
          /\ k \in Nat /\ h[i] = a + v + k /\ g[i] = b + w + k
      BY <1>4, <2>1, <2>2
    <3> HIDE DEF a, b, v, w, k
    <3> QED
      BY <3>1
  <2> QED
    BY <2>3, <2>4
<1>7. 0..n \subseteq S
  <2> HIDE DEF S, n
  <2> QED
    BY <1>1, <1>5, <1>6, Upward
<1> QED
  BY <1>1, <1>2, <1>3, <1>7

\* The places of a result whose whole header lies in the budget.
Shown(results) ==
  {i \in DOMAIN results: Tokens(SubSeq(results, 1, i - 1)) + Header(results[i]) <= Budget}

\* The titles that are observed: those of the first passages, as many as are shown.
LEMMA SeenAre ==
  ASSUME NEW results \in Seq(Documents)
  PROVE  LET c == Cardinality(Shown(results))
         IN  /\ IsFiniteSet(Shown(results)) /\ c \in Nat /\ c <= Len(results)
             /\ ToSet(ObservedTitles(results)) = {results[i].title: i \in 1..c}
<1> DEFINE n == Len(results)
           c == Cardinality(Shown(results))
           part == SubSeq(results, 1, c)
<1>1. n \in Nat /\ DOMAIN results = 1..n
  OBVIOUS
<1>2. IsFiniteSet(Shown(results)) /\ c \in Nat /\ c <= n
  <2>1. Shown(results) \in SUBSET (1..n)
    BY <1>1 DEF Shown
  <2> HIDE DEF n
  <2>2. IsFiniteSet(1..n) /\ Cardinality(1..n) = n
    BY <1>1, FS_Interval
  <2> QED
    BY <2>1, <2>2, FS_Subset, FS_CardinalityType
<1> HIDE DEF c
<1>3. DOMAIN part = 1..c /\ \A i \in 1..c: part[i] = results[i]
  BY <1>2
<1> HIDE DEF part
<1>4. ObservedTitles(results) = Titles(part)
  BY DEF ObservedTitles, Shown, part, c
<1>5. ToSet(Titles(part)) = {results[i].title: i \in 1..c}
  BY <1>3 DEF ToSet, Titles
<1> QED
  BY <1>2, <1>4, <1>5 DEF c

\* Quotes can only push a header out of the budget: what training sees of a result
\* is part of what evaluation sees of it, and all of it when no passage is in
\* quotes or when the budget has room for every header.
LEMMA QuotesOnlyHide ==
  ASSUME NEW results \in Seq(Documents)
  PROVE  /\ ToSet(ObservedTitles(results)) \subseteq ToSet(ObservedTitles(Normalized(results)))
         /\ (\A i \in DOMAIN results: ~results[i].quoted) \/ Shown(results) = DOMAIN results =>
              ToSet(ObservedTitles(Normalized(results))) = ToSet(ObservedTitles(results))
<1> DEFINE n == Len(results)
           bare == Normalized(results)
<1>1. n \in Nat /\ DOMAIN results = 1..n /\ \A i \in 1..n: results[i] \in Documents
  OBVIOUS
<1>2. /\ bare \in Seq(Documents) /\ Len(bare) = n /\ DOMAIN bare = 1..n
      /\ (\A i \in DOMAIN results: ~results[i].quoted) => bare = results
  <2>1. IsList(results)
    BY ListOf
  <2> QED
    BY <2>1, NormalizedIs, RenderedIs
<1>3. ASSUME NEW i \in 1..n
      PROVE  /\ bare[i].title = results[i].title
             /\ Header(bare[i]) <= Header(results[i]) /\ bare[i].text = results[i].text
             /\ Header(results[i]) \in Nat /\ Header(bare[i]) \in Nat
  <2>1. results[i] \in Documents /\ bare[i] = [results[i] EXCEPT !.quoted = FALSE]
    BY <1>1 DEF Normalized
  <2>2. /\ bare[i].title = results[i].title /\ bare[i].text = results[i].text
        /\ bare[i].quoted = FALSE
    BY <2>1 DEF Documents
  <2>3. Header(bare[i]) = 1
    BY <2>2 DEF Header
  <2>4. Header(results[i]) \in {1, 2}
    BY DEF Header
  <2> QED
    BY <2>2, <2>3, <2>4
<1> HIDE DEF bare
<1>4. Shown(results) \subseteq Shown(bare)
  <2> SUFFICES ASSUME NEW i \in Shown(results) PROVE i \in Shown(bare)
    OBVIOUS
  <2> DEFINE s == SubSeq(results, 1, i - 1)
             t == SubSeq(bare, 1, i - 1)
  <2>1. i \in 1..n /\ Tokens(s) + Header(results[i]) <= Budget
    BY <1>1 DEF Shown
  <2>2. s \in Seq(Documents) /\ Len(s) = i - 1 /\ \A k \in 1..(i - 1): s[k] = results[k]
    BY <1>1, <2>1
  <2>3. t \in Seq(Documents) /\ Len(t) = i - 1 /\ \A k \in 1..(i - 1): t[k] = bare[k]
    BY <1>1, <1>2, <2>1
  <2> HIDE DEF s, t
  <2>4. \A k \in 1..(i - 1): k \in 1..n
    BY <1>1, <2>1
  <2>5. \A k \in 1..Len(s): Header(t[k]) <= Header(s[k]) /\ t[k].text = s[k].text
    BY <1>3, <2>2, <2>3, <2>4
  <2>6. Tokens(s) \in Nat /\ Tokens(t) \in Nat /\ Tokens(t) <= Tokens(s)
    BY <2>2, <2>3, <2>5, BareIsShorter
  <2>7. Budget \in Nat
    BY ProtocolAssumption
  <2>8. Tokens(t) + Header(bare[i]) <= Budget
    BY <1>3, <2>1, <2>6, <2>7
  <2> QED
    BY <1>2, <2>1, <2>8 DEF Shown, t
<1> DEFINE c == Cardinality(Shown(results))
           d == Cardinality(Shown(bare))
<1>5. /\ c \in Nat /\ ToSet(ObservedTitles(results)) = {results[i].title: i \in 1..c}
      /\ d \in Nat /\ d <= n /\ ToSet(ObservedTitles(bare)) = {bare[i].title: i \in 1..d}
  BY <1>2, SeenAre
<1>6. c <= d
  <2>1. IsFiniteSet(Shown(bare))
    BY <1>2, SeenAre
  <2> QED
    BY <1>4, <2>1, FS_Subset
<1>7. ToSet(ObservedTitles(results)) \subseteq ToSet(ObservedTitles(bare))
  <2>1. \A i \in 1..c: i \in 1..d /\ i \in 1..n
    BY <1>1, <1>5, <1>6
  <2> HIDE DEF c, d
  <2> QED
    BY <1>3, <1>5, <2>1
<1>8. ASSUME Shown(results) = DOMAIN results
      PROVE  ToSet(ObservedTitles(bare)) = ToSet(ObservedTitles(results))
  <2>1. Shown(bare) = Shown(results)
    BY <1>1, <1>2, <1>4, <1>8 DEF Shown
  <2>2. c = d
    BY <2>1
  <2> HIDE DEF c, d
  <2>3. \A i \in 1..d: bare[i].title = results[i].title
    <3>1. \A i \in 1..d: i \in 1..n
      BY <1>1, <1>5
    <3> HIDE DEF d, n
    <3> QED
      BY <1>3, <3>1
  <2>4. {bare[i].title: i \in 1..d} = {results[i].title: i \in 1..d}
    BY <2>3
  <2> QED
    BY <1>5, <2>2, <2>4
<1> QED
  BY <1>2, <1>7, <1>8 DEF bare

\* The tokens that a result puts into the trajectory are a number of tokens.
LEMMA VisibleIs ==
  ASSUME NEW results \in Seq(Documents)
  PROVE  VisibleTokens(results) \in Nat
<1> DEFINE n == Len(results)
<1>1. n \in Nat /\ DOMAIN results = 1..n
  OBVIOUS
<1>2. PICK h: Tokens(results) = h[n] /\ h[0] = 1
              /\ \A i \in 1..n: h[i] = h[i - 1] + Header(results[i]) + results[i].text
  BY <1>1, TokensAre
<1>3. \A i \in 1..n: Header(results[i]) \in Nat /\ results[i].text \in Nat
  <2>1. \A i \in 1..n: results[i] \in Documents
    BY <1>1
  <2> QED
    BY <2>1 DEF Header, Documents
<1> DEFINE S == {i \in 0..n: h[i] \in Nat}
<1>4. 0 \in S /\ \A i \in 1..n: i - 1 \in S => i \in S
  <2>1. 0 \in S
    BY <1>1, <1>2
  <2>2. ASSUME NEW i \in 1..n, i - 1 \in S PROVE i \in S
    <3>1. h[i] = h[i - 1] + Header(results[i]) + results[i].text
      BY <1>2
    <3>2. h[i - 1] \in Nat /\ Header(results[i]) \in Nat /\ results[i].text \in Nat
      BY <1>3, <2>2
    <3> QED
      BY <1>1, <3>1, <3>2
  <2> QED
    BY <2>1, <2>2
<1>5. 0..n \subseteq S
  <2> HIDE DEF S, n
  <2> QED
    BY <1>1, <1>4, Upward
<1>6. Tokens(results) \in Nat
  BY <1>1, <1>2, <1>5
<1>7. TokenCount(results) \in Nat /\ Budget \in Nat
  BY <1>6, ProtocolAssumption DEF TokenCount
<1>8. Min({TokenCount(results), Budget}) \in Nat
  BY <1>7, MinIs
<1> QED
  BY <1>8 DEF VisibleTokens

(***************************************************************************)
(* Episodes: what run_episode records is what its readers accept           *)
(***************************************************************************)

IsEpisode(e) ==
  e = [attempts |-> e.attempts, over |-> e.over, prediction |-> e.prediction,
       failure |-> e.failure, invalid |-> e.invalid, queries |-> e.queries,
       turns |-> e.turns, retrieved |-> e.retrieved, observed |-> e.observed,
       recall |-> e.recall]

\* The counters of an episode, in the middle of it and at its end.
Counted(e, turns) ==
  /\ e.attempts \in Nat /\ e.over \in BOOLEAN /\ e.failure \in {0, 1} /\ e.invalid \in Nat
  /\ IsList(e.queries) /\ Len(e.queries) <= turns
  /\ Len(e.queries) + e.invalid <= turns + e.failure
  /\ ~e.over => /\ Len(e.queries) + e.invalid = e.attempts /\ e.attempts <= turns
                /\ e.failure = 0 /\ e.prediction = ""
  /\ e.over => (e.failure = 1 <=> e.prediction = "")

\* The turns of an episode are legal, and its summary so far is that of its turns.
TurnsAreSound(e) ==
  /\ IsList(e.turns) /\ IsList(e.queries) /\ Len(e.turns) = Len(e.queries)
  /\ \A i \in DOMAIN e.turns: TurnIsLegal(Row(e), i)
  /\ e.retrieved = Recorded(e, Len(e.turns))
  /\ e.observed = RecordedSeen(e, Len(e.turns))
  /\ e.recall = Covered(e.observed)

Sound(e, turns) == IsEpisode(e) /\ Counted(e, turns) /\ TurnsAreSound(e)

\* The gold titles covered: a number, more of them for more titles.
LEMMA CoveredIs ==
  ASSUME NEW S, NEW T, S \subseteq T
  PROVE  /\ Covered(S) \in Nat /\ Covered(T) \in Nat /\ Covered(S) <= Covered(T)
         /\ Covered({}) = 0
<1>1. IsFiniteSet(Gold)
  BY ProtocolAssumption
<1> DEFINE A == Gold \cap S
           B == Gold \cap T
<1>2. A \in SUBSET B /\ B \in SUBSET Gold
  OBVIOUS
<1> HIDE DEF A, B
<1>3. IsFiniteSet(B)
  BY <1>1, <1>2, FS_Subset
<1>4. IsFiniteSet(A) /\ Cardinality(A) <= Cardinality(B)
  BY <1>2, <1>3, FS_Subset
<1>5. Cardinality(A) \in Nat /\ Cardinality(B) \in Nat
  BY <1>3, <1>4, FS_CardinalityType
<1>6. Gold \cap {} = {}
  OBVIOUS
<1>7. Cardinality({}) = 0
  BY FS_EmptySet
<1>8. Covered({}) = 0
  BY <1>6, <1>7 DEF Covered
<1> QED
  BY <1>4, <1>5, <1>8 DEF Covered, A, B

\* A list with one more element.
LEMMA AppendIs ==
  ASSUME NEW s, IsList(s), NEW x
  PROVE  /\ IsList(Append(s, x)) /\ Len(s) \in Nat /\ Len(Append(s, x)) = Len(s) + 1
         /\ DOMAIN Append(s, x) = 1..(Len(s) + 1)
         /\ \A i \in 1..Len(s): Append(s, x)[i] = s[i]
         /\ Append(s, x)[Len(s) + 1] = x
<1> DEFINE S == Range(s) \cup {x}
           t == Append(s, x)
<1>1. s \in Seq(S) /\ x \in S
  BY DEF IsList
<1> HIDE DEF S
<1>2. t \in Seq(S) /\ Len(s) \in Nat /\ Len(t) = Len(s) + 1 /\ DOMAIN t = 1..(Len(s) + 1)
      /\ (\A i \in 1..Len(s): t[i] = s[i]) /\ t[Len(s) + 1] = x
  BY <1>1
<1> HIDE DEF t
<1>3. IsList(t)
  BY <1>2, ListOf
<1> QED
  BY <1>2, <1>3 DEF t

\* A turn is legal by what was recorded up to it.
LEMMA LegalTurnStays ==
  ASSUME NEW r, NEW s, NEW i \in Nat \ {0}, r.topk = s.topk,
         \A j \in 1..i: r.turns[j] = s.turns[j] /\ r.queries[j] = s.queries[j],
         TurnIsLegal(r, i)
  PROVE  TurnIsLegal(s, i)
<1>1. Recorded(s, i) = Recorded(r, i) /\ RecordedSeen(s, i) = RecordedSeen(r, i)
  BY DEF Recorded, RecordedSeen
<1>2. RecordedSeen(s, i - 1) = RecordedSeen(r, i - 1)
  <2>1. \A j \in 1..(i - 1): r.turns[j] = s.turns[j]
    OBVIOUS
  <2> QED
    BY <2>1 DEF RecordedSeen
<1>3. i \in 1..i /\ (i # 1 => i - 1 \in 1..i)
  OBVIOUS
<1>4. /\ s.turns[i] = r.turns[i] /\ s.queries[i] = r.queries[i]
      /\ i # 1 => s.turns[i - 1] = r.turns[i - 1]
  BY <1>3
<1> QED
  BY <1>1, <1>2, <1>4 DEF TurnIsLegal

\* The stored row keeps the turns and the queries.
LEMMA RowIs ==
  ASSUME NEW e
  PROVE  /\ Row(e).topk = Topk /\ Row(e).turns = e.turns /\ Row(e).queries = e.queries
         /\ Row(e).failure = e.failure /\ Row(e).invalid = e.invalid
         /\ Row(e).prediction = e.prediction
  BY DEF Row

\* What does not search leaves the turns of the episode as they are.
LEMMA TurnsStay ==
  ASSUME NEW e, TurnsAreSound(e), NEW f, f.turns = e.turns, f.queries = e.queries,
         f.retrieved = e.retrieved, f.observed = e.observed, f.recall = e.recall
  PROVE  TurnsAreSound(f)
<1>1. ASSUME NEW i \in DOMAIN f.turns PROVE TurnIsLegal(Row(f), i)
  <2>1. i \in Nat \ {0} /\ TurnIsLegal(Row(e), i)
    <3>1. i \in 1..Len(e.turns)
      BY ListIs DEF TurnsAreSound
    <3> QED
      BY <3>1, ListIs DEF TurnsAreSound
  <2> DEFINE r == Row(e)
             s == Row(f)
  <2>2. r.topk = s.topk /\ r.turns = s.turns /\ r.queries = s.queries
    BY RowIs
  <2> HIDE DEF r, s
  <2> QED
    BY <2>1, <2>2, LegalTurnStays DEF r, s
<1>2. /\ Recorded(f, Len(f.turns)) = Recorded(e, Len(e.turns))
      /\ RecordedSeen(f, Len(f.turns)) = RecordedSeen(e, Len(e.turns))
  BY DEF Recorded, RecordedSeen
<1> QED
  BY <1>1, <1>2 DEF TurnsAreSound

\* What a search adds to the episode.
NewTurn(e, query, titles, seen) ==
  LET retrieved == e.retrieved \cup ToSet(titles)
      observed  == e.observed \cup ToSet(seen)
      recall    == Covered(observed)
  IN  [turn |-> Len(e.queries) + 1, query |-> query, retrieved |-> titles,
       observed |-> seen, retrievedRecall |-> Covered(retrieved), recall |-> recall,
       gain |-> recall - e.recall,
       newSupport |-> (Gold \cap ToSet(seen)) \ e.observed]

\* A search, field by field.
LEMMA SearchedIs ==
  ASSUME NEW e, IsEpisode(e), NEW query, NEW titles, NEW seen
  PROVE  LET f == Searched(e, query, titles, seen)
         IN  /\ IsEpisode(f)
             /\ f.attempts = e.attempts /\ f.over = e.over /\ f.failure = e.failure
             /\ f.prediction = e.prediction /\ f.invalid = e.invalid
             /\ f.queries = Append(e.queries, query)
             /\ f.turns = Append(e.turns, NewTurn(e, query, titles, seen))
             /\ f.retrieved = e.retrieved \cup ToSet(titles)
             /\ f.observed = e.observed \cup ToSet(seen)
             /\ f.recall = Covered(f.observed)
<1> DEFINE f == Searched(e, query, titles, seen)
           observed == e.observed \cup ToSet(seen)
<1>1. f = [attempts |-> e.attempts, over |-> e.over, prediction |-> e.prediction,
           failure |-> e.failure, invalid |-> e.invalid,
           queries |-> Append(e.queries, query),
           turns |-> Append(e.turns, NewTurn(e, query, titles, seen)),
           retrieved |-> e.retrieved \cup ToSet(titles), observed |-> observed,
           recall |-> Covered(observed)]
  <2> DEFINE q == Append(e.queries, query)
             t == Append(e.turns, NewTurn(e, query, titles, seen))
             g == e.retrieved \cup ToSet(titles)
             c == Covered(observed)
  <2>1. f = [e EXCEPT !.queries = q, !.retrieved = g, !.observed = observed,
                      !.recall = c, !.turns = t]
    BY DEF Searched, NewTurn
  <2> HIDE DEF f, observed, q, t, g, c
  <2> QED
    BY <2>1 DEF IsEpisode, q, t, g, c
<1> HIDE DEF f, observed
<1>2. IsEpisode(f)
  BY <1>1 DEF IsEpisode
<1>3. /\ f.attempts = e.attempts /\ f.over = e.over /\ f.failure = e.failure
      /\ f.prediction = e.prediction /\ f.invalid = e.invalid
      /\ f.queries = Append(e.queries, query)
      /\ f.turns = Append(e.turns, NewTurn(e, query, titles, seen))
      /\ f.retrieved = e.retrieved \cup ToSet(titles)
      /\ f.observed = observed /\ f.recall = Covered(f.observed)
  BY <1>1
<1> QED
  BY <1>2, <1>3 DEF f, observed

\* A search that shows what it found, in the budget, is a legal turn.
LEMMA TurnsGrow ==
  ASSUME NEW e, IsEpisode(e), TurnsAreSound(e), NEW query, NEW titles, NEW seen,
         Len(titles) <= Topk, ToSet(seen) \subseteq ToSet(titles)
  PROVE  TurnsAreSound(Searched(e, query, titles, seen))
<1> DEFINE f == Searched(e, query, titles, seen)
           n == Len(e.turns)
           t == NewTurn(e, query, titles, seen)
<1>1. /\ f.queries = Append(e.queries, query) /\ f.turns = Append(e.turns, t)
      /\ f.retrieved = e.retrieved \cup ToSet(titles)
      /\ f.observed = e.observed \cup ToSet(seen)
      /\ f.recall = Covered(f.observed)
  BY SearchedIs
<1>2. IsList(e.turns) /\ IsList(e.queries) /\ n \in Nat /\ Len(e.queries) = n
      /\ DOMAIN e.turns = 1..n
  BY ListIs DEF TurnsAreSound
<1>3. /\ e.retrieved = Recorded(e, n) /\ e.observed = RecordedSeen(e, n)
      /\ e.recall = Covered(e.observed)
      /\ \A i \in 1..n: TurnIsLegal(Row(e), i)
  BY <1>2 DEF TurnsAreSound
<1>4. /\ t.turn = n + 1 /\ t.query = query /\ t.retrieved = titles /\ t.observed = seen
      /\ t.retrievedRecall = Covered(e.retrieved \cup ToSet(titles))
      /\ t.recall = Covered(e.observed \cup ToSet(seen))
      /\ t.gain = t.recall - e.recall
      /\ t.newSupport = (Gold \cap ToSet(seen)) \ e.observed
  BY <1>2 DEF NewTurn
<1> HIDE DEF f, n, t
<1>5. /\ IsList(f.turns) /\ Len(f.turns) = n + 1 /\ DOMAIN f.turns = 1..(n + 1)
      /\ (\A i \in 1..n: f.turns[i] = e.turns[i]) /\ f.turns[n + 1] = t
  <2>1. PICK s: s = e.turns
    OBVIOUS
  <2>2. IsList(s) /\ Len(s) = n
    BY <1>2, <2>1 DEF n
  <2>3. /\ IsList(Append(s, t)) /\ Len(Append(s, t)) = n + 1 /\ DOMAIN Append(s, t) = 1..(n + 1)
        /\ (\A i \in 1..n: Append(s, t)[i] = s[i]) /\ Append(s, t)[n + 1] = t
    BY <2>2, AppendIs
  <2> QED
    BY <1>1, <2>1, <2>3
<1>6. /\ IsList(f.queries) /\ Len(f.queries) = n + 1
      /\ (\A i \in 1..n: f.queries[i] = e.queries[i]) /\ f.queries[n + 1] = query
  <2>1. PICK s: s = e.queries
    OBVIOUS
  <2>2. IsList(s) /\ Len(s) = n
    BY <1>2, <2>1
  <2>3. /\ IsList(Append(s, query)) /\ Len(Append(s, query)) = n + 1
        /\ (\A i \in 1..n: Append(s, query)[i] = s[i]) /\ Append(s, query)[n + 1] = query
    BY <2>2, AppendIs
  <2> QED
    BY <1>1, <2>1, <2>3
<1> DEFINE r == Row(e)
           s == Row(f)
<1>7. /\ r.topk = s.topk /\ s.topk = Topk /\ r.turns = e.turns /\ s.turns = f.turns
      /\ r.queries = e.queries /\ s.queries = f.queries
  BY RowIs
<1> HIDE DEF r, s
<1>8. ASSUME NEW i \in 1..n PROVE TurnIsLegal(s, i)
  <2>1. i \in Nat \ {0} /\ TurnIsLegal(r, i)
    BY <1>2, <1>3 DEF r
  <2>2. \A j \in 1..i: r.turns[j] = s.turns[j] /\ r.queries[j] = s.queries[j]
    <3>1. \A j \in 1..i: j \in 1..n
      BY <1>2
    <3> QED
      BY <1>5, <1>6, <1>7, <3>1
  <2> QED
    BY <1>7, <2>1, <2>2, LegalTurnStays
<1>9. /\ Recorded(f, n) = e.retrieved /\ RecordedSeen(f, n) = e.observed
      /\ Recorded(f, n + 1) = f.retrieved /\ RecordedSeen(f, n + 1) = f.observed
  <2>1. Recorded(f, n) = e.retrieved /\ RecordedSeen(f, n) = e.observed
    BY <1>3, <1>5 DEF Recorded, RecordedSeen
  <2>2. 1..(n + 1) = (1..n) \cup {n + 1}
    BY <1>2
  <2>3. /\ Recorded(f, n + 1) = Recorded(f, n) \cup ToSet(f.turns[n + 1].retrieved)
        /\ RecordedSeen(f, n + 1) = RecordedSeen(f, n) \cup ToSet(f.turns[n + 1].observed)
    BY <2>2 DEF Recorded, RecordedSeen
  <2> QED
    BY <1>1, <1>4, <1>5, <2>1, <2>3
<1>10. e.recall = IF n = 0 THEN 0 ELSE e.turns[n].recall
  <2>1. CASE n = 0
    <3>1. RecordedSeen(e, 0) = {}
      BY DEF RecordedSeen
    <3> QED
      BY <1>3, <2>1, <3>1, CoveredIs
  <2>2. CASE n # 0
    <3>1. TurnIsLegal(r, n)
      BY <1>2, <1>3, <2>2 DEF r
    <3>2. r.turns[n].recall = Covered(RecordedSeen(r, n))
      BY <3>1 DEF TurnIsLegal
    <3>3. RecordedSeen(r, n) = RecordedSeen(e, n)
      BY <1>7 DEF RecordedSeen
    <3> QED
      BY <1>3, <1>7, <2>2, <3>2, <3>3
  <2> QED
    BY <2>1, <2>2
<1>11. e.observed \subseteq e.retrieved
  <2>1. \A i \in 1..n: ToSet(e.turns[i].observed) \subseteq ToSet(e.turns[i].retrieved)
    <3>1. ASSUME NEW i \in 1..n
          PROVE  ToSet(e.turns[i].observed) \subseteq ToSet(e.turns[i].retrieved)
      <4>1. TurnIsLegal(r, i)
        BY <1>3 DEF r
      <4>2. ToSet(r.turns[i].observed) \subseteq ToSet(r.turns[i].retrieved)
        BY <4>1 DEF TurnIsLegal
      <4> QED
        BY <1>7, <4>2
    <3> QED
      BY <3>1
  <2> QED
    BY <1>3, <2>1 DEF Recorded, RecordedSeen
<1>12. /\ t.recall = Covered(f.observed) /\ t.retrievedRecall = Covered(f.retrieved)
       /\ e.recall <= t.recall /\ t.recall <= t.retrievedRecall
  <2>1. t.recall = Covered(f.observed) /\ t.retrievedRecall = Covered(f.retrieved)
    BY <1>1, <1>4
  <2>2. e.observed \subseteq f.observed /\ f.observed \subseteq f.retrieved
    BY <1>1, <1>11
  <2>3. Covered(e.observed) <= Covered(f.observed)
    BY <2>2, CoveredIs
  <2>4. Covered(f.observed) <= Covered(f.retrieved)
    BY <2>2, CoveredIs
  <2> QED
    BY <1>3, <2>1, <2>3, <2>4
<1>13. TurnIsLegal(s, n + 1)
  <2>1. n + 1 \in Nat /\ (n + 1) - 1 = n /\ (n + 1 = 1 <=> n = 0)
    BY <1>2
  <2>2. s.turns[n + 1] = t /\ (n # 0 => s.turns[n] = e.turns[n]) /\ s.queries[n + 1] = query
    <3>1. n # 0 => n \in 1..n
      BY <1>2
    <3> QED
      BY <1>5, <1>6, <1>7, <3>1
  <2> DEFINE before == IF n + 1 = 1 THEN 0 ELSE s.turns[(n + 1) - 1].recall
  <2>3. before = e.recall
    BY <1>10, <2>1, <2>2
  <2> HIDE DEF before
  <2>4. /\ RecordedSeen(s, (n + 1) - 1) = e.observed
        /\ Recorded(s, n + 1) = f.retrieved /\ RecordedSeen(s, n + 1) = f.observed
    BY <1>7, <1>9, <2>1 DEF Recorded, RecordedSeen
  <2>5. /\ s.turns[n + 1].turn = n + 1 /\ s.turns[n + 1].query = s.queries[n + 1]
        /\ Len(s.turns[n + 1].retrieved) <= s.topk
        /\ ToSet(s.turns[n + 1].observed) \subseteq ToSet(s.turns[n + 1].retrieved)
        /\ s.turns[n + 1].newSupport = (Gold \intersect ToSet(s.turns[n + 1].observed))
                                       \ RecordedSeen(s, (n + 1) - 1)
    BY <1>4, <1>7, <2>2, <2>4
  <2>6. /\ s.turns[n + 1].retrievedRecall = Covered(Recorded(s, n + 1))
        /\ s.turns[n + 1].recall = Covered(RecordedSeen(s, n + 1))
        /\ before <= s.turns[n + 1].recall
        /\ s.turns[n + 1].recall <= s.turns[n + 1].retrievedRecall
        /\ s.turns[n + 1].gain = s.turns[n + 1].recall - before
    BY <1>4, <1>12, <2>2, <2>3, <2>4
  <2> QED
    BY <2>5, <2>6 DEF TurnIsLegal, before
<1>14. \A i \in 1..(n + 1): TurnIsLegal(s, i)
  <2>1. \A i \in 1..(n + 1): i \in 1..n \/ i = n + 1
    BY <1>2
  <2> QED
    BY <1>8, <1>13, <2>1
<1>15. TurnsAreSound(f)
  BY <1>1, <1>5, <1>6, <1>9, <1>14 DEF TurnsAreSound, s
<1> QED
  BY <1>15 DEF f

\* The episode before anything was said.
LEMMA NewEpisodeIs ==
  ASSUME NEW turns \in Nat
  PROVE  Sound(NewEpisode, turns)
<1> DEFINE e == NewEpisode
<1>1. /\ e.attempts = 0 /\ e.over = FALSE /\ e.prediction = "" /\ e.failure = 0
      /\ e.invalid = 0 /\ e.queries = <<>> /\ e.turns = <<>> /\ e.retrieved = {}
      /\ e.observed = {} /\ e.recall = 0
  BY DEF NewEpisode
<1>2. IsEpisode(e)
  BY DEF NewEpisode, IsEpisode
<1> HIDE DEF e
<1>3. IsList(<<>>) /\ Len(<<>>) = 0 /\ DOMAIN <<>> = {}
  BY DEF IsList
<1>4. Recorded(e, 0) = {} /\ RecordedSeen(e, 0) = {}
  BY DEF Recorded, RecordedSeen
<1>5. TurnsAreSound(e)
  BY <1>1, <1>3, <1>4, CoveredIs DEF TurnsAreSound
<1>6. Counted(e, turns)
  <2>1. e.over \in BOOLEAN /\ ~e.over
    BY <1>1
  <2>2. e.attempts = 0 /\ e.failure = 0 /\ e.invalid = 0
    BY <1>1, Zenon
  <2>3. e.attempts \in Nat /\ e.failure \in {0, 1} /\ e.invalid \in Nat
    BY <2>2
  <2>4. IsList(e.queries) /\ Len(e.queries) = 0
    BY <1>1, <1>3
  <2>5. /\ Len(e.queries) <= turns /\ Len(e.queries) + e.invalid <= turns + e.failure
        /\ Len(e.queries) + e.invalid = e.attempts /\ e.attempts <= turns
    BY <2>4, <2>2
  <2>6. e.failure = 0 /\ e.prediction = ""
    BY <1>1
  <2> QED
    BY <2>1, <2>3, <2>4, <2>5, <2>6 DEF Counted
<1> QED
  BY <1>2, <1>5, <1>6 DEF Sound, e

\* Nothing is searched between the two episodes.
Unsearched(e, f) ==
  /\ f.queries = e.queries /\ f.turns = e.turns /\ f.retrieved = e.retrieved
  /\ f.observed = e.observed /\ f.recall = e.recall

\* What a result adds to an episode.
Finds(e, f, query, results) ==
  /\ f.queries = Append(e.queries, query)
  /\ f.turns = Append(e.turns, NewTurn(e, query, Titles(results), ObservedTitles(results)))
  /\ f.retrieved = e.retrieved \cup ToSet(Titles(results))
  /\ f.observed = e.observed \cup ToSet(ObservedTitles(results))
  /\ f.recall = Covered(f.observed)

\* The end of an episode, with or without an answer.
EndsWith(e, f, answer, failure, invalid) ==
  /\ f.over = TRUE /\ f.prediction = answer /\ f.failure = failure /\ f.invalid = invalid
  /\ Unsearched(e, f)

\* The attempt is counted first.
LEMMA BegunIs ==
  ASSUME NEW e, IsEpisode(e)
  PROVE  LET f == [e EXCEPT !.attempts = @ + 1]
         IN  /\ IsEpisode(f) /\ f.attempts = e.attempts + 1
             /\ f.over = e.over /\ f.prediction = e.prediction /\ f.failure = e.failure
             /\ f.invalid = e.invalid /\ Unsearched(e, f)
<1> DEFINE f == [e EXCEPT !.attempts = @ + 1]
<1>1. f = [attempts |-> e.attempts + 1, over |-> e.over, prediction |-> e.prediction,
           failure |-> e.failure, invalid |-> e.invalid, queries |-> e.queries,
           turns |-> e.turns, retrieved |-> e.retrieved, observed |-> e.observed,
           recall |-> e.recall]
  BY DEF IsEpisode
<1> HIDE DEF f
<1>2. IsEpisode(f)
  BY <1>1 DEF IsEpisode
<1> QED
  BY <1>1, <1>2 DEF Unsearched, f

\* An answer ends the episode.
LEMMA AnsweredIs ==
  ASSUME NEW e, IsEpisode(e), NEW answer
  PROVE  LET f == Answered(e, answer)
         IN  /\ IsEpisode(f) /\ f.attempts = e.attempts
             /\ EndsWith(e, f, answer, e.failure, e.invalid)
<1> DEFINE f == Answered(e, answer)
<1>1. f = [attempts |-> e.attempts, over |-> TRUE, prediction |-> answer,
           failure |-> e.failure, invalid |-> e.invalid, queries |-> e.queries,
           turns |-> e.turns, retrieved |-> e.retrieved, observed |-> e.observed,
           recall |-> e.recall]
  <2>1. f = [e EXCEPT !.prediction = answer, !.over = TRUE]
    BY DEF Answered
  <2> HIDE DEF f
  <2> QED
    BY <2>1 DEF IsEpisode
<1> HIDE DEF f
<1>2. IsEpisode(f)
  BY <1>1 DEF IsEpisode
<1>3. f.over = TRUE
  BY <1>1
<1> QED
  BY <1>1, <1>2, <1>3 DEF Unsearched, EndsWith, f

\* A malformed action is counted.
LEMMA MalformedIs ==
  ASSUME NEW e, IsEpisode(e)
  PROVE  LET f == Malformed(e)
         IN  /\ IsEpisode(f) /\ f.attempts = e.attempts /\ f.over = e.over
             /\ f.prediction = e.prediction /\ f.failure = e.failure
             /\ f.invalid = e.invalid + 1 /\ Unsearched(e, f)
<1> DEFINE f == Malformed(e)
<1>1. f = [attempts |-> e.attempts, over |-> e.over, prediction |-> e.prediction,
           failure |-> e.failure, invalid |-> e.invalid + 1, queries |-> e.queries,
           turns |-> e.turns, retrieved |-> e.retrieved, observed |-> e.observed,
           recall |-> e.recall]
  BY DEF IsEpisode, Malformed
<1> HIDE DEF f
<1>2. IsEpisode(f)
  BY <1>1 DEF IsEpisode
<1> QED
  BY <1>1, <1>2 DEF Unsearched, f

\* Without an answer, the forced final action ends in a protocol failure.
LEMMA FinalIs ==
  ASSUME NEW e, IsEpisode(e), NEW action, action.kind # "answer", e.invalid \in Nat
  PROVE  LET f == Final(e, action)
         IN  /\ IsEpisode(f) /\ f.attempts = e.attempts
             /\ EndsWith(e, f, e.prediction, 1,
                         IF action.kind = "invalid" THEN e.invalid + 1 ELSE e.invalid)
<1> DEFINE f == Final(e, action)
           n == e.invalid + (IF action.kind = "invalid" THEN 1 ELSE 0)
<1>1. f = [attempts |-> e.attempts, over |-> TRUE, prediction |-> e.prediction,
           failure |-> 1, invalid |-> n, queries |-> e.queries,
           turns |-> e.turns, retrieved |-> e.retrieved, observed |-> e.observed,
           recall |-> e.recall]
  <2>1. f = [e EXCEPT !.over = TRUE, !.failure = 1, !.invalid = n]
    BY DEF Final
  <2> HIDE DEF f, n
  <2> QED
    BY <2>1 DEF IsEpisode
<1>2. n = IF action.kind = "invalid" THEN e.invalid + 1 ELSE e.invalid
  OBVIOUS
<1> HIDE DEF f, n
<1>3. IsEpisode(f)
  BY <1>1 DEF IsEpisode
<1>4. f.over = TRUE
  BY <1>1
<1> QED
  BY <1>1, <1>2, <1>3, <1>4 DEF Unsearched, EndsWith, f

\* One text, in an episode that is not over.
LEMMA StepIs ==
  ASSUME NEW e, IsEpisode(e), ~e.over, e.attempts \in Nat, e.invalid \in Nat,
         NEW b, NEW turns \in Nat, NEW text \in Seq(Blocks)
  PROVE  LET f == Step(e, b, turns, text)
             action == ParseAction(text)
         IN  /\ IsEpisode(f) /\ f.attempts = e.attempts + 1
             /\ action.kind = "answer" => EndsWith(e, f, action.value, e.failure, e.invalid)
             /\ action.kind # "answer" /\ ~(e.attempts < turns) =>
                  EndsWith(e, f, e.prediction, 1,
                           IF action.kind = "invalid" THEN e.invalid + 1 ELSE e.invalid)
             /\ action.kind # "answer" /\ e.attempts < turns =>
                  /\ f.over = e.over /\ f.prediction = e.prediction /\ f.failure = e.failure
                  /\ action.kind = "search" =>
                       /\ f.invalid = e.invalid
                       /\ Finds(e, f, action.value, Normalized(Search(b, action.value)))
                  /\ action.kind = "invalid" => f.invalid = e.invalid + 1 /\ Unsearched(e, f)
<1> DEFINE f == Step(e, b, turns, text)
           action == ParseAction(text)
           g == [e EXCEPT !.attempts = @ + 1]
<1>1. /\ IsEpisode(g) /\ g.attempts = e.attempts + 1 /\ g.over = e.over
      /\ g.prediction = e.prediction /\ g.failure = e.failure
      /\ g.invalid = e.invalid /\ Unsearched(e, g)
  BY BegunIs
<1>2. f = IF e.attempts < turns
          THEN (CASE action.kind = "answer" -> Answered(g, action.value)
                  [] action.kind = "search" ->
                       Received(g, action.value, Normalized(Search(b, action.value)))
                  [] OTHER -> Malformed(g))
          ELSE Final(g, action)
  <2>1. f = IF e.over THEN e
            ELSE IF e.attempts < turns THEN Attempt(g, b, action) ELSE Final(g, action)
    BY DEF Step
  <2> HIDE DEF f, g, action
  <2> QED
    BY <2>1 DEF Attempt
<1>3. action.kind \in {"search", "answer", "invalid"}
  BY ActionIs
<1> HIDE DEF f, g, action
<1>4. CASE action.kind = "answer"
  <2>1. f = Answered(g, action.value)
    BY <1>2, <1>4 DEF Final
  <2>2. IsEpisode(f) /\ f.attempts = g.attempts
        /\ EndsWith(g, f, action.value, g.failure, g.invalid)
    BY <1>1, <2>1, AnsweredIs
  <2>3. EndsWith(e, f, action.value, e.failure, e.invalid)
    BY <1>1, <2>2 DEF EndsWith, Unsearched
  <2> QED
    BY <1>1, <1>4, <2>2, <2>3 DEF f, action
<1>5. CASE action.kind # "answer" /\ ~(e.attempts < turns)
  <2> DEFINE n == IF action.kind = "invalid" THEN g.invalid + 1 ELSE g.invalid
  <2>1. f = Final(g, action)
    BY <1>2, <1>5
  <2>2. IsEpisode(f) /\ f.attempts = g.attempts
        /\ EndsWith(g, f, g.prediction, 1, n)
    BY <1>1, <1>5, <2>1, FinalIs
  <2>3. EndsWith(e, f, e.prediction, 1,
                 IF action.kind = "invalid" THEN e.invalid + 1 ELSE e.invalid)
    BY <1>1, <2>2 DEF EndsWith, Unsearched
  <2> QED
    BY <1>1, <1>5, <2>2, <2>3 DEF f, action
<1>6. CASE action.kind = "search" /\ e.attempts < turns
  <2> DEFINE results == Normalized(Search(b, action.value))
             titles == Titles(results)
             seen == ObservedTitles(results)
  <2>1. f = Searched(g, action.value, titles, seen)
    BY <1>2, <1>6 DEF Received
  <2> HIDE DEF results, titles, seen
  <2>2. /\ IsEpisode(f) /\ f.attempts = g.attempts /\ f.over = g.over
        /\ f.failure = g.failure /\ f.prediction = g.prediction /\ f.invalid = g.invalid
        /\ f.queries = Append(g.queries, action.value)
        /\ f.turns = Append(g.turns, NewTurn(g, action.value, titles, seen))
        /\ f.retrieved = g.retrieved \cup ToSet(titles)
        /\ f.observed = g.observed \cup ToSet(seen)
        /\ f.recall = Covered(f.observed)
    BY <1>1, <2>1, SearchedIs, SMTT(30)
  <2>3. NewTurn(g, action.value, titles, seen) = NewTurn(e, action.value, titles, seen)
    BY <1>1 DEF NewTurn, Unsearched
  <2>4. Finds(e, f, action.value, results)
    BY <1>1, <2>2, <2>3 DEF Finds, Unsearched, titles, seen
  <2>5. /\ IsEpisode(f) /\ f.attempts = e.attempts + 1 /\ f.over = e.over
        /\ f.prediction = e.prediction /\ f.failure = e.failure /\ f.invalid = e.invalid
    BY <1>1, <2>2
  <2> QED
    BY <1>6, <2>4, <2>5 DEF f, action, results
<1>7. CASE action.kind = "invalid" /\ e.attempts < turns
  <2>1. f = Malformed(g)
    BY <1>2, <1>7
  <2>2. /\ IsEpisode(f) /\ f.attempts = g.attempts /\ f.over = g.over
        /\ f.prediction = g.prediction /\ f.failure = g.failure
        /\ f.invalid = g.invalid + 1 /\ Unsearched(g, f)
    BY <1>1, <2>1, MalformedIs
  <2>3. /\ IsEpisode(f) /\ f.attempts = e.attempts + 1 /\ f.over = e.over
        /\ f.prediction = e.prediction /\ f.failure = e.failure
        /\ f.invalid = e.invalid + 1 /\ Unsearched(e, f)
    BY <1>1, <2>2 DEF Unsearched
  <2> QED
    BY <1>7, <2>3 DEF f, action
<1> QED
  BY <1>3, <1>4, <1>5, <1>6, <1>7 DEF action

\* Every text keeps the counters and the turns of an episode sound.
LEMMA StepKeeps ==
  ASSUME NEW turns \in Nat, NEW b \in Everywhere, NEW text, Sayable(text),
         NEW e, Sound(e, turns)
  PROVE  Sound(Step(e, b, turns, text), turns)
<1> DEFINE f == Step(e, b, turns, text)
           action == ParseAction(text)
           n == Len(e.queries)
<1>1. CASE e.over
  BY <1>1 DEF Step
<1>2. CASE ~e.over
  <2> SUFFICES Sound(f, turns)
    OBVIOUS
  <2>1. IsEpisode(e) /\ TurnsAreSound(e)
    BY DEF Sound
  <2>2. /\ e.attempts \in Nat /\ e.invalid \in Nat /\ IsList(e.queries) /\ n <= turns
        /\ n + e.invalid = e.attempts /\ e.attempts <= turns
    BY <1>2 DEF Sound, Counted
  <2>3. e.failure = 0 /\ e.prediction = ""
    BY <1>2 DEF Sound, Counted
  <2>4. text \in Seq(Blocks) /\ n \in Nat
    BY <2>2, ListIs DEF Sayable
  <2>5. action.kind \in {"search", "answer", "invalid"}
        /\ (action.kind # "invalid" => action.value # "")
    BY <2>4, ActionIs
  <2>6. /\ IsEpisode(f) /\ f.attempts = e.attempts + 1
        /\ action.kind = "answer" => EndsWith(e, f, action.value, e.failure, e.invalid)
        /\ action.kind # "answer" /\ ~(e.attempts < turns) =>
             EndsWith(e, f, e.prediction, 1,
                      IF action.kind = "invalid" THEN e.invalid + 1 ELSE e.invalid)
        /\ action.kind # "answer" /\ e.attempts < turns =>
             /\ f.over = e.over /\ f.prediction = e.prediction /\ f.failure = e.failure
             /\ action.kind = "search" =>
                  /\ f.invalid = e.invalid
                  /\ Finds(e, f, action.value, Normalized(Search(b, action.value)))
             /\ action.kind = "invalid" => f.invalid = e.invalid + 1 /\ Unsearched(e, f)
    BY <1>2, <2>1, <2>2, <2>4, StepIs
  <2> HIDE DEF f, action, n
  <2>7. IsEpisode(f) /\ f.attempts = e.attempts + 1
    BY <2>6
  <2>8. /\ e.attempts \in Nat /\ e.invalid \in Nat /\ n \in Nat
        /\ n + e.invalid = e.attempts /\ e.attempts <= turns /\ f.attempts = e.attempts + 1
    BY <2>2, <2>4, <2>7
  <2>9. ASSUME Unsearched(e, f) PROVE TurnsAreSound(f) /\ f.queries = e.queries
    BY <2>1, <2>9, TurnsStay DEF Unsearched
  <2>10. CASE action.kind = "answer"
    <3>1. EndsWith(e, f, action.value, e.failure, e.invalid)
      BY <2>6, <2>10
    <3>2. TurnsAreSound(f) /\ f.queries = e.queries
      BY <2>9, <3>1 DEF EndsWith
    <3>3. f.over = TRUE /\ f.prediction # ""
      BY <2>5, <2>10, <3>1 DEF EndsWith
    <3>4. f.over \in BOOLEAN /\ f.over
      BY <3>3
    <3>5. f.failure = 0 /\ f.invalid = e.invalid
      BY <2>3, <3>1 DEF EndsWith
    <3>6. Counted(f, turns)
      <4>1. /\ f.attempts \in Nat /\ f.failure \in {0, 1} /\ f.invalid \in Nat
            /\ IsList(f.queries) /\ Len(f.queries) <= turns
            /\ Len(f.queries) + f.invalid <= turns + f.failure
        BY <2>2, <2>4, <2>7, <3>2, <3>5 DEF n
      <4> QED
        <5>1. f.failure = 0
          BY <3>5
        <5>2. f.failure # 1
          BY <5>1
        <5>3. f.failure # 1 /\ f.prediction # ""
          BY <3>3, <5>2, Zenon
        <5> QED
          BY <3>4, <4>1, <5>3 DEF Counted
    <3> QED
      BY <2>7, <3>2, <3>6 DEF Sound
  <2>11. CASE action.kind # "answer" /\ ~(e.attempts < turns)
    <3> DEFINE i == IF action.kind = "invalid" THEN e.invalid + 1 ELSE e.invalid
    <3>1. EndsWith(e, f, e.prediction, 1, i)
      BY <2>6, <2>11
    <3>2. TurnsAreSound(f) /\ f.queries = e.queries
      BY <2>9, <3>1 DEF EndsWith
    <3>3. f.over = TRUE /\ f.prediction = ""
      BY <2>3, <3>1 DEF EndsWith
    <3>4. f.over \in BOOLEAN /\ f.over
      BY <3>3
    <3>5. f.failure = 1 /\ f.invalid \in Nat /\ f.invalid <= e.invalid + 1
      BY <2>2, <3>1 DEF EndsWith
    <3>6. Counted(f, turns)
      <4>1. /\ f.attempts \in Nat /\ f.failure \in {0, 1} /\ f.invalid \in Nat
            /\ IsList(f.queries) /\ Len(f.queries) <= turns
            /\ Len(f.queries) + f.invalid <= turns + f.failure
        BY <2>2, <2>4, <2>7, <3>2, <3>5, SMTT(30) DEF n
      <4> QED
        BY <3>3, <3>4, <3>5, <4>1 DEF Counted
    <3> QED
      BY <2>7, <3>2, <3>6 DEF Sound
  <2>12. CASE action.kind = "search" /\ e.attempts < turns
    <3> DEFINE found == Search(b, action.value)
               results == Normalized(found)
               titles == Titles(results)
               seen == ObservedTitles(results)
    <3>1. f.over = e.over /\ f.prediction = e.prediction /\ f.failure = e.failure
          /\ f.invalid = e.invalid /\ Finds(e, f, action.value, results)
      BY <2>6, <2>12
    <3>2. Answerable(action.value)
      BY <2>12 DEF Sayable, action
    <3>3. IsList(found) /\ Len(found) <= Topk
      BY <3>2, SearchIs
    <3> HIDE DEF found
    <3>4. IsList(results) /\ Len(results) <= Topk
      BY <3>3, RenderedIs
    <3> HIDE DEF results
    <3>5. Len(titles) <= Topk /\ ToSet(seen) \subseteq ToSet(titles)
      BY <3>4, RenderedIs, ObservedAre
    <3>6. TurnsAreSound(f)
      <4> DEFINE g == Searched(e, action.value, titles, seen)
      <4>1. TurnsAreSound(g)
        BY <2>1, <3>5, TurnsGrow
      <4>2. /\ g.queries = Append(e.queries, action.value)
            /\ g.turns = Append(e.turns, NewTurn(e, action.value, titles, seen))
            /\ g.retrieved = e.retrieved \cup ToSet(titles)
            /\ g.observed = e.observed \cup ToSet(seen)
            /\ g.recall = Covered(g.observed)
        BY <2>1, SearchedIs
      <4> HIDE DEF g
      <4>3. f.turns = g.turns /\ f.queries = g.queries /\ f.retrieved = g.retrieved
            /\ f.observed = g.observed /\ f.recall = g.recall
        BY <3>1, <4>2 DEF Finds
      <4> QED
        BY <4>1, <4>3, TurnsStay
    <3>7. IsList(f.queries) /\ Len(f.queries) = n + 1
      <4>1. f.queries = Append(e.queries, action.value)
        BY <3>1 DEF Finds
      <4> QED
        BY <2>2, <4>1, AppendIs DEF n
    <3>8. Counted(f, turns)
      <4>1. f.over \in BOOLEAN /\ ~f.over
        BY <1>2, <3>1 DEF Sound, Counted
      <4>2. f.failure = 0 /\ f.prediction = ""
        BY <2>3, <3>1
      <4>3. f.invalid = e.invalid /\ e.attempts < turns
        BY <2>12, <3>1
      <4>4. /\ f.attempts \in Nat /\ f.failure \in {0, 1} /\ f.invalid \in Nat
            /\ IsList(f.queries) /\ Len(f.queries) <= turns
            /\ Len(f.queries) + f.invalid <= turns + f.failure
        <5>1. f.failure = 0
          BY <4>2
        <5> QED
          BY <2>8, <3>7, <4>3, <5>1
      <4>5. Len(f.queries) + f.invalid = f.attempts /\ f.attempts <= turns
        BY <2>8, <3>7, <4>3
      <4> QED
        BY <4>1, <4>2, <4>4, <4>5 DEF Counted
    <3> QED
      BY <2>7, <3>6, <3>8 DEF Sound
  <2>13. CASE action.kind = "invalid" /\ e.attempts < turns
    <3>1. f.over = e.over /\ f.prediction = e.prediction /\ f.failure = e.failure
          /\ f.invalid = e.invalid + 1 /\ Unsearched(e, f)
      BY <2>6, <2>13
    <3>2. TurnsAreSound(f) /\ f.queries = e.queries
      BY <2>9, <3>1
    <3>3. f.over \in BOOLEAN /\ ~f.over
      BY <1>2, <3>1 DEF Sound, Counted
    <3>4. f.failure = 0 /\ f.prediction = ""
      BY <2>3, <3>1
    <3>5. Counted(f, turns)
      <4>1. f.invalid = e.invalid + 1 /\ e.attempts < turns
        BY <2>13, <3>1
      <4>2. /\ f.attempts \in Nat /\ f.failure \in {0, 1} /\ f.invalid \in Nat
            /\ IsList(f.queries) /\ Len(f.queries) <= turns
            /\ Len(f.queries) + f.invalid <= turns + f.failure
        <5>1. f.failure = 0
          BY <3>4
        <5>2. IsList(f.queries) /\ Len(f.queries) = n
          BY <2>2, <3>2 DEF n
        <5>3. f.attempts \in Nat /\ f.invalid \in Nat /\ n <= turns /\ n + f.invalid <= turns
          BY <2>8, <4>1
        <5> QED
          BY <5>1, <5>2, <5>3
      <4>3. Len(f.queries) + f.invalid = f.attempts /\ f.attempts <= turns
        BY <2>2, <2>4, <2>7, <3>2, <4>1, SMTT(30) DEF n
      <4> QED
        BY <3>3, <3>4, <4>2, <4>3 DEF Counted
    <3> QED
      BY <2>7, <3>2, <3>5 DEF Sound
  <2> QED
    BY <2>5, <2>10, <2>11, <2>12, <2>13
<1> QED
  BY <1>1, <1>2

\* Two episodes that hear the same, whatever their retrievers find.
Alike(e, f) == e.over = f.over /\ e.attempts = f.attempts

\* One text moves two episodes that are alike to two that are alike ...
LEMMA StepAlike ==
  ASSUME NEW turns \in Nat, NEW b \in Everywhere, NEW c \in Everywhere,
         NEW text, Sayable(text),
         NEW e, Sound(e, turns), NEW f, Sound(f, turns), Alike(e, f)
  PROVE  Alike(Step(e, b, turns, text), Step(f, c, turns, text))
<1>1. CASE e.over
  <2>1. f.over
    BY <1>1 DEF Alike
  <2>2. Step(e, b, turns, text) = e /\ Step(f, c, turns, text) = f
    BY <1>1, <2>1 DEF Step
  <2> QED
    BY <2>2
<1>2. CASE ~e.over
  <2> DEFINE action == ParseAction(text)
             ends == action.kind = "answer" \/ ~(e.attempts < turns)
  <2>1. text \in Seq(Blocks)
    BY DEF Sayable
  <2>2. ASSUME NEW d \in Everywhere, NEW g, Sound(g, turns), Alike(e, g)
        PROVE  /\ Step(g, d, turns, text).attempts = e.attempts + 1
               /\ Step(g, d, turns, text).over = IF ends THEN TRUE ELSE e.over
    <3>1. /\ IsEpisode(g) /\ ~g.over /\ g.attempts \in Nat /\ g.invalid \in Nat
          /\ g.attempts = e.attempts /\ g.over = e.over
      BY <1>2, <2>2 DEF Sound, Counted, Alike
    <3> DEFINE h == Step(g, d, turns, text)
    <3>2. /\ h.attempts = g.attempts + 1
          /\ action.kind = "answer" => h.over = TRUE
          /\ action.kind # "answer" /\ ~(g.attempts < turns) => h.over = TRUE
          /\ action.kind # "answer" /\ g.attempts < turns => h.over = g.over
      <4>1. /\ h.attempts = g.attempts + 1
            /\ action.kind = "answer" => EndsWith(g, h, action.value, g.failure, g.invalid)
            /\ action.kind # "answer" /\ ~(g.attempts < turns) =>
                 EndsWith(g, h, g.prediction, 1,
                          IF action.kind = "invalid" THEN g.invalid + 1 ELSE g.invalid)
            /\ action.kind # "answer" /\ g.attempts < turns => h.over = g.over
        BY <2>1, <3>1, StepIs
      <4> QED
        BY <4>1 DEF EndsWith
    <3> HIDE DEF h, action
    <3> QED
      BY <3>1, <3>2 DEF h
  <2>3. Alike(e, e)
    BY DEF Alike
  <2> HIDE DEF ends
  <2> QED
    BY <2>2, <2>3 DEF Alike
<1> QED
  BY <1>1, <1>2

\* A script: what a policy said, turn by turn.
IsScript(s) == IsList(s) /\ \A i \in DOMAIN s: Sayable(s[i])

(***************************************************************************)
(* Whatever is said, an episode is sound all along, on any retriever, ...  *)
(***************************************************************************)
LEMMA EpisodeIsSound ==
  ASSUME NEW turns \in Nat, NEW b \in Everywhere, NEW s, IsScript(s)
  PROVE  Sound(RunEpisode(b, turns, s), turns)
<1> DEFINE n == Len(s)
<1>1. n \in Nat /\ DOMAIN s = 1..n
  BY ListIs DEF IsScript
<1> HIDE DEF n
<1>2. PICK h: RunEpisode(b, turns, s) = h[n] /\ h[0] = NewEpisode
              /\ \A i \in 1..n: h[i] = Step(h[i - 1], b, turns, s[i])
  <2>1. PICK r: IsRun(r, b, turns, s)
    BY DEF IsRun
  <2>2. \E g: Unfolds(g, r, b, turns, s, n)
    BY <1>1, <2>1, EpisodesAre
  <2> QED
    BY <2>1, <2>2 DEF IsRun, Unfolds
<1> DEFINE S == {i \in 0..n: Sound(h[i], turns)}
<1>3. 0 \in S
  BY <1>1, <1>2, NewEpisodeIs
<1>4. ASSUME NEW i \in 1..n, i - 1 \in S PROVE i \in S
  <2>1. Sound(h[i - 1], turns) /\ Sayable(s[i]) /\ h[i] = Step(h[i - 1], b, turns, s[i])
    BY <1>1, <1>2, <1>4 DEF IsScript
  <2>2. Sound(h[i], turns)
    BY <2>1, StepKeeps
  <2> QED
    BY <1>1, <2>2
<1>5. 0..n \subseteq S
  <2> HIDE DEF S
  <2> QED
    BY <1>1, <1>3, <1>4, Upward
<1> QED
  BY <1>1, <1>2, <1>5

\* ... and it ends with the same text on all of them.
LEMMA EpisodesAreAlike ==
  ASSUME NEW turns \in Nat, NEW b \in Everywhere, NEW c \in Everywhere, NEW s, IsScript(s)
  PROVE  Alike(RunEpisode(b, turns, s), RunEpisode(c, turns, s))
<1> DEFINE n == Len(s)
<1>1. n \in Nat /\ DOMAIN s = 1..n
  BY ListIs DEF IsScript
<1> HIDE DEF n
<1>2. PICK h: RunEpisode(b, turns, s) = h[n] /\ h[0] = NewEpisode
              /\ \A i \in 1..n: h[i] = Step(h[i - 1], b, turns, s[i])
  <2>1. PICK r: IsRun(r, b, turns, s)
    BY DEF IsRun
  <2>2. \E g: Unfolds(g, r, b, turns, s, n)
    BY <1>1, <2>1, EpisodesAre
  <2> QED
    BY <2>1, <2>2 DEF IsRun, Unfolds
<1>3. PICK g: RunEpisode(c, turns, s) = g[n] /\ g[0] = NewEpisode
              /\ \A i \in 1..n: g[i] = Step(g[i - 1], c, turns, s[i])
  <2>1. PICK r: IsRun(r, c, turns, s)
    BY DEF IsRun
  <2>2. \E g: Unfolds(g, r, c, turns, s, n)
    BY <1>1, <2>1, EpisodesAre
  <2> QED
    BY <2>1, <2>2 DEF IsRun, Unfolds
<1> DEFINE Good(i) == Sound(h[i], turns) /\ Sound(g[i], turns) /\ Alike(h[i], g[i])
           S == {i \in 0..n: Good(i)}
<1>4. Good(0)
  BY <1>2, <1>3, NewEpisodeIs DEF Alike
<1>5. ASSUME NEW i \in 1..n, i - 1 \in S PROVE Good(i)
  <2>1. /\ Good(i - 1) /\ Sayable(s[i]) /\ h[i] = Step(h[i - 1], b, turns, s[i])
        /\ g[i] = Step(g[i - 1], c, turns, s[i])
    BY <1>1, <1>2, <1>3, <1>5 DEF IsScript
  <2>2. Sound(h[i], turns) /\ Sound(g[i], turns)
    BY <2>1, StepKeeps
  <2>3. Alike(h[i], g[i])
    BY <2>1, StepAlike
  <2> QED
    BY <2>2, <2>3
<1> HIDE DEF Good
<1>6. 0..n \subseteq S
  <2>1. 0 \in S /\ \A i \in 1..n: i - 1 \in S => i \in S
    BY <1>1, <1>4, <1>5
  <2> HIDE DEF S
  <2> QED
    BY <1>1, <2>1, Upward
<1>7. Good(n)
  BY <1>1, <1>6
<1> QED
  BY <1>2, <1>3, <1>7 DEF Good

\* The recall after the i-th turn is that of the titles seen up to it.
LEMMA RecallIs ==
  ASSUME NEW e, TurnsAreSound(e), NEW i \in Nat \ {0}
  PROVE  /\ Len(e.turns) \in Nat
         /\ RecallAt(e, i) = IF Len(e.turns) = 0 THEN 0
                             ELSE Covered(RecordedSeen(e, Min({i, Len(e.turns)})))
         /\ Len(e.turns) # 0 => Min({i, Len(e.turns)}) \in 1..Len(e.turns)
<1> DEFINE n == Len(e.turns)
           m == Min({i, n})
<1>1. IsList(e.turns) /\ n \in Nat /\ DOMAIN e.turns = 1..n
  BY ListIs DEF TurnsAreSound
<1>2. CASE n = 0
  <2>1. e.turns = <<>>
    <3>1. e.turns \in Seq(Range(e.turns))
      BY <1>1 DEF IsList
    <3> QED
      BY <1>2, <3>1
  <2> QED
    BY <1>1, <1>2, <2>1 DEF RecallAt
<1>3. CASE n # 0
  <2>1. e.turns # <<>>
    BY <1>3
  <2>2. RecallAt(e, i) = e.turns[m].recall
    BY <2>1 DEF RecallAt
  <2>3. m \in 1..n
    <3>1. m = IF i <= n THEN i ELSE n
      <4> HIDE DEF n
      <4> QED
        BY <1>1, MinIs
    <3> HIDE DEF m, n
    <3> QED
      BY <1>1, <1>3, <3>1
  <2>4. TurnIsLegal(Row(e), m)
    BY <1>1, <2>3 DEF TurnsAreSound
  <2> DEFINE r == Row(e)
  <2>5. r.turns = e.turns
    BY RowIs
  <2> HIDE DEF r, m
  <2>6. r.turns[m].recall = Covered(RecordedSeen(r, m))
    BY <2>4 DEF TurnIsLegal, r
  <2>7. RecordedSeen(r, m) = RecordedSeen(e, m)
    BY <2>5 DEF RecordedSeen
  <2>8. RecallAt(e, i) = Covered(RecordedSeen(e, m))
    BY <2>2, <2>5, <2>6, <2>7
  <2> QED
    BY <1>1, <1>3, <2>3, <2>8 DEF m
<1> QED
  BY <1>2, <1>3

\* The last turn has the recalls of the whole episode.
LEMMA LastTurnIs ==
  ASSUME NEW e, TurnsAreSound(e)
  PROVE  /\ Row(e).recall = e.recall
         /\ Row(e).retrievedRecall = Covered(e.retrieved)
<1> DEFINE n == Len(e.turns)
           r == Row(e)
           t == e.turns[n]
<1>1. IsList(e.turns) /\ n \in Nat /\ DOMAIN e.turns = 1..n
      /\ e.retrieved = Recorded(e, n) /\ e.observed = RecordedSeen(e, n)
      /\ e.recall = Covered(e.observed)
  BY ListIs DEF TurnsAreSound
<1>2. /\ r.recall = IF e.turns = <<>> THEN 0 ELSE t.recall
      /\ r.retrievedRecall = IF e.turns = <<>> THEN 0 ELSE t.retrievedRecall
  <2>1. /\ r.recall = IF e.turns = <<>> THEN 0 ELSE Last(e.turns).recall
        /\ r.retrievedRecall = IF e.turns = <<>> THEN 0 ELSE Last(e.turns).retrievedRecall
    BY DEF Row
  <2>2. Last(e.turns) = t
    BY DEF Last
  <2> QED
    BY <2>1, <2>2
<1>3. CASE e.turns = <<>>
  <2>1. n = 0
    BY <1>3
  <2>2. Recorded(e, 0) = {} /\ RecordedSeen(e, 0) = {}
    BY DEF Recorded, RecordedSeen
  <2>3. Covered({}) = 0
    BY CoveredIs
  <2> HIDE DEF r, n
  <2>4. r.recall = 0 /\ r.retrievedRecall = 0
    BY <1>2, <1>3
  <2> QED
    BY <1>1, <2>1, <2>2, <2>3, <2>4 DEF r
<1>4. CASE e.turns # <<>>
  <2>1. n \in 1..n
    <3>1. e.turns \in Seq(Range(e.turns))
      BY <1>1 DEF IsList
    <3>2. n # 0
      BY <1>4, <3>1
    <3> HIDE DEF n
    <3> QED
      BY <1>1, <3>2
  <2>2. TurnIsLegal(r, n)
    BY <1>1, <2>1 DEF TurnsAreSound
  <2>3. r.turns = e.turns
    BY RowIs
  <2> HIDE DEF r, n, t
  <2>4. /\ r.turns[n].recall = Covered(RecordedSeen(r, n))
        /\ r.turns[n].retrievedRecall = Covered(Recorded(r, n))
    BY <2>2 DEF TurnIsLegal
  <2>5. RecordedSeen(r, n) = RecordedSeen(e, n) /\ Recorded(r, n) = Recorded(e, n)
    BY <2>3 DEF RecordedSeen, Recorded
  <2>6. t = r.turns[n]
    BY <2>3 DEF t
  <2> QED
    BY <1>1, <1>2, <1>4, <2>4, <2>5, <2>6 DEF r
<1> QED
  BY <1>3, <1>4

\* The record of an episode that is over satisfies the contract of its readers.
LEMMA SoundIsLegal ==
  ASSUME NEW turns \in Nat, NEW e, Sound(e, turns), e.over
  PROVE  EpisodeIsLegal(Row(e), turns)
<1> DEFINE r == Row(e)
           n == Len(e.turns)
           seen(i) == IF n = 0 THEN 0 ELSE Covered(RecordedSeen(e, Min({i, n})))
<1>1. TurnsAreSound(e) /\ Counted(e, turns)
  BY DEF Sound
<1>2. /\ r.topk = Topk /\ r.turns = e.turns /\ r.queries = e.queries
      /\ r.failure = e.failure /\ r.invalid = e.invalid /\ r.prediction = e.prediction
  BY RowIs
<1>3. IsList(e.turns) /\ n \in Nat /\ DOMAIN e.turns = 1..n /\ Len(e.queries) = n
  BY <1>1, ListIs DEF TurnsAreSound
<1>4. CountsAreLegal(r, turns)
  <2>1. /\ e.failure \in {0, 1} /\ e.invalid \in Nat /\ n <= turns
        /\ n + e.invalid <= turns + e.failure
    BY <1>1, <1>3 DEF Counted
  <2> HIDE DEF r, n
  <2>2. Len(r.turns) = n /\ Len(r.queries) = n /\ r.invalid = e.invalid /\ r.failure = e.failure
    BY <1>2, <1>3 DEF n
  <2> QED
    BY <1>3, <2>1, <2>2 DEF CountsAreLegal
<1>5. AnswerIsLegal(r)
  <2>1. (r.failure = 1) <=> (r.prediction = "")
    <3>1. (e.failure = 1) <=> (e.prediction = "")
      BY <1>1 DEF Counted
    <3> HIDE DEF r
    <3> QED
      BY <1>2, <3>1
  <2>2. r.em = IF e.failure = 1 THEN 0 ELSE ExactMatch(e.prediction)
    BY DEF Row
  <2> HIDE DEF r
  <2> QED
    BY <1>2, <2>1, <2>2 DEF AnswerIsLegal
<1>6. \A i \in DOMAIN r.turns: TurnIsLegal(r, i)
  BY <1>1, <1>2 DEF TurnsAreSound
<1>7. SummaryIsLegal(r)
  <2>1. \A i \in Nat \ {0}: RecallAt(e, i) = seen(i)
    BY <1>1, RecallIs
  <2>2. /\ \A i \in 1..3: r.turnRecall[i] = RecallAt(e, i)
        /\ \A i \in 2..3:
             /\ r.turnGain[i] = GainAt(e, i)
             /\ r.recovery[i] = (FirstMiss(e) /\ RecallAt(e, i) > RecallAt(e, 1))
             /\ r.full[i] = (FirstMiss(e) /\ RecallAt(e, i) = Cardinality(Gold))
    BY DEF Row
  <2>3. \A i \in 1..3: i \in Nat \ {0}
    OBVIOUS
  <2>4. \A i \in 2..3: i \in 1..3 /\ i \in Nat \ {0}
    OBVIOUS
  <2>5. FirstMiss(e) = (seen(1) < Cardinality(Gold))
    BY <2>1 DEF FirstMiss
  <2>6. \A i \in Nat \ {0}: n # 0 => RecordedSeen(r, Min({i, n})) = RecordedSeen(e, Min({i, n}))
    <3> HIDE DEF r
    <3> QED
      BY <1>2 DEF RecordedSeen
  <2>7. r.retrievedRecall = Covered(Recorded(r, n)) /\ r.recall = seen(n)
    <3>1. r.recall = e.recall /\ r.retrievedRecall = Covered(e.retrieved)
      BY <1>1, LastTurnIs
    <3>2. /\ e.retrieved = Recorded(e, n) /\ e.observed = RecordedSeen(e, n)
          /\ e.recall = Covered(e.observed)
      BY <1>1 DEF TurnsAreSound
    <3>3. Recorded(r, n) = Recorded(e, n)
      <4> HIDE DEF r
      <4> QED
        BY <1>2 DEF Recorded
    <3>4. CASE n = 0
      <4>1. RecordedSeen(e, 0) = {} /\ Covered({}) = 0
        BY CoveredIs DEF RecordedSeen
      <4> HIDE DEF r
      <4> QED
        BY <3>1, <3>2, <3>3, <3>4, <4>1
    <3>5. CASE n # 0
      <4>1. Min({n, n}) = n
        <5> HIDE DEF n
        <5> QED
          BY <1>3, MinIs
      <4> HIDE DEF r, n
      <4> QED
        BY <3>1, <3>2, <3>3, <3>5, <4>1
    <3> QED
      BY <3>4, <3>5
  <2>8. ASSUME NEW i \in 2..3
        PROVE  GainAt(e, i) = IF i <= n THEN seen(i) - seen(i - 1) ELSE 0
    <3>1. CASE ~(i <= n)
      BY <3>1 DEF GainAt
    <3>2. CASE i <= n
      <4>1. GainAt(e, i) = e.turns[i].gain
        BY <3>2 DEF GainAt
      <4>2. i \in 1..n /\ i # 1 /\ i - 1 \in 1..n /\ n # 0
        <5> HIDE DEF n
        <5> QED
          BY <1>3, <3>2
      <4>3. TurnIsLegal(r, i) /\ TurnIsLegal(r, i - 1)
        BY <1>1, <1>3, <4>2 DEF TurnsAreSound
      <4>4. Min({i, n}) = i /\ Min({i - 1, n}) = i - 1
        <5> HIDE DEF n
        <5>1. Min({i, n}) = IF i <= n THEN i ELSE n
          BY <1>3, MinIs
        <5>2. Min({i - 1, n}) = IF i - 1 <= n THEN i - 1 ELSE n
          <6>1. PICK k \in Int: k = i - 1
            OBVIOUS
          <6> QED
            BY <1>3, <6>1, MinIs
        <5> QED
          BY <1>3, <3>2, <5>1, <5>2
      <4> HIDE DEF r, n
      <4>5. /\ r.turns[i].gain = r.turns[i].recall - r.turns[i - 1].recall
            /\ r.turns[i].recall = Covered(RecordedSeen(r, i))
        BY <4>2, <4>3 DEF TurnIsLegal
      <4>6. r.turns[i - 1].recall = Covered(RecordedSeen(r, i - 1))
        BY <4>3 DEF TurnIsLegal
      <4>7. RecordedSeen(r, i) = RecordedSeen(e, i)
            /\ RecordedSeen(r, i - 1) = RecordedSeen(e, i - 1)
        BY <1>2 DEF RecordedSeen
      <4> QED
        BY <1>2, <3>2, <4>1, <4>2, <4>4, <4>5, <4>6, <4>7
    <3> QED
      BY <3>1, <3>2
  <2> DEFINE at(i) == IF n = 0 THEN 0 ELSE Covered(RecordedSeen(r, Min({i, n})))
  <2>9. \A i \in Nat \ {0}: at(i) = seen(i)
    BY <2>6
  <2>10. at(n) = seen(n)
    <3>1. n = 0 \/ n \in Nat \ {0}
      BY <1>3
    <3> QED
      BY <2>9, <3>1
  <2>11. at(1) = seen(1)
    BY <2>9
  <2>12. \A i \in 2..3: at(i) = seen(i) /\ at(i - 1) = seen(i - 1)
    <3>1. \A i \in 2..3: i \in Nat \ {0} /\ i - 1 \in Nat \ {0}
      OBVIOUS
    <3> HIDE DEF at, seen
    <3> QED
      BY <2>9, <3>1
  <2>13. Len(r.turns) = n
    BY <1>2
  <2>14. \A i \in 1..3: r.turnRecall[i] = at(i)
    BY <2>1, <2>2, <2>3, <2>9
  <2> HIDE DEF r, seen
  <2>15. ASSUME NEW i \in 2..3
         PROVE  /\ r.turnGain[i] = IF i <= n THEN at(i) - at(i - 1) ELSE 0
                /\ r.recovery[i] <=> at(1) < Cardinality(Gold) /\ at(i) > at(1)
                /\ r.full[i] <=> at(1) < Cardinality(Gold) /\ at(i) = Cardinality(Gold)
    <3>1. r.turnGain[i] = IF i <= n THEN at(i) - at(i - 1) ELSE 0
      <4> HIDE DEF at, n
      <4> QED
        BY <2>2, <2>8, <2>12
    <3>2. /\ RecallAt(e, i) = at(i) /\ RecallAt(e, 1) = at(1)
          /\ FirstMiss(e) = (at(1) < Cardinality(Gold))
      <4> HIDE DEF at, n
      <4> QED
        BY <2>1, <2>4, <2>5, <2>11, <2>12
    <3>3. /\ r.recovery[i] = (FirstMiss(e) /\ RecallAt(e, i) > RecallAt(e, 1))
          /\ r.full[i] = (FirstMiss(e) /\ RecallAt(e, i) = Cardinality(Gold))
      BY <2>2
    <3> HIDE DEF at, n
    <3> QED
      BY <3>1, <3>2, <3>3
  <2>16. r.retrievedRecall = Covered(Recorded(r, n)) /\ r.recall = at(n)
    BY <2>7, <2>10
  <2> QED
    BY <2>13, <2>14, <2>15, <2>16 DEF SummaryIsLegal
<1> QED
  BY <1>4, <1>5, <1>6, <1>7 DEF EpisodeIsLegal

(***************************************************************************)
(* Whatever a policy says and whichever retriever answers, the record of   *)
(* an episode that is over satisfies the contract of its readers.          *)
(***************************************************************************)
THEOREM EveryEpisodeIsLegal ==
  ASSUME NEW turns \in Nat, NEW b \in Everywhere, NEW s, IsScript(s),
         RunEpisode(b, turns, s).over
  PROVE  EpisodeIsLegal(Row(RunEpisode(b, turns, s)), turns)
<1> DEFINE e == RunEpisode(b, turns, s)
<1>1. Sound(e, turns) /\ e.over
  BY EpisodeIsSound
<1> HIDE DEF e
<1> QED
  BY <1>1, SoundIsLegal DEF e

-----------------------------------------------------------------------------
(* Scripts and titles that grow by one *)

\* A list that is not empty is its front and its last element.
LEMMA FrontIs ==
  ASSUME NEW s, IsList(s)
  PROVE  /\ \A x: Front(Append(s, x)) = s /\ Last(Append(s, x)) = x
         /\ Len(s) # 0 => /\ IsList(Front(s)) /\ Len(Front(s)) = Len(s) - 1
                          /\ s = Append(Front(s), Last(s))
                          /\ \A i \in DOMAIN Front(s): i \in DOMAIN s /\ Front(s)[i] = s[i]
<1> DEFINE n == Len(s)
<1>1. n \in Nat /\ DOMAIN s = 1..n /\ s \in Seq(Range(s))
  BY ListIs DEF IsList
<1>2. ASSUME NEW x PROVE Front(Append(s, x)) = s /\ Last(Append(s, x)) = x
  <2> DEFINE S == Range(s) \cup {x}
             t == Append(s, x)
             f == SubSeq(t, 1, n)
  <2>1. s \in Seq(S) /\ x \in S
    BY <1>1
  <2> HIDE DEF S
  <2>2. t \in Seq(S) /\ Len(t) = n + 1 /\ t[n + 1] = x /\ \A i \in 1..n: t[i] = s[i]
    BY <1>1, <2>1
  <2> HIDE DEF t, n
  <2>3. f \in Seq(S) /\ Len(f) = n /\ \A i \in 1..n: f[i] = t[i]
    BY <1>1, <2>2
  <2> HIDE DEF f
  <2>4. f = s
    BY <1>1, <2>1, <2>2, <2>3 DEF n
  <2>5. Front(t) = SubSeq(t, 1, n) /\ Last(t) = t[n + 1]
    BY <1>1, <2>2 DEF Front, Last
  <2> QED
    BY <2>2, <2>4, <2>5 DEF f, t
<1>3. ASSUME n # 0
      PROVE  /\ IsList(Front(s)) /\ Len(Front(s)) = n - 1
             /\ s = Append(Front(s), Last(s))
             /\ \A i \in DOMAIN Front(s): i \in DOMAIN s /\ Front(s)[i] = s[i]
  <2> DEFINE S == Range(s)
             f == SubSeq(s, 1, n - 1)
  <2>1. n - 1 \in Nat /\ n \in 1..n /\ s[n] \in S
    BY <1>1, <1>3 DEF Range
  <2> HIDE DEF S, n
  <2>2. f \in Seq(S) /\ Len(f) = n - 1 /\ DOMAIN f = 1..(n - 1) /\ \A i \in 1..(n - 1): f[i] = s[i]
    BY <1>1, <2>1 DEF S, n
  <2> HIDE DEF f
  <2>3. IsList(f) /\ \A i \in DOMAIN f: i \in DOMAIN s /\ f[i] = s[i]
    <3>1. IsList(f)
      BY <2>2, ListOf
    <3> QED
      BY <1>1, <2>1, <2>2, <3>1
  <2>4. s = Append(f, s[n])
    <3> DEFINE t == Append(f, s[n])
    <3>1. t \in Seq(S) /\ Len(t) = n /\ t[n] = s[n] /\ \A i \in 1..(n - 1): t[i] = s[i]
      BY <2>1, <2>2
    <3>2. \A i \in 1..n: i = n \/ i \in 1..(n - 1)
      BY <1>1
    <3> HIDE DEF t
    <3>3. s \in Seq(S) /\ Len(s) = n
      BY <1>1 DEF S, n
    <3>4. \A i \in 1..n: t[i] = s[i]
      BY <3>1, <3>2
    <3>5. s = t
      BY <3>1, <3>3, <3>4
    <3> QED
      BY <3>5 DEF t
  <2>5. Front(s) = f /\ Last(s) = s[n]
    BY DEF Front, Last, f, n
  <2> QED
    BY <2>2, <2>3, <2>4, <2>5
<1> QED
  BY <1>2, <1>3

\* Two loops over the same texts agree.
LEMMA SameEpisode ==
  ASSUME NEW b, NEW turns, NEW n \in Nat, NEW s, NEW t, \A i \in 1..n: s[i] = t[i],
         NEW h, NEW e, Unfolds(h, e, b, turns, s, n),
         NEW g, NEW f, Unfolds(g, f, b, turns, t, n)
  PROVE  h[n] = g[n]
<1>0. /\ h[0] = g[0]
      /\ \A i \in 1..n: h[i] = Step(h[i - 1], b, turns, s[i])
      /\ \A i \in 1..n: g[i] = Step(g[i - 1], b, turns, t[i])
  BY DEF Unfolds
<1> DEFINE S == {i \in 0..n: h[i] = g[i]}
<1>1. 0 \in S
  BY <1>0
<1>2. ASSUME NEW i \in 1..n, i - 1 \in S PROVE i \in S
  <2>1. h[i - 1] = g[i - 1] /\ s[i] = t[i]
    BY <1>2
  <2>2. h[i] = g[i]
    BY <1>0, <2>1
  <2> QED
    BY <2>2
<1>3. 0..n \subseteq S
  <2> HIDE DEF S
  <2> QED
    BY <1>1, <1>2, Upward
<1> QED
  BY <1>3

\* An episode hears one more text.
LEMMA RunGrows ==
  ASSUME NEW b, NEW turns, NEW s, IsList(s), NEW x
  PROVE  /\ RunEpisode(b, turns, Append(s, x)) = Step(RunEpisode(b, turns, s), b, turns, x)
         /\ Len(s) = 0 => RunEpisode(b, turns, s) = NewEpisode
<1> DEFINE n == Len(s)
           t == Append(s, x)
<1>1. n \in Nat /\ DOMAIN s = 1..n
  BY ListIs
<1>2. DOMAIN t = 1..(n + 1) /\ t[n + 1] = x /\ \A i \in 1..n: t[i] = s[i]
  BY AppendIs
<1> HIDE DEF n, t
<1>3. PICK h: Unfolds(h, RunEpisode(b, turns, s), b, turns, s, n)
  <2>1. PICK r: IsRun(r, b, turns, s)
    BY DEF IsRun
  <2>2. \E h: Unfolds(h, r, b, turns, s, n)
    BY <1>1, <2>1, EpisodesAre
  <2> QED
    BY <2>1, <2>2 DEF IsRun
<1>4. PICK g: Unfolds(g, RunEpisode(b, turns, t), b, turns, t, n + 1)
  <2>1. PICK r: IsRun(r, b, turns, t)
    BY DEF IsRun
  <2>2. PICK m \in Nat: m = n + 1
    BY <1>1
  <2>3. DOMAIN t = 1..m
    BY <1>2, <2>2
  <2>4. \E g: Unfolds(g, r, b, turns, t, m)
    BY <2>1, <2>3, EpisodesAre
  <2> QED
    BY <2>1, <2>2, <2>4 DEF IsRun
<1>5. h[n] = g[n]
  <2>1. \A i \in 1..n: i \in 1..(n + 1)
    BY <1>1
  <2>2. Unfolds(g, g[n], b, turns, t, n)
    BY <1>4, <2>1 DEF Unfolds
  <2>3. \A i \in 1..n: s[i] = t[i]
    BY <1>2
  <2> QED
    BY <1>1, <1>3, <2>2, <2>3, SameEpisode
<1>6. RunEpisode(b, turns, t) = Step(g[n], b, turns, x)
  <2>1. n + 1 \in 1..(n + 1) /\ (n + 1) - 1 = n
    BY <1>1
  <2>2. RunEpisode(b, turns, t) = g[n + 1]
        /\ \A i \in 1..(n + 1): g[i] = Step(g[i - 1], b, turns, t[i])
    BY <1>4 DEF Unfolds
  <2>3. g[n + 1] = Step(g[(n + 1) - 1], b, turns, t[n + 1])
    BY <2>1, <2>2
  <2> QED
    BY <1>2, <2>1, <2>2, <2>3
<1>7. RunEpisode(b, turns, s) = h[n] /\ h[0] = NewEpisode
  BY <1>3 DEF Unfolds
<1>8. n = 0 => RunEpisode(b, turns, s) = NewEpisode
  BY <1>7
<1> QED
  BY <1>5, <1>6, <1>7, <1>8 DEF n, t

\* A sum with one more number.
LEMMA SumGrows ==
  ASSUME NEW s, IsList(s), NEW x
  PROVE  TotalOf(Append(s, x)) = TotalOf(s) + x /\ (Len(s) = 0 => TotalOf(s) = 0)
<1> DEFINE n == Len(s)
           t == Append(s, x)
<1>1. n \in Nat /\ DOMAIN s = 1..n
  BY ListIs
<1>2. DOMAIN t = 1..(n + 1) /\ t[n + 1] = x /\ \A i \in 1..n: t[i] = s[i]
  BY AppendIs
<1> HIDE DEF n, t
<1>3. PICK h: TotalOf(s) = h[n] /\ h[0] = 0 /\ \A i \in 1..n: h[i] = h[i - 1] + s[i]
  BY <1>1, SumsAre
<1>4. PICK g: TotalOf(t) = g[n + 1] /\ g[0] = 0
              /\ \A i \in 1..(n + 1): g[i] = g[i - 1] + t[i]
  <2>1. PICK m \in Nat: m = n + 1
    BY <1>1
  <2>2. DOMAIN t = 1..m
    BY <1>2, <2>1
  <2>3. \E g: TotalOf(t) = g[m] /\ g[0] = 0 /\ \A i \in 1..m: g[i] = g[i - 1] + t[i]
    BY <2>2, SumsAre
  <2> QED
    BY <2>1, <2>3
<1> DEFINE S == {i \in 0..n: h[i] = g[i]}
<1>5. 0 \in S
  BY <1>1, <1>3, <1>4
<1>6. ASSUME NEW i \in 1..n, i - 1 \in S PROVE i \in S
  <2>1. i \in 1..(n + 1) /\ i \in 0..n
    BY <1>1
  <2>2. h[i - 1] = g[i - 1] /\ t[i] = s[i]
    BY <1>2, <1>6
  <2>3. h[i] = h[i - 1] + s[i] /\ g[i] = g[i - 1] + t[i]
    BY <1>3, <1>4, <2>1
  <2> QED
    BY <2>1, <2>2, <2>3
<1>7. 0..n \subseteq S
  <2> HIDE DEF S
  <2> QED
    BY <1>1, <1>5, <1>6, Upward
<1>8. h[n] = g[n]
  BY <1>1, <1>7
<1>9. TotalOf(t) = g[n] + x
  <2>1. n + 1 \in 1..(n + 1) /\ (n + 1) - 1 = n
    BY <1>1
  <2>2. g[n + 1] = g[(n + 1) - 1] + t[n + 1]
    BY <1>4, <2>1
  <2> QED
    BY <1>2, <1>4, <2>1, <2>2
<1>10. n = 0 => TotalOf(s) = 0
  BY <1>3
<1> QED
  BY <1>3, <1>8, <1>9, <1>10 DEF n, t

\* One more list of titles comes behind the others.
LEMMA FlatGrows ==
  ASSUME NEW s, IsList(s), \A i \in DOMAIN s: IsList(s[i]), NEW x, IsList(x)
  PROVE  FlattenSeq(Append(s, x)) = FlattenSeq(s) \o x
<1> DEFINE n == Len(s)
           t == Append(s, x)
           m == n + 1
<1>1. n \in Nat /\ DOMAIN s = 1..n
  BY ListIs
<1>2. IsList(t) /\ Len(t) = m /\ DOMAIN t = 1..m /\ t[m] = x /\ \A i \in 1..n: t[i] = s[i]
  BY AppendIs
<1>3. \A i \in DOMAIN t: IsList(t[i])
  <2>1. \A i \in 1..m: i \in 1..n \/ i = m
    BY <1>1
  <2> HIDE DEF t, m, n
  <2> QED
    BY <1>1, <1>2, <2>1
<1> HIDE DEF t
<1>4. PICK g: /\ FlattenSeq(t) = g[m] /\ g[1] = t[1]
              /\ \A i \in 1..m: i # 1 => IsJoin(g[i], g[i - 1], t[i])
  <2>1. Len(t) # 0
    BY <1>1, <1>2
  <2>2. \E g: /\ FlattenSeq(t) = g[Len(t)] /\ g[1] = t[1]
              /\ \A i \in 1..Len(t): IsList(g[i])
              /\ \A i \in 1..Len(t): i # 1 => IsJoin(g[i], g[i - 1], t[i])
    BY <1>2, <1>3, <2>1, FlatIs
  <2> QED
    BY <1>2, <2>2
<1>5. CASE n = 0
  <2>1. s = <<>>
    <3>1. s \in Seq(Range(s))
      BY DEF IsList
    <3> QED
      BY <1>5, <3>1
  <2>2. FlattenSeq(s) = <<>>
    BY <1>5, <2>1 DEF FlattenSeq
  <2>3. <<>> \o x = x
    <3>1. x \in Seq(Range(x))
      BY DEF IsList
    <3> QED
      BY <3>1
  <2>4. FlattenSeq(t) = x
    BY <1>2, <1>4, <1>5
  <2> QED
    BY <2>2, <2>3, <2>4 DEF t
<1>6. CASE n # 0
  <2>1. PICK f: /\ FlattenSeq(s) = f[n] /\ f[1] = s[1]
                /\ \A i \in 1..n: i # 1 => IsJoin(f[i], f[i - 1], s[i])
    BY <1>1, <1>6, FlatIs
  <2> DEFINE S == {i \in 1..n: f[i] = g[i]}
  <2>2. ASSUME NEW i \in 1..n, i = 1 \/ i - 1 \in S PROVE i \in S
    <3>1. CASE i = 1
      BY <1>2, <1>4, <2>1, <2>2, <3>1
    <3>2. CASE i # 1
      <4>1. f[i - 1] = g[i - 1] /\ i \in 1..m
        BY <1>1, <2>2, <3>2
      <4>2. IsJoin(f[i], f[i - 1], s[i]) /\ IsJoin(g[i], g[i - 1], t[i]) /\ t[i] = s[i]
        BY <1>2, <1>4, <2>1, <2>2, <3>2, <4>1
      <4>3. f[i] = g[i]
        BY <4>1, <4>2 DEF IsJoin
      <4> QED
        BY <4>3
    <3> QED
      BY <3>1, <3>2
  <2>3. 1..n \subseteq S
    <3> HIDE DEF S, n
    <3> QED
      BY <1>1, <2>2, Along
  <2>4. f[n] = g[n]
    BY <1>1, <1>6, <2>3
  <2>5. IsJoin(g[m], g[n], x)
    <3>1. m \in 1..m /\ m # 1 /\ m - 1 = n
      BY <1>1, <1>6
    <3>2. IsJoin(g[m], g[m - 1], t[m])
      BY <1>4, <3>1
    <3> HIDE DEF m
    <3> QED
      BY <1>2, <3>1, <3>2
  <2> QED
    BY <1>4, <2>1, <2>4, <2>5 DEF IsJoin, t
<1> QED
  BY <1>5, <1>6

(***************************************************************************)
(* Rows in batch order: the place of a row among those of a set.           *)
(***************************************************************************)
Rank(S, i) == Cardinality({j \in S: j <= i})

\* Counted up, the rows of a set grow by one at each of them.
LEMMA RankIs ==
  ASSUME NEW n \in Nat, NEW S \in SUBSET (1..n)
  PROVE  /\ IsFiniteSet(S) /\ Cardinality(S) \in Nat
         /\ Rank(S, 0) = 0 /\ Rank(S, n) = Cardinality(S)
         /\ \A i \in 1..n: /\ Rank(S, i) \in Nat /\ Rank(S, i - 1) \in Nat
                           /\ Rank(S, i) <= Cardinality(S)
                           /\ i \in S => Rank(S, i) = Rank(S, i - 1) + 1
                           /\ i \notin S => Rank(S, i) = Rank(S, i - 1)
<1>0. \A j \in S: j \in Nat /\ j >= 1 /\ j <= n
  <2>1. S \subseteq 1..n
    OBVIOUS
  <2> QED
    BY <2>1
<1>1. IsFiniteSet(S) /\ Cardinality(S) \in Nat
  <2>1. IsFiniteSet(1..n)
    BY FS_Interval
  <2>2. IsFiniteSet(S)
    BY <2>1, FS_Subset
  <2> QED
    BY <2>2, FS_CardinalityType
<1>2. Rank(S, 0) = 0
  <2>1. \A j \in S: ~(j <= 0)
    BY <1>0
  <2>2. {j \in S: j <= 0} = {}
    BY <2>1, Zenon
  <2>3. Cardinality({}) = 0
    BY FS_EmptySet
  <2> QED
    BY <2>3, <2>2, Zenon DEF Rank
<1>3. Rank(S, n) = Cardinality(S)
  <2>1. {j \in S: j <= n} = S
    BY <1>0
  <2> QED
    BY <2>1 DEF Rank
<1>4. ASSUME NEW i \in 1..n
      PROVE  /\ Rank(S, i) \in Nat /\ Rank(S, i - 1) \in Nat /\ Rank(S, i) <= Cardinality(S)
             /\ i \in S => Rank(S, i) = Rank(S, i - 1) + 1
             /\ i \notin S => Rank(S, i) = Rank(S, i - 1)
  <2> DEFINE A == {j \in S: j <= i}
             B == {j \in S: j <= i - 1}
  <2>1. A \subseteq S /\ B \subseteq S /\ B = A \ {i} /\ (i \in A <=> i \in S)
    <3>1. \A j \in S: j <= i - 1 <=> (j <= i /\ j # i)
      BY <1>0
    <3>2. i <= i
      OBVIOUS
    <3> QED
      BY <3>1, <3>2, Zenon
  <2>2. Rank(S, i) = Cardinality(A) /\ Rank(S, i - 1) = Cardinality(B)
    BY DEF Rank
  <2> HIDE DEF A, B
  <2>3. /\ IsFiniteSet(A) /\ IsFiniteSet(B) /\ Cardinality(A) <= Cardinality(S)
        /\ Cardinality(A) \in Nat /\ Cardinality(B) \in Nat
    BY <1>1, <2>1, FS_Subset, FS_CardinalityType
  <2>4. i \in S => Cardinality(B) = Cardinality(A) - 1
    BY <2>1, <2>3, FS_RemoveElement
  <2>5. i \notin S => A = B
    BY <2>1
  <2> QED
    BY <2>2, <2>3, <2>4, <2>5
<1> QED
  BY <1>1, <1>2, <1>3, <1>4

\* Two rows of a set do not stand at one place.
LEMMA RanksDiffer ==
  ASSUME NEW n \in Nat, NEW S \in SUBSET (1..n), NEW i \in S, NEW j \in S, i < j
  PROVE  Rank(S, i) < Rank(S, j)
<1> DEFINE A == {k \in S: k <= i}
           B == {k \in S: k <= j}
<1>0. \A k \in S: k \in Nat
  OBVIOUS
<1>1. A \subseteq B /\ j \in B /\ j \notin A /\ B \subseteq S
  <2>1. \A k \in S: k <= i => k <= j
    BY <1>0
  <2>2. j <= j /\ ~(j <= i)
    BY <1>0
  <2> QED
    BY <2>1, <2>2, Zenon
<1>2. Rank(S, i) = Cardinality(A) /\ Rank(S, j) = Cardinality(B)
  BY DEF Rank
<1> HIDE DEF A, B
<1>3. IsFiniteSet(B)
  BY <1>1, RankIs, FS_Subset
<1>4. Cardinality(A) \in Nat /\ Cardinality(B) \in Nat /\ Cardinality(A) <= Cardinality(B)
  BY <1>1, <1>3, FS_Subset, FS_CardinalityType
<1>5. Cardinality(A) # Cardinality(B)
  BY <1>1, <1>3, FS_Subset
<1> QED
  BY <1>2, <1>4, <1>5

\* The list of the rows of a set, in batch order, has each of them at its place.
LEMMA InOrderIs ==
  ASSUME NEW n \in Nat, NEW S \in SUBSET (1..n)
  PROVE  /\ Cardinality(S) \in Nat
         /\ IsList(InOrder(S)) /\ Len(InOrder(S)) = Cardinality(S)
         /\ DOMAIN InOrder(S) = 1..Cardinality(S)
         /\ \A i \in S: Rank(S, i) \in DOMAIN InOrder(S) /\ InOrder(S)[Rank(S, i)] = i
<1> DEFINE m == Cardinality(S)
           f == InOrder(S)
<1>1. m \in Nat
  BY RankIs
<1>2. f = [k \in 1..m |-> CHOOSE i \in S: Rank(S, i) = k]
  BY DEF InOrder, Rank
<1> HIDE DEF f, m
<1>3. DOMAIN f = 1..m /\ f = [k \in 1..m |-> f[k]]
  BY <1>2
<1>4. IsList(f) /\ Len(f) = m
  BY <1>1, <1>3, SegmentIsList
<1>5. ASSUME NEW i \in S PROVE Rank(S, i) \in 1..m /\ f[Rank(S, i)] = i
  <2>1. Rank(S, i) \in Nat /\ Rank(S, i - 1) \in Nat /\ Rank(S, i) <= m
        /\ Rank(S, i) = Rank(S, i - 1) + 1
    <3>1. i \in 1..n
      OBVIOUS
    <3> QED
      BY <3>1, RankIs DEF m
  <2>2. Rank(S, i) \in 1..m
    BY <1>1, <2>1
  <2>3. \A j \in S: Rank(S, j) = Rank(S, i) => j = i
    <3>1. ASSUME NEW j \in S, Rank(S, j) = Rank(S, i), j # i PROVE FALSE
      <4>1. i \in Nat /\ j \in Nat
        OBVIOUS
      <4>2. CASE i < j
        <5>1. Rank(S, i) < Rank(S, j)
          BY <4>2, RanksDiffer
        <5> QED
          BY <2>1, <3>1, <5>1
      <4>3. CASE j < i
        <5>1. Rank(S, j) < Rank(S, i)
          BY <4>3, RanksDiffer
        <5> QED
          BY <2>1, <3>1, <5>1
      <4> QED
        BY <3>1, <4>1, <4>2, <4>3
    <3> QED
      BY <3>1
  <2>4. (CHOOSE j \in S: Rank(S, j) = Rank(S, i)) = i
    BY <2>3
  <2> QED
    BY <1>2, <2>2, <2>4
<1> QED
  BY <1>1, <1>3, <1>4, <1>5 DEF f, m

\* A queue without its head.
LEMMA TailIs ==
  ASSUME NEW s, IsList(s), Len(s) # 0
  PROVE  /\ Head(s) = s[1] /\ IsList(Tail(s)) /\ Len(Tail(s)) = Len(s) - 1
         /\ DOMAIN Tail(s) = 1..(Len(s) - 1)
         /\ \A k \in 1..(Len(s) - 1): Tail(s)[k] = s[k + 1]
<1> DEFINE S == Range(s)
<1>1. s \in Seq(S) /\ Len(s) \in Nat /\ s # <<>>
  BY DEF IsList
<1> HIDE DEF S
<1>2. /\ Head(s) = s[1] /\ Tail(s) \in Seq(S) /\ Len(Tail(s)) = Len(s) - 1
      /\ \A k \in 1..(Len(s) - 1): Tail(s)[k] = s[k + 1]
  BY <1>1
<1>3. IsList(Tail(s)) /\ DOMAIN Tail(s) = 1..(Len(s) - 1)
  BY <1>2, ListOf
<1> QED
  BY <1>2, <1>3

(***************************************************************************)
(* The row of a batch                                                      *)
(***************************************************************************)

\* A row has these fields and no other.
IsRow(r) ==
  r = [prompt |-> r.prompt, backend |-> r.backend, active |-> r.active, script |-> r.script,
       answer |-> r.answer, failure |-> r.failure, invalid |-> r.invalid,
       searches |-> r.searches, truncated |-> r.truncated, length |-> r.length,
       retrieved |-> r.retrieved, observed |-> r.observed]

\* What the trainer's window does to a row.
Fits(r) == r.truncated \in {0, 1} /\ r.length \in 0..MaxResponse

\* Two rows that differ in their length at most.
SameWork(r, f) ==
  /\ f.prompt = r.prompt /\ f.backend = r.backend /\ f.script = r.script
  /\ f.answer = r.answer /\ f.failure = r.failure /\ f.invalid = r.invalid
  /\ f.searches = r.searches /\ f.retrieved = r.retrieved /\ f.observed = r.observed

\* Tokens only lengthen a row, and at most to the window.
LEMMA LongerIs ==
  ASSUME NEW r, IsRow(r), Fits(r), NEW tokens \in Nat
  PROVE  LET f == Longer(r, tokens)
         IN  IsRow(f) /\ Fits(f) /\ SameWork(r, f) /\ f.active = r.active
<1> DEFINE f == Longer(r, tokens)
           length == Min({r.length + tokens, MaxResponse})
           cut == IF r.length + tokens > MaxResponse THEN 1 ELSE r.truncated
<1>1. length \in 0..MaxResponse /\ cut \in {0, 1}
  <2>1. r.length \in Int /\ r.length + tokens \in Int /\ MaxResponse \in Int
        /\ r.length + tokens >= 0 /\ MaxResponse >= 0
    BY WindowAssumption DEF Fits
  <2>2. length = IF r.length + tokens <= MaxResponse THEN r.length + tokens ELSE MaxResponse
    BY <2>1, MinIs
  <2>3. length \in 0..MaxResponse
    BY <2>1, <2>2
  <2>4. cut \in {0, 1}
    BY DEF Fits
  <2> QED
    BY <2>3, <2>4
<1>2. f = [r EXCEPT !.length = length, !.truncated = cut]
  BY DEF Longer
<1> HIDE DEF length, cut
<1>3. f = [prompt |-> r.prompt, backend |-> r.backend, active |-> r.active,
           script |-> r.script, answer |-> r.answer, failure |-> r.failure,
           invalid |-> r.invalid, searches |-> r.searches, truncated |-> cut,
           length |-> length, retrieved |-> r.retrieved, observed |-> r.observed]
  BY <1>2 DEF IsRow
<1> SUFFICES IsRow(f) /\ Fits(f) /\ SameWork(r, f) /\ f.active = r.active
  OBVIOUS
<1> HIDE DEF f
<1> QED
  BY <1>1, <1>3 DEF IsRow, Fits, SameWork

\* What execute_predictions makes of one row: results is the head of the queue.
ActedRow(row, results, more) ==
  LET said   == Said(row)
      action == Action(said)
  IN  CASE ~row.active -> row
        [] row.active /\ action.kind = "answer" -> Finished(said, action)
        [] row.active /\ action.kind = "search" /\ more -> Found(said, results)
        [] row.active /\ action.kind = "search" /\ ~more -> [said EXCEPT !.active = FALSE]
        [] OTHER -> Longer([said EXCEPT !.invalid = @ + 1, !.active = more],
                           IF more THEN 1 ELSE 0)

\* A row that ends: its answer and failure.
Ends(r, f, answer, failure) ==
  /\ f.active = FALSE /\ f.answer = answer /\ f.failure = failure
  /\ f.prompt = r.prompt /\ f.backend = r.backend /\ f.script = r.script
  /\ f.searches = r.searches /\ f.retrieved = r.retrieved /\ f.observed = r.observed

\* A row that answers.
LEMMA FinishedIs ==
  ASSUME NEW r, IsRow(r), Fits(r), NEW action
  PROVE  LET f == Finished(r, action)
         IN  IsRow(f) /\ Fits(f) /\ Ends(r, f, action.value, 0) /\ f.invalid = r.invalid
<1> DEFINE f == Finished(r, action)
<1>1. f = [r EXCEPT !.answer = action.value, !.failure = 0, !.active = FALSE]
  BY DEF Finished
<1>2. f = [prompt |-> r.prompt, backend |-> r.backend, active |-> FALSE,
           script |-> r.script, answer |-> action.value, failure |-> 0,
           invalid |-> r.invalid, searches |-> r.searches, truncated |-> r.truncated,
           length |-> r.length, retrieved |-> r.retrieved, observed |-> r.observed]
  BY <1>1 DEF IsRow
<1> SUFFICES IsRow(f) /\ Fits(f) /\ Ends(r, f, action.value, 0) /\ f.invalid = r.invalid
  OBVIOUS
<1> HIDE DEF f
<1> QED
  BY <1>2 DEF IsRow, Fits, Ends

\* A search on the forced final turn ends the row.
LEMMA StoppedIs ==
  ASSUME NEW r, IsRow(r), Fits(r)
  PROVE  LET f == [r EXCEPT !.active = FALSE]
         IN  IsRow(f) /\ Fits(f) /\ Ends(r, f, r.answer, r.failure) /\ f.invalid = r.invalid
<1> DEFINE f == [r EXCEPT !.active = FALSE]
<1> SUFFICES IsRow(f) /\ Fits(f) /\ Ends(r, f, r.answer, r.failure) /\ f.invalid = r.invalid
  OBVIOUS
<1>1. f = [r EXCEPT !.active = FALSE]
  OBVIOUS
<1> HIDE DEF f
<1>2. f = [prompt |-> r.prompt, backend |-> r.backend, active |-> FALSE,
           script |-> r.script, answer |-> r.answer, failure |-> r.failure,
           invalid |-> r.invalid, searches |-> r.searches, truncated |-> r.truncated,
           length |-> r.length, retrieved |-> r.retrieved, observed |-> r.observed]
  BY <1>1 DEF IsRow
<1> QED
  BY <1>2 DEF IsRow, Fits, Ends

\* A malformed action is counted; it ends the row on the forced final turn.
LEMMA CountedIs ==
  ASSUME NEW r, IsRow(r), Fits(r), NEW more \in BOOLEAN
  PROVE  LET f == [r EXCEPT !.invalid = @ + 1, !.active = more]
         IN  /\ IsRow(f) /\ Fits(f) /\ f.active = more /\ f.invalid = r.invalid + 1
             /\ f.prompt = r.prompt /\ f.backend = r.backend /\ f.script = r.script
             /\ f.answer = r.answer /\ f.failure = r.failure /\ f.searches = r.searches
             /\ f.retrieved = r.retrieved /\ f.observed = r.observed
<1> DEFINE f == [r EXCEPT !.invalid = @ + 1, !.active = more]
<1> SUFFICES /\ IsRow(f) /\ Fits(f) /\ f.active = more /\ f.invalid = r.invalid + 1
             /\ f.prompt = r.prompt /\ f.backend = r.backend /\ f.script = r.script
             /\ f.answer = r.answer /\ f.failure = r.failure /\ f.searches = r.searches
             /\ f.retrieved = r.retrieved /\ f.observed = r.observed
  OBVIOUS
<1>1. f = [r EXCEPT !.invalid = @ + 1, !.active = more]
  OBVIOUS
<1> HIDE DEF f
<1>2. f = [prompt |-> r.prompt, backend |-> r.backend, active |-> more,
           script |-> r.script, answer |-> r.answer, failure |-> r.failure,
           invalid |-> r.invalid + 1, searches |-> r.searches, truncated |-> r.truncated,
           length |-> r.length, retrieved |-> r.retrieved, observed |-> r.observed]
  BY <1>1 DEF IsRow
<1> QED
  BY <1>2 DEF IsRow, Fits

\* A result adds its titles to the row, and a search.
LEMMA FoundIs ==
  ASSUME NEW r, IsRow(r), Fits(r), NEW results \in Seq(Documents)
  PROVE  LET f == Found(r, results)
         IN  /\ IsRow(f) /\ Fits(f) /\ f.active = r.active
             /\ f.prompt = r.prompt /\ f.backend = r.backend /\ f.script = r.script
             /\ f.answer = r.answer /\ f.failure = r.failure /\ f.invalid = r.invalid
             /\ f.searches = r.searches + 1
             /\ f.retrieved = r.retrieved \o Titles(results)
             /\ f.observed = r.observed \o ObservedTitles(results)
<1> DEFINE m == [r EXCEPT !.searches = @ + 1,
                          !.retrieved = @ \o Titles(results),
                          !.observed = @ \o ObservedTitles(results)]
           f == Found(r, results)
<1>0. f = Longer(m, VisibleTokens(results))
  BY DEF Found
<1>1. m = [r EXCEPT !.searches = @ + 1,
                     !.retrieved = @ \o Titles(results),
                     !.observed = @ \o ObservedTitles(results)]
  OBVIOUS
<1> HIDE DEF m
<1>2. m = [prompt |-> r.prompt, backend |-> r.backend, active |-> r.active,
           script |-> r.script, answer |-> r.answer, failure |-> r.failure,
           invalid |-> r.invalid, searches |-> r.searches + 1, truncated |-> r.truncated,
           length |-> r.length, retrieved |-> r.retrieved \o Titles(results),
           observed |-> r.observed \o ObservedTitles(results)]
  BY <1>1 DEF IsRow
<1>3. /\ IsRow(m) /\ Fits(m) /\ m.active = r.active
      /\ m.prompt = r.prompt /\ m.backend = r.backend /\ m.script = r.script
      /\ m.answer = r.answer /\ m.failure = r.failure /\ m.invalid = r.invalid
      /\ m.searches = r.searches + 1
      /\ m.retrieved = r.retrieved \o Titles(results)
      /\ m.observed = r.observed \o ObservedTitles(results)
  BY <1>2 DEF IsRow, Fits
<1>4. VisibleTokens(results) \in Nat
  BY VisibleIs
<1> HIDE DEF f
<1>5. IsRow(f) /\ Fits(f) /\ SameWork(m, f) /\ f.active = m.active
  BY <1>0, <1>3, <1>4, LongerIs
<1> QED
  BY <1>3, <1>5 DEF SameWork, f

\* What a row keeps whatever it does.
SamePlace(r, f) ==
  /\ IsRow(f) /\ Fits(f)
  /\ f.prompt = r.prompt /\ f.backend = r.backend /\ f.script = r.script

\* The outcomes of an action of an active row.
LEMMA ActedIs ==
  ASSUME NEW r, IsRow(r), Fits(r), r.active, Sayable(Last(r.script)),
         NEW more \in BOOLEAN, NEW results,
         Action(r).kind = "search" /\ more => results \in Seq(Documents)
  PROVE  LET f == ActedRow(r, results, more)
             action == Action(r)
         IN  /\ SamePlace(r, f)
             /\ action.kind = "answer" =>
                  Ends(r, f, action.value, 0) /\ f.invalid = r.invalid
             /\ action.kind # "answer" /\ ~more =>
                  /\ Ends(r, f, r.answer, r.failure)
                  /\ f.invalid = IF action.kind = "invalid" THEN r.invalid + 1 ELSE r.invalid
             /\ action.kind # "answer" /\ more =>
                  /\ f.active = TRUE /\ f.answer = r.answer /\ f.failure = r.failure
                  /\ action.kind = "search" =>
                       /\ f.invalid = r.invalid /\ f.searches = r.searches + 1
                       /\ f.retrieved = r.retrieved \o Titles(results)
                       /\ f.observed = r.observed \o ObservedTitles(results)
                  /\ action.kind = "invalid" =>
                       /\ f.invalid = r.invalid + 1 /\ f.searches = r.searches
                       /\ f.retrieved = r.retrieved /\ f.observed = r.observed
<1> DEFINE said == Said(r)
           action == Action(r)
           f == ActedRow(r, results, more)
<1>1. IsRow(said) /\ Fits(said) /\ SameWork(r, said) /\ said.active = r.active
  <2>1. Len(Last(r.script)) \in Nat
    BY DEF Sayable
  <2>2. said = Longer(r, Len(Last(r.script)))
    BY DEF Said
  <2> HIDE DEF said
  <2> QED
    BY <2>1, <2>2, LongerIs
<1>2. Action(said) = action
  BY <1>1 DEF Action, SameWork
<1>3. action.kind \in {"search", "answer", "invalid"}
  BY ActionIs DEF Action, Sayable
<1>4. /\ action.kind = "answer" => f = Finished(said, action)
      /\ action.kind = "search" /\ more => f = Found(said, results)
      /\ action.kind = "search" /\ ~more => f = [said EXCEPT !.active = FALSE]
      /\ action.kind = "invalid" => f = Longer([said EXCEPT !.invalid = @ + 1, !.active = more],
                                               IF more THEN 1 ELSE 0)
  <2> HIDE DEF said, action
  <2>1. /\ action.kind = "answer" => f = Finished(said, action)
        /\ action.kind = "search" /\ more => f = Found(said, results)
        /\ action.kind = "search" /\ ~more => f = [said EXCEPT !.active = FALSE]
    BY <1>2 DEF ActedRow, said
  <2>2. action.kind = "invalid" =>
          f = Longer([said EXCEPT !.invalid = @ + 1, !.active = more], IF more THEN 1 ELSE 0)
    BY <1>2 DEF ActedRow, said
  <2> QED
    BY <2>1, <2>2
<1> HIDE DEF f, said
<1>5. CASE action.kind = "answer"
  <2>1. IsRow(f) /\ Fits(f) /\ Ends(said, f, action.value, 0) /\ f.invalid = said.invalid
    BY <1>1, <1>4, <1>5, FinishedIs
  <2>2. SamePlace(r, f) /\ Ends(r, f, action.value, 0) /\ f.invalid = r.invalid
    BY <1>1, <2>1 DEF SamePlace, Ends, SameWork
  <2> QED
    BY <1>5, <2>2 DEF f
<1>6. CASE action.kind = "search" /\ more
  <2>1. /\ IsRow(f) /\ Fits(f) /\ f.active = said.active
        /\ f.prompt = said.prompt /\ f.backend = said.backend /\ f.script = said.script
        /\ f.answer = said.answer /\ f.failure = said.failure /\ f.invalid = said.invalid
        /\ f.searches = said.searches + 1
        /\ f.retrieved = said.retrieved \o Titles(results)
        /\ f.observed = said.observed \o ObservedTitles(results)
    <3>1. results \in Seq(Documents)
      BY <1>6
    <3>2. f = Found(said, results)
      BY <1>4, <1>6
    <3> HIDE DEF action
    <3> QED
      BY <1>1, <3>1, <3>2, FoundIs
  <2>2. /\ SamePlace(r, f) /\ f.answer = r.answer /\ f.failure = r.failure
        /\ f.invalid = r.invalid /\ f.searches = r.searches + 1
        /\ f.retrieved = r.retrieved \o Titles(results)
        /\ f.observed = r.observed \o ObservedTitles(results)
    BY <1>1, <2>1 DEF SamePlace, SameWork
  <2>3. f.active = TRUE
    <3>1. f.active = r.active
      BY <1>1, <2>1, Zenon
    <3> QED
      BY <3>1
  <2> QED
    BY <1>6, <2>2, <2>3 DEF f
<1>7. CASE action.kind = "search" /\ ~more
  <2>1. IsRow(f) /\ Fits(f) /\ Ends(said, f, said.answer, said.failure) /\ f.invalid = said.invalid
    BY <1>1, <1>4, <1>7, StoppedIs
  <2>2. SamePlace(r, f) /\ Ends(r, f, r.answer, r.failure) /\ f.invalid = r.invalid
    BY <1>1, <2>1 DEF SamePlace, Ends, SameWork
  <2> QED
    BY <1>7, <2>2 DEF f
<1>8. CASE action.kind = "invalid"
  <2> DEFINE m == [said EXCEPT !.invalid = @ + 1, !.active = more]
             one == IF more THEN 1 ELSE 0
  <2>1. /\ IsRow(m) /\ Fits(m) /\ m.active = more /\ m.invalid = said.invalid + 1
        /\ m.prompt = said.prompt /\ m.backend = said.backend /\ m.script = said.script
        /\ m.answer = said.answer /\ m.failure = said.failure /\ m.searches = said.searches
        /\ m.retrieved = said.retrieved /\ m.observed = said.observed
    BY <1>1, CountedIs
  <2>2. f = Longer(m, one) /\ one \in Nat
    BY <1>4, <1>8
  <2> HIDE DEF m, one
  <2>3. IsRow(f) /\ Fits(f) /\ SameWork(m, f) /\ f.active = m.active
    BY <2>1, <2>2, LongerIs
  <2>4. /\ SamePlace(r, f) /\ f.answer = r.answer /\ f.failure = r.failure
        /\ f.invalid = r.invalid + 1 /\ f.searches = r.searches
        /\ f.retrieved = r.retrieved /\ f.observed = r.observed
    BY <1>1, <2>1, <2>3 DEF SamePlace, SameWork
  <2>5. f.active = more
    BY <2>1, <2>3, Zenon
  <2>6. CASE more
    <3>1. f.active = TRUE
      BY <2>5, <2>6
    <3> QED
      BY <1>8, <2>4, <2>6, <3>1 DEF f
  <2>7. CASE ~more
    <3>1. f.active = FALSE
      BY <2>5, <2>7
    <3>2. Ends(r, f, r.answer, r.failure)
      BY <2>4, <3>1 DEF Ends, SamePlace
    <3> QED
      BY <1>8, <2>4, <2>7, <3>2 DEF f
  <2> QED
    BY <2>6, <2>7
<1> QED
  BY <1>3, <1>5, <1>6, <1>7, <1>8

\* A row whose trajectory has n tokens in all: it is cut at the trainer's window,
\* and marked if it was longer.
Windowed(r, n) ==
  /\ r.length = IF n <= MaxResponse THEN n ELSE MaxResponse
  /\ r.truncated = IF n <= MaxResponse THEN 0 ELSE 1

\* Tokens are counted, also those that are cut off.
LEMMA LongerCounts ==
  ASSUME NEW r, IsRow(r), NEW n \in Nat, Windowed(r, n), NEW tokens \in Nat
  PROVE  Windowed(Longer(r, tokens), n + tokens)
<1> DEFINE f == Longer(r, tokens)
           length == Min({r.length + tokens, MaxResponse})
           cut == IF r.length + tokens > MaxResponse THEN 1 ELSE r.truncated
<1>1. f = [r EXCEPT !.length = length, !.truncated = cut]
  BY DEF Longer
<1>2. MaxResponse \in Nat
  BY WindowAssumption
<1>3. /\ length = IF n + tokens <= MaxResponse THEN n + tokens ELSE MaxResponse
      /\ cut = IF n + tokens <= MaxResponse THEN 0 ELSE 1
  <2>1. r.length + tokens \in Int /\ MaxResponse \in Int
    BY <1>2 DEF Windowed
  <2>2. length = IF r.length + tokens <= MaxResponse THEN r.length + tokens ELSE MaxResponse
    BY <2>1, MinIs
  <2>3. CASE n <= MaxResponse
    BY <1>2, <2>2, <2>3 DEF Windowed
  <2>4. CASE n > MaxResponse
    BY <1>2, <2>2, <2>4 DEF Windowed
  <2> QED
    BY <1>2, <2>3, <2>4
<1> HIDE DEF length, cut
<1>4. f.length = length /\ f.truncated = cut
  BY <1>1 DEF IsRow
<1> HIDE DEF f
<1> QED
  BY <1>3, <1>4 DEF Windowed, f

\* What the execution of an action adds to the trajectory, besides the text.
Extra(action, results, more) ==
  IF ~more THEN 0
  ELSE CASE action.kind = "search"  -> VisibleTokens(results)
         [] action.kind = "invalid" -> 1
         [] OTHER                   -> 0

\* An active row counts the text that it acts on, and what that adds.
LEMMA ActedCounts ==
  ASSUME NEW r, IsRow(r), Fits(r), r.active, Sayable(Last(r.script)),
         NEW more \in BOOLEAN, NEW results,
         Action(r).kind = "search" /\ more => results \in Seq(Documents),
         NEW n \in Nat, Windowed(r, n)
  PROVE  Windowed(ActedRow(r, results, more),
                  n + (Len(Last(r.script)) + Extra(Action(r), results, more)))
<1> DEFINE said == Said(r)
           action == Action(r)
           f == ActedRow(r, results, more)
           c == Len(Last(r.script))
           m == n + c
<1>1. c \in Nat /\ m \in Nat
  BY DEF Sayable
<1>2. said = Longer(r, c)
  BY DEF Said
<1> HIDE DEF said, c
<1>3. /\ IsRow(said) /\ Fits(said) /\ SameWork(r, said) /\ said.active = r.active
      /\ Windowed(said, m)
  BY <1>1, <1>2, LongerIs, LongerCounts
<1> HIDE DEF m
<1>4. Action(said) = action
  BY <1>3 DEF Action, SameWork
<1>5. action.kind \in {"search", "answer", "invalid"}
  BY ActionIs, Zenon DEF Action, Sayable
<1> HIDE DEF action
<1>6. /\ action.kind = "answer" => f = Finished(said, action)
      /\ action.kind = "search" /\ more => f = Found(said, results)
      /\ action.kind = "search" /\ ~more => f = [said EXCEPT !.active = FALSE]
      /\ action.kind = "invalid" =>
           f = Longer([said EXCEPT !.invalid = @ + 1, !.active = more], IF more THEN 1 ELSE 0)
  <2>1. /\ action.kind = "answer" => f = Finished(said, action)
        /\ action.kind = "search" /\ more => f = Found(said, results)
        /\ action.kind = "search" /\ ~more => f = [said EXCEPT !.active = FALSE]
    BY <1>4 DEF ActedRow, said
  <2>2. action.kind = "invalid" =>
          f = Longer([said EXCEPT !.invalid = @ + 1, !.active = more], IF more THEN 1 ELSE 0)
    BY <1>4 DEF ActedRow, said
  <2> QED
    BY <2>1, <2>2
<1> HIDE DEF f
<1> SUFFICES Windowed(f, m + Extra(action, results, more))
  <2>1. Extra(action, results, more) \in Nat
    <3>1. action.kind = "search" /\ more => VisibleTokens(results) \in Nat
      BY VisibleIs DEF action
    <3> QED
      BY <1>5, <3>1 DEF Extra
  <2>2. m + Extra(action, results, more) = n + (c + Extra(action, results, more))
    BY <1>1, <2>1 DEF m
  <2> QED
    BY <2>2 DEF f, action, c
<1>7. CASE action.kind = "answer"
  <2>1. f = [said EXCEPT !.answer = action.value, !.failure = 0, !.active = FALSE]
    BY <1>6, <1>7 DEF Finished
  <2>2. f.length = said.length /\ f.truncated = said.truncated
    BY <1>3, <2>1 DEF IsRow
  <2>3. Extra(action, results, more) = 0 /\ m + 0 = m
    BY <1>1, <1>7 DEF Extra, m
  <2> QED
    BY <1>3, <2>2, <2>3 DEF Windowed
<1>8. CASE action.kind = "search" /\ ~more
  <2>1. f = [said EXCEPT !.active = FALSE]
    BY <1>6, <1>8
  <2>2. f.length = said.length /\ f.truncated = said.truncated
    BY <1>3, <2>1 DEF IsRow
  <2>3. Extra(action, results, more) = 0 /\ m + 0 = m
    BY <1>1, <1>8 DEF Extra, m
  <2> QED
    BY <1>3, <2>2, <2>3 DEF Windowed
<1>9. CASE action.kind = "search" /\ more
  <2> DEFINE g == [said EXCEPT !.searches = @ + 1,
                               !.retrieved = @ \o Titles(results),
                               !.observed = @ \o ObservedTitles(results)]
  <2>0. g = [said EXCEPT !.searches = @ + 1,
                         !.retrieved = @ \o Titles(results),
                         !.observed = @ \o ObservedTitles(results)]
    OBVIOUS
  <2>1. f = Longer(g, VisibleTokens(results))
    BY <1>6, <1>9 DEF Found
  <2> HIDE DEF g
  <2>2. g = [prompt |-> said.prompt, backend |-> said.backend, active |-> said.active,
             script |-> said.script, answer |-> said.answer, failure |-> said.failure,
             invalid |-> said.invalid, searches |-> said.searches + 1,
             truncated |-> said.truncated, length |-> said.length,
             retrieved |-> said.retrieved \o Titles(results),
             observed |-> said.observed \o ObservedTitles(results)]
    BY <1>3, <2>0 DEF IsRow
  <2>3. IsRow(g) /\ g.length = said.length /\ g.truncated = said.truncated
    BY <2>2 DEF IsRow
  <2>4. Windowed(g, m)
    BY <1>3, <2>3 DEF Windowed
  <2>5. VisibleTokens(results) \in Nat
    BY <1>9, VisibleIs DEF action
  <2>6. Extra(action, results, more) = VisibleTokens(results)
    BY <1>9 DEF Extra
  <2>7. m \in Nat
    BY <1>1 DEF m
  <2> QED
    BY <2>1, <2>3, <2>4, <2>5, <2>6, <2>7, LongerCounts
<1>10. CASE action.kind = "invalid"
  <2> DEFINE g == [said EXCEPT !.invalid = @ + 1, !.active = more]
             one == IF more THEN 1 ELSE 0
  <2>0. g = [said EXCEPT !.invalid = @ + 1, !.active = more]
    OBVIOUS
  <2>1. f = Longer(g, one)
    BY <1>6, <1>10
  <2> HIDE DEF g
  <2>2. g = [prompt |-> said.prompt, backend |-> said.backend, active |-> more,
             script |-> said.script, answer |-> said.answer, failure |-> said.failure,
             invalid |-> said.invalid + 1, searches |-> said.searches,
             truncated |-> said.truncated, length |-> said.length,
             retrieved |-> said.retrieved, observed |-> said.observed]
    BY <1>3, <2>0 DEF IsRow
  <2>3. IsRow(g) /\ g.length = said.length /\ g.truncated = said.truncated
    BY <2>2 DEF IsRow
  <2>4. Windowed(g, m)
    BY <1>3, <2>3 DEF Windowed
  <2>5. one \in Nat /\ Extra(action, results, more) = one
    BY <1>10 DEF Extra
  <2>6. m \in Nat
    BY <1>1 DEF m
  <2> HIDE DEF one
  <2> QED
    BY <2>1, <2>3, <2>4, <2>5, <2>6, LongerCounts
<1> QED
  BY <1>5, <1>7, <1>8, <1>9, <1>10

(***************************************************************************)
(* A row and the episode of its texts                                      *)
(***************************************************************************)

\* Two lists put together hold what each of them holds.
LEMMA JoinHolds ==
  ASSUME NEW a, NEW b, IsList(a), IsList(b)
  PROVE  IsList(a \o b) /\ ToSet(a \o b) = ToSet(a) \cup ToSet(b)
<1>1. PICK w: IsJoin(w, a, b)
  BY DEF IsJoin
<1>2. /\ IsList(w) /\ \A i \in DOMAIN a: i \in DOMAIN w /\ w[i] = a[i]
      /\ \A i \in DOMAIN b: Len(a) + i \in DOMAIN w /\ w[Len(a) + i] = b[i]
      /\ \A i \in DOMAIN w: i \in DOMAIN a \/ (i - Len(a) \in DOMAIN b /\ w[i] = b[i - Len(a)])
  BY <1>1, JoinedIs
<1>3. \A x \in ToSet(w): x \in ToSet(a) \cup ToSet(b)
  BY <1>2 DEF ToSet
<1>4. \A x \in ToSet(a) \cup ToSet(b): x \in ToSet(w)
  BY <1>2 DEF ToSet
<1>5. ToSet(w) = ToSet(a) \cup ToSet(b)
  BY <1>3, <1>4
<1>6. w = a \o b
  BY <1>1 DEF IsJoin
<1> QED
  BY <1>2, <1>5, <1>6

\* The titles that a text finds on a backend, and those of a script, text by text.
TitlesOf(b, text) ==
  LET action == ParseAction(text)
  IN  IF action.kind = "search" THEN Titles(Search(b, action.value)) ELSE <<>>

Told(b, s, turns) == [k \in 1..Min({Len(s), turns}) |-> TitlesOf(b, s[k])]

Gathered(b, s, turns) == FlattenSeq(Told(b, s, turns))

\* No text gives no title.
LEMMA NoneIs ==
  ASSUME NEW x, IsList(x)
  PROVE  x \o <<>> = x /\ <<>> \o x = x /\ IsList(<<>>) /\ Len(<<>>) = 0 /\ ToSet(<<>>) = {}
<1>1. x \in Seq(Range(x))
  BY DEF IsList
<1>2. x \o <<>> = x /\ <<>> \o x = x
  BY <1>1
<1>3. IsList(<<>>) /\ Len(<<>>) = 0
  BY DEF IsList
<1>4. ToSet(<<>>) = {}
  BY DEF ToSet
<1> QED
  BY <1>2, <1>3, <1>4

\* What a text finds is a list of titles.
LEMMA TitlesOfIs ==
  ASSUME NEW b \in Everywhere, NEW text, Sayable(text)
  PROVE  IsList(TitlesOf(b, text))
<1> DEFINE action == ParseAction(text)
<1>1. CASE action.kind = "search"
  <2>1. Answerable(action.value)
    BY <1>1 DEF Sayable
  <2>2. IsList(Search(b, action.value))
    BY <2>1, SearchIs
  <2>3. IsList(Titles(Search(b, action.value)))
    BY <2>2, RenderedIs
  <2> QED
    BY <1>1, <2>3 DEF TitlesOf
<1>2. CASE action.kind # "search"
  <2>1. TitlesOf(b, text) = <<>>
    BY <1>2 DEF TitlesOf
  <2> QED
    BY <2>1 DEF IsList
<1> QED
  BY <1>1, <1>2

\* A script that grows by one text tells one more list of titles, while there are
\* turns to search in.
LEMMA GatheredGrows ==
  ASSUME NEW turns \in Nat, NEW b \in Everywhere, NEW s, IsScript(s), NEW x, Sayable(x)
  PROVE  /\ Len(s) < turns =>
              Gathered(b, Append(s, x), turns) = Gathered(b, s, turns) \o TitlesOf(b, x)
         /\ ~(Len(s) < turns) => Gathered(b, Append(s, x), turns) = Gathered(b, s, turns)
<1> DEFINE n == Len(s)
           t == Append(s, x)
           told == Told(b, s, turns)
           more == Told(b, t, turns)
<1>1. n \in Nat /\ DOMAIN s = 1..n /\ \A i \in 1..n: Sayable(s[i])
  BY ListIs DEF IsScript
<1>2. Len(t) = n + 1 /\ t[n + 1] = x /\ \A i \in 1..n: t[i] = s[i]
  BY AppendIs DEF IsScript
<1>3. told = [k \in 1..Min({n, turns}) |-> TitlesOf(b, s[k])]
  BY DEF Told
<1>4. more = [k \in 1..Min({Len(t), turns}) |-> TitlesOf(b, t[k])]
  BY DEF Told
<1> HIDE DEF n, t, told, more
<1>5. CASE n < turns
  <2>1. Min({n, turns}) = n /\ Min({Len(t), turns}) = n + 1
    BY <1>1, <1>2, <1>5, MinIs
  <2>2. IsList(told) /\ Len(told) = n /\ DOMAIN told = 1..n
        /\ \A i \in 1..n: told[i] = TitlesOf(b, s[i])
    <3>1. DOMAIN told = 1..n /\ told = [i \in 1..n |-> told[i]]
          /\ \A i \in 1..n: told[i] = TitlesOf(b, s[i])
      BY <1>3, <2>1
    <3> QED
      BY <1>1, <3>1, SegmentIsList
  <2>3. more = Append(told, TitlesOf(b, x))
    <3> DEFINE w == Append(told, TitlesOf(b, x))
    <3>1. IsList(w) /\ DOMAIN w = 1..(n + 1) /\ w[n + 1] = TitlesOf(b, x)
          /\ \A i \in 1..n: w[i] = told[i] /\ Len(w) = n + 1
      BY <2>2, AppendIs
    <3> HIDE DEF w
    <3>2. w = [i \in 1..(n + 1) |-> w[i]]
      <4>1. w \in Seq(Range(w))
        BY <3>1 DEF IsList
      <4> QED
        BY <3>1, <4>1
    <3>3. more = [k \in 1..(n + 1) |-> TitlesOf(b, t[k])]
      BY <1>4, <2>1
    <3>4. \A i \in 1..(n + 1): i \in 1..n \/ i = n + 1
      BY <1>1
    <3>5. \A i \in 1..(n + 1): w[i] = TitlesOf(b, t[i])
      BY <1>2, <2>2, <3>1, <3>4
    <3>6. w = more
      BY <3>2, <3>3, <3>5
    <3> QED
      BY <3>6 DEF w
  <2>4. (\A i \in DOMAIN told: IsList(told[i])) /\ IsList(TitlesOf(b, x))
    BY <1>1, <2>2, TitlesOfIs
  <2>5. FlattenSeq(more) = FlattenSeq(told) \o TitlesOf(b, x)
    <3> DEFINE y == TitlesOf(b, x)
    <3> HIDE DEF y
    <3>1. IsList(y) /\ more = Append(told, y)
      BY <2>3, <2>4 DEF y
    <3>2. FlattenSeq(Append(told, y)) = FlattenSeq(told) \o y
      BY <2>2, <2>4, <3>1, FlatGrows
    <3> QED
      BY <3>1, <3>2 DEF y
  <2> QED
    BY <1>5, <2>5 DEF Gathered, told, more, n, t
<1>6. CASE ~(n < turns)
  <2>1. Min({n, turns}) = turns /\ Min({Len(t), turns}) = turns
    BY <1>1, <1>2, <1>6, MinIs
  <2>2. \A i \in 1..turns: t[i] = s[i]
    BY <1>1, <1>2, <1>6
  <2>3. more = told
    BY <1>3, <1>4, <2>1, <2>2
  <2> QED
    BY <1>6, <2>3 DEF Gathered, told, more, n, t
<1> QED
  BY <1>5, <1>6 DEF n

\* Nothing is gathered before the first text.
LEMMA NothingGathered ==
  ASSUME NEW turns \in Nat, NEW b
  PROVE  Gathered(b, <<>>, turns) = <<>>
<1> DEFINE told == Told(b, <<>>, turns)
<1>1. Min({Len(<<>>), turns}) = 0
  <2>1. Len(<<>>) = 0
    OBVIOUS
  <2> QED
    BY <2>1, MinIs
<1>2. told = <<>>
  <2>1. told = [k \in 1..Min({Len(<<>>), turns}) |-> TitlesOf(b, <<>>[k])]
    BY DEF Told
  <2> HIDE DEF told
  <2>2. told = [k \in 1..0 |-> TitlesOf(b, <<>>[k])]
    BY <1>1, <2>1
  <2>3. DOMAIN told = 1..0 /\ told = [k \in 1..0 |-> told[k]]
    BY <2>2
  <2>4. IsList(told) /\ Len(told) = 0
    BY <2>3, SegmentIsList
  <2>5. told \in Seq(Range(told))
    BY <2>4 DEF IsList
  <2> QED
    BY <2>4, <2>5
<1> HIDE DEF told
<1>3. FlattenSeq(told) = <<>>
  BY <1>2 DEF FlattenSeq
<1> QED
  BY <1>3 DEF Gathered, told

\* The titles that a text shows in training, and those that quotes hide, text by text.
SeenBy(b, text) ==
  LET action == ParseAction(text)
  IN  IF action.kind = "search" THEN ToSet(ObservedTitles(Search(b, action.value))) ELSE {}

HiddenIn(b, s, turns) == UNION {HiddenBy(b, s[k]): k \in 1..Min({Len(s), turns})}

\* The tokens of a script, text by text, with what the execution adds to each.
Charge(b, s, turns, k) ==
  Len(s[k]) + IF k \in 1..Min({Len(s), turns}) THEN AddedBy(b, s[k]) ELSE 0

Costs(b, s, turns) == [k \in DOMAIN s |-> Charge(b, s, turns, k)]

Cost(b, s, turns) == TotalOf(Costs(b, s, turns))

\* What the execution of a text adds to the trajectory is a number of tokens.
LEMMA AddedIs ==
  ASSUME NEW b \in Backends, NEW text, Sayable(text)
  PROVE  AddedBy(b, text) \in Nat /\ Len(text) \in Nat
<1> DEFINE action == ParseAction(text)
<1>1. Len(text) \in Nat
  BY DEF Sayable
<1>2. CASE action.kind = "search"
  <2>1. Answerable(action.value) /\ b \in Everywhere
    BY <1>2 DEF Sayable, Everywhere
  <2>2. Search(b, action.value) \in Seq(Documents)
    BY <2>1, SearchIs
  <2>3. VisibleTokens(Search(b, action.value)) \in Nat
    BY <2>2, VisibleIs
  <2> QED
    BY <1>1, <1>2, <2>3 DEF AddedBy
<1>3. CASE action.kind # "search"
  BY <1>1, <1>3 DEF AddedBy
<1> QED
  BY <1>2, <1>3

\* The turns that a longer script has searched in.
LEMMA SearchTurnsGrow ==
  ASSUME NEW turns \in Nat, NEW n \in Nat
  PROVE  /\ \A k \in 1..n: k \in 1..Min({n + 1, turns}) <=> k \in 1..Min({n, turns})
         /\ n + 1 \in 1..Min({n + 1, turns}) <=> n < turns
         /\ \A k \in 1..Min({n, turns}): k \in 1..n
         /\ \A k \in 1..Min({n + 1, turns}): k \in 1..n \/ k = n + 1
<1>1. /\ Min({n, turns}) = IF n <= turns THEN n ELSE turns
      /\ Min({n + 1, turns}) = IF n + 1 <= turns THEN n + 1 ELSE turns
  BY MinIs
<1> QED
  BY <1>1

\* A script that grows by one text hides what that text hides.
LEMMA HiddenGrows ==
  ASSUME NEW turns \in Nat, NEW b, NEW s, IsScript(s), NEW x
  PROVE  HiddenIn(b, Append(s, x), turns)
           = HiddenIn(b, s, turns) \cup (IF Len(s) < turns THEN HiddenBy(b, x) ELSE {})
<1> DEFINE n == Len(s)
           t == Append(s, x)
           old == HiddenIn(b, s, turns)
           new == HiddenIn(b, t, turns)
<1>1. n \in Nat /\ Len(t) = n + 1 /\ t[n + 1] = x /\ \A i \in 1..n: t[i] = s[i]
  BY AppendIs DEF IsScript
<1>2. old = UNION {HiddenBy(b, s[k]): k \in 1..Min({n, turns})}
  BY DEF HiddenIn
<1>3. new = UNION {HiddenBy(b, t[k]): k \in 1..Min({n + 1, turns})}
  <2> HIDE DEF t, n
  <2> QED
    BY <1>1 DEF HiddenIn
<1> HIDE DEF n, t, old, new
<1>4. \A y: y \in old <=> \E k \in 1..Min({n, turns}): y \in HiddenBy(b, s[k])
  BY <1>2
<1>5. \A y: y \in new <=> \E k \in 1..Min({n + 1, turns}): y \in HiddenBy(b, t[k])
  BY <1>3
<1>6. ASSUME NEW y PROVE y \in new <=> y \in old \/ (n < turns /\ y \in HiddenBy(b, x))
  <2> DEFINE Early == 1..Min({n, turns})
             Late == 1..Min({n + 1, turns})
  <2>1. /\ \A k \in 1..n: k \in Late <=> k \in Early
        /\ n + 1 \in Late <=> n < turns
        /\ \A k \in Early: k \in 1..n
        /\ \A k \in Late: k \in 1..n \/ k = n + 1
    BY <1>1, SearchTurnsGrow
  <2>2. /\ y \in old <=> \E k \in Early: y \in HiddenBy(b, s[k])
        /\ y \in new <=> \E k \in Late: y \in HiddenBy(b, t[k])
    BY <1>4, <1>5
  <2> HIDE DEF Early, Late
  <2>3. ASSUME y \in new PROVE y \in old \/ (n < turns /\ y \in HiddenBy(b, x))
    <3>1. PICK k \in Late: y \in HiddenBy(b, t[k])
      BY <2>2, <2>3
    <3>2. CASE k \in 1..n
      BY <1>1, <2>1, <2>2, <3>1, <3>2
    <3>3. CASE k = n + 1
      BY <1>1, <2>1, <3>1, <3>3
    <3> QED
      BY <2>1, <3>1, <3>2, <3>3
  <2>4. ASSUME y \in old PROVE y \in new
    BY <1>1, <2>1, <2>2, <2>4
  <2>5. n < turns /\ y \in HiddenBy(b, x) => y \in new
    BY <1>1, <2>1, <2>2
  <2> QED
    BY <2>3, <2>4, <2>5
<1>7. new = old \cup (IF n < turns THEN HiddenBy(b, x) ELSE {})
  BY <1>6
<1> QED
  BY <1>7 DEF n, t, old, new

\* A script that grows by one text costs the tokens of that text, and those that its
\* execution adds while there are turns to search in.
LEMMA CostGrows ==
  ASSUME NEW turns \in Nat, NEW b, NEW s, IsScript(s), NEW x
  PROVE  Cost(b, Append(s, x), turns)
           = Cost(b, s, turns) + (Len(x) + IF Len(s) < turns THEN AddedBy(b, x) ELSE 0)
<1> DEFINE n == Len(s)
           t == Append(s, x)
           old == Costs(b, s, turns)
           new == Costs(b, t, turns)
           charge == Len(x) + IF n < turns THEN AddedBy(b, x) ELSE 0
<1>1. n \in Nat /\ DOMAIN s = 1..n
  BY ListIs DEF IsScript
<1>2. Len(t) = n + 1 /\ DOMAIN t = 1..(n + 1) /\ t[n + 1] = x /\ \A i \in 1..n: t[i] = s[i]
  BY AppendIs DEF IsScript
<1>3. \A k \in 1..n: Charge(b, t, turns, k) = Charge(b, s, turns, k)
  <2> SUFFICES ASSUME NEW k \in 1..n PROVE Charge(b, t, turns, k) = Charge(b, s, turns, k)
    OBVIOUS
  <2>1. t[k] = s[k] /\ (k \in 1..Min({n + 1, turns}) <=> k \in 1..Min({n, turns}))
    BY <1>1, <1>2, SearchTurnsGrow
  <2>2. k \in 1..Min({Len(t), turns}) <=> k \in 1..Min({Len(s), turns})
    BY <1>2, <2>1
  <2> HIDE DEF n, t
  <2>3. CASE k \in 1..Min({Len(s), turns})
    BY <2>1, <2>2, <2>3 DEF Charge
  <2>4. CASE ~(k \in 1..Min({Len(s), turns}))
    BY <2>1, <2>2, <2>4 DEF Charge
  <2> QED
    BY <2>3, <2>4
<1>4. Charge(b, t, turns, n + 1) = charge
  <2>1. n + 1 \in 1..Min({n + 1, turns}) <=> n < turns
    BY <1>1, SearchTurnsGrow
  <2>2. n + 1 \in 1..Min({Len(t), turns}) <=> n < turns
    BY <1>2, <2>1
  <2> HIDE DEF n, t
  <2>3. CASE n < turns
    BY <1>2, <2>2, <2>3 DEF Charge
  <2>4. CASE ~(n < turns)
    BY <1>2, <2>2, <2>4 DEF Charge
  <2> QED
    BY <2>3, <2>4
<1>5. /\ old = [k \in 1..n |-> Charge(b, s, turns, k)]
      /\ new = [k \in 1..(n + 1) |-> Charge(b, t, turns, k)]
  BY <1>1, <1>2 DEF Costs
<1> HIDE DEF n, t, old, new, charge
<1>6. IsList(old) /\ Len(old) = n /\ \A k \in 1..n: old[k] = Charge(b, s, turns, k)
  <2>1. DOMAIN old = 1..n /\ old = [k \in 1..n |-> old[k]]
        /\ \A k \in 1..n: old[k] = Charge(b, s, turns, k)
    BY <1>5
  <2> QED
    BY <1>1, <2>1, SegmentIsList
<1>7. new = Append(old, charge)
  <2> DEFINE w == Append(old, charge)
  <2>1. IsList(w) /\ DOMAIN w = 1..(n + 1) /\ w[n + 1] = charge
        /\ \A i \in 1..n: w[i] = old[i] /\ Len(w) = n + 1
    BY <1>6, AppendIs
  <2> HIDE DEF w
  <2>2. w = [i \in 1..(n + 1) |-> w[i]]
    <3>1. w \in Seq(Range(w))
      BY <2>1 DEF IsList
    <3> QED
      BY <2>1, <3>1
  <2>3. \A i \in 1..(n + 1): i \in 1..n \/ i = n + 1
    BY <1>1
  <2>4. \A i \in 1..(n + 1): w[i] = Charge(b, t, turns, i)
    BY <1>3, <1>4, <1>6, <2>1, <2>3
  <2>5. w = new
    BY <1>5, <2>2, <2>4
  <2> QED
    BY <2>5 DEF w
<1>8. TotalOf(new) = TotalOf(old) + charge
  BY <1>6, <1>7, SumGrows
<1> QED
  BY <1>8 DEF Cost, n, t, old, new, charge

\* Nothing is hidden, and no token counted, before the first text.
LEMMA NothingCounted ==
  ASSUME NEW turns \in Nat, NEW b
  PROVE  HiddenIn(b, <<>>, turns) = {} /\ Cost(b, <<>>, turns) = 0
<1> DEFINE costs == Costs(b, <<>>, turns)
<1>1. Min({Len(<<>>), turns}) = 0
  <2>1. Len(<<>>) = 0
    OBVIOUS
  <2> QED
    BY <2>1, MinIs
<1>2. HiddenIn(b, <<>>, turns) = {}
  <2>1. HiddenIn(b, <<>>, turns) = UNION {HiddenBy(b, <<>>[k]): k \in 1..0}
    BY <1>1 DEF HiddenIn
  <2>2. {HiddenBy(b, <<>>[k]): k \in 1..0} = {}
    OBVIOUS
  <2> QED
    BY <2>1, <2>2
<1>3. IsList(costs) /\ Len(costs) = 0
  <2>1. DOMAIN <<>> = 1..0
    OBVIOUS
  <2>2. costs = [k \in 1..0 |-> Charge(b, <<>>, turns, k)]
    BY <2>1 DEF Costs
  <2> HIDE DEF costs
  <2>3. DOMAIN costs = 1..0 /\ costs = [k \in 1..0 |-> costs[k]]
    BY <2>2
  <2> QED
    BY <2>3, SegmentIsList
<1> HIDE DEF costs
<1>4. TotalOf(costs) = 0
  BY <1>3, SumGrows
<1> QED
  BY <1>2, <1>4 DEF Cost, costs

\* A row says of its episode what the trainer keeps of it.
Matches(r, e) ==
  /\ r.active <=> ~e.over
  /\ r.answer = e.prediction
  /\ r.failure = IF r.active THEN 1 ELSE e.failure
  /\ r.invalid = e.invalid /\ r.searches = Len(e.queries)
  /\ IsList(r.retrieved) /\ IsList(r.observed)
  /\ ToSet(r.retrieved) = e.retrieved

\* The evaluator credits a row with what it was shown and with what quotes hid.
Hides(r, s, turns) ==
  RunEpisode(r.backend, turns, s).observed = ToSet(r.observed) \cup HiddenIn(r.backend, s, turns)

\* The row has counted every token of its texts, and of what they added.
Counts(r, s, turns) ==
  Cost(r.backend, s, turns) \in Nat /\ Windowed(r, Cost(r.backend, s, turns))

\* A row stands where the evaluator would after the texts s, with the titles that
\* these texts found, and with their tokens.
Follows(r, s, turns) ==
  /\ Matches(r, RunEpisode(r.backend, turns, s))
  /\ r.active => RunEpisode(r.backend, turns, s).attempts = Len(s)
  /\ r.retrieved = Gathered(r.backend, s, turns)
  /\ Hides(r, s, turns) /\ Counts(r, s, turns)

\* A row and an episode, r and e, act on the same text and become f and g.
ActsAlike(r, f, e, g, text, more) ==
  /\ SamePlace(r, f) /\ Matches(f, g) /\ g.attempts = e.attempts + 1
  /\ ~more => ~f.active
  /\ f.searches = IF Action(r).kind = "search" /\ more THEN r.searches + 1 ELSE r.searches
  /\ f.retrieved = IF more THEN r.retrieved \o TitlesOf(r.backend, text) ELSE r.retrieved
  /\ ToSet(f.observed) = ToSet(r.observed) \cup (IF more THEN SeenBy(r.backend, text) ELSE {})
  /\ g.observed = e.observed
       \cup (IF more THEN SeenBy(r.backend, text) \cup HiddenBy(r.backend, text) ELSE {})

\* A row and the evaluator take the same step on the same text.
LEMMA ActedMatches ==
  ASSUME NEW turns \in Nat, NEW r, IsRow(r), Fits(r), r.active, r.backend \in Backends,
         Sayable(Last(r.script)),
         NEW e, Sound(e, turns), Matches(r, e),
         NEW more \in BOOLEAN, more <=> e.attempts < turns,
         NEW results,
         Action(r).kind = "search" /\ more => results = Search(r.backend, Action(r).value)
  PROVE  ActsAlike(r, ActedRow(r, results, more),
                   e, Step(e, r.backend, turns, Last(r.script)), Last(r.script), more)
<1> DEFINE text == Last(r.script)
           b == r.backend
           action == ParseAction(text)
           f == ActedRow(r, results, more)
           g == Step(e, b, turns, text)
<1>1. /\ IsEpisode(e) /\ ~e.over /\ e.attempts \in Nat /\ e.invalid \in Nat
      /\ IsList(e.queries)
  BY DEF Matches, Sound, Counted
<1>2. e.failure = 0
  BY <1>1 DEF Sound, Counted
<1>3. text \in Seq(Blocks) /\ Action(r) = action
      /\ action.kind \in {"search", "answer", "invalid"}
  BY ActionIs DEF Sayable, Action
<1>4. b \in Everywhere
  BY DEF Everywhere
<1>5. action.kind = "search" => Answerable(action.value)
  BY DEF Sayable
<1>6. action.kind = "search" /\ more =>
        results = Search(b, action.value) /\ results \in Seq(Documents) /\ IsList(results)
  <2>1. ASSUME action.kind = "search", more
        PROVE  results = Search(b, action.value) /\ results \in Seq(Documents) /\ IsList(results)
    <3>1. Answerable(action.value)
      BY <1>5, <2>1
    <3>2. results = Search(b, action.value)
      BY <1>3, <2>1
    <3> HIDE DEF action, b
    <3>3. IsList(Search(b, action.value)) /\ Search(b, action.value) \in Seq(Documents)
      <4>1. b \in Backends
        BY DEF b
      <4> QED
        BY <1>4, <3>1, <4>1, SearchIs
    <3> QED
      BY <3>2, <3>3
  <2> QED
    BY <2>1
<1>7. /\ SamePlace(r, f)
      /\ action.kind = "answer" =>
           Ends(r, f, action.value, 0) /\ f.invalid = r.invalid
      /\ action.kind # "answer" /\ ~more =>
           /\ Ends(r, f, r.answer, r.failure)
           /\ f.invalid = IF action.kind = "invalid" THEN r.invalid + 1 ELSE r.invalid
      /\ action.kind # "answer" /\ more =>
           /\ f.active = TRUE /\ f.answer = r.answer /\ f.failure = r.failure
           /\ action.kind = "search" =>
                /\ f.invalid = r.invalid /\ f.searches = r.searches + 1
                /\ f.retrieved = r.retrieved \o Titles(results)
                /\ f.observed = r.observed \o ObservedTitles(results)
           /\ action.kind = "invalid" =>
                /\ f.invalid = r.invalid + 1 /\ f.searches = r.searches
                /\ f.retrieved = r.retrieved /\ f.observed = r.observed
  <2>1. Action(r).kind = "search" /\ more => results \in Seq(Documents)
    BY <1>3, <1>6
  <2> QED
    BY <2>1, ActedIs, Zenon DEF Action
<1>8. /\ IsEpisode(g) /\ g.attempts = e.attempts + 1
      /\ action.kind = "answer" => EndsWith(e, g, action.value, e.failure, e.invalid)
      /\ action.kind # "answer" /\ ~more =>
           EndsWith(e, g, e.prediction, 1,
                    IF action.kind = "invalid" THEN e.invalid + 1 ELSE e.invalid)
      /\ action.kind # "answer" /\ more =>
           /\ g.over = e.over /\ g.prediction = e.prediction /\ g.failure = e.failure
           /\ action.kind = "search" =>
                /\ g.invalid = e.invalid
                /\ Finds(e, g, action.value, Normalized(Search(b, action.value)))
           /\ action.kind = "invalid" => g.invalid = e.invalid + 1 /\ Unsearched(e, g)
  BY <1>1, <1>3, StepIs, ZenonT(30)
<1> SUFFICES /\ Matches(f, g)
             /\ ~more => ~f.active
             /\ f.searches = IF action.kind = "search" /\ more THEN r.searches + 1 ELSE r.searches
             /\ f.retrieved = IF more THEN r.retrieved \o TitlesOf(b, text) ELSE r.retrieved
             /\ ToSet(f.observed) = ToSet(r.observed) \cup (IF more THEN SeenBy(b, text) ELSE {})
             /\ g.observed = e.observed
                  \cup (IF more THEN SeenBy(b, text) \cup HiddenBy(b, text) ELSE {})
  BY <1>3, <1>7, <1>8, Zenon DEF ActsAlike
<1>9. /\ r.answer = e.prediction /\ r.failure = 1
      /\ r.invalid = e.invalid /\ r.searches = Len(e.queries)
      /\ IsList(r.retrieved) /\ IsList(r.observed)
      /\ ToSet(r.retrieved) = e.retrieved
  BY DEF Matches
<1>10. /\ action.kind # "search" => TitlesOf(b, text) = <<>>
       /\ action.kind = "search" => TitlesOf(b, text) = Titles(Search(b, action.value))
  BY DEF TitlesOf
<1>11. /\ action.kind # "search" => SeenBy(b, text) = {} /\ HiddenBy(b, text) = {}
       /\ action.kind = "search" =>
            /\ SeenBy(b, text) = ToSet(ObservedTitles(Search(b, action.value)))
            /\ HiddenBy(b, text) =
                 ToSet(ObservedTitles(Normalized(Search(b, action.value))))
                   \ ToSet(ObservedTitles(Search(b, action.value)))
  BY DEF SeenBy, HiddenBy
<1>12. r.retrieved \o <<>> = r.retrieved
  BY <1>9, NoneIs
<1> HIDE DEF f, g, action, b, text
<1>13. CASE action.kind = "answer"
  <2>1. Ends(r, f, action.value, 0) /\ f.invalid = r.invalid
    BY <1>7, <1>13
  <2>2. EndsWith(e, g, action.value, e.failure, e.invalid)
    BY <1>8, <1>13
  <2>3. ~f.active /\ g.over
    BY <2>1, <2>2 DEF Ends, EndsWith
  <2>4. f.failure = 0 /\ g.failure = 0
    BY <1>2, <2>1, <2>2 DEF Ends, EndsWith
  <2>5. /\ f.answer = g.prediction /\ f.invalid = g.invalid /\ f.searches = Len(g.queries)
        /\ f.searches = r.searches /\ f.retrieved = r.retrieved
        /\ IsList(f.retrieved) /\ IsList(f.observed)
        /\ ToSet(f.retrieved) = g.retrieved
        /\ f.observed = r.observed /\ g.observed = e.observed
    BY <1>9, <2>1, <2>2 DEF Ends, EndsWith, Unsearched
  <2>6. Matches(f, g)
    BY <2>3, <2>4, <2>5 DEF Matches
  <2> QED
    BY <1>10, <1>12, <1>13, <1>11, <2>3, <2>5, <2>6
<1>14. CASE action.kind # "answer" /\ ~more
  <2>1. /\ Ends(r, f, r.answer, r.failure)
        /\ f.invalid = IF action.kind = "invalid" THEN r.invalid + 1 ELSE r.invalid
    BY <1>7, <1>14
  <2>2. EndsWith(e, g, e.prediction, 1,
                 IF action.kind = "invalid" THEN e.invalid + 1 ELSE e.invalid)
    BY <1>8, <1>14
  <2>3. ~f.active /\ g.over
    BY <2>1, <2>2 DEF Ends, EndsWith
  <2>4. f.failure = 1 /\ g.failure = 1
    BY <1>9, <2>1, <2>2 DEF Ends, EndsWith
  <2>5. f.invalid = g.invalid
    BY <1>9, <2>1, <2>2 DEF EndsWith
  <2>6. /\ f.answer = g.prediction /\ f.searches = Len(g.queries)
        /\ f.searches = r.searches /\ f.retrieved = r.retrieved
        /\ IsList(f.retrieved) /\ IsList(f.observed)
        /\ ToSet(f.retrieved) = g.retrieved
        /\ f.observed = r.observed /\ g.observed = e.observed
    BY <1>9, <2>1, <2>2 DEF Ends, EndsWith, Unsearched
  <2>7. Matches(f, g)
    BY <2>3, <2>4, <2>5, <2>6 DEF Matches
  <2> QED
    BY <1>14, <2>3, <2>6, <2>7
<1>15. CASE action.kind = "search" /\ more
  <2> DEFINE titles == Titles(results)
             seen == ObservedTitles(results)
             shown == Normalized(results)
  <2>1. /\ f.active = TRUE /\ f.answer = r.answer /\ f.failure = r.failure
        /\ f.invalid = r.invalid /\ f.searches = r.searches + 1
        /\ f.retrieved = r.retrieved \o titles
        /\ f.observed = r.observed \o seen
    BY <1>7, <1>15
  <2>2. /\ g.over = e.over /\ g.prediction = e.prediction /\ g.failure = e.failure
        /\ g.invalid = e.invalid /\ Finds(e, g, action.value, shown)
    BY <1>6, <1>8, <1>15
  <2>3. IsList(titles) /\ IsList(seen)
    BY <1>6, <1>15, RenderedIs, ObservedAre
  <2>4. Titles(shown) = titles
    BY <1>6, <1>15, NormalizedIs
  <2>5. /\ ToSet(seen) \subseteq ToSet(ObservedTitles(shown))
        /\ SeenBy(b, text) = ToSet(seen)
        /\ HiddenBy(b, text) = ToSet(ObservedTitles(shown)) \ ToSet(seen)
    <3>1. ToSet(seen) \subseteq ToSet(ObservedTitles(shown))
      BY <1>6, <1>15, QuotesOnlyHide
    <3>2. results = Search(b, action.value)
      BY <1>6, <1>15
    <3> QED
      BY <1>15, <1>11, <3>1, <3>2
  <2> HIDE DEF titles, seen, shown
  <2>6. f.active /\ ~g.over
    BY <1>1, <2>1, <2>2
  <2>7. f.searches = Len(g.queries)
    <3>1. Len(Append(e.queries, action.value)) = Len(e.queries) + 1
      BY <1>1, AppendIs
    <3> QED
      BY <1>9, <2>1, <2>2, <3>1 DEF Finds
  <2>8. IsList(f.retrieved) /\ ToSet(f.retrieved) = g.retrieved
    <3>1. IsList(r.retrieved \o titles)
          /\ ToSet(r.retrieved \o titles) = ToSet(r.retrieved) \cup ToSet(titles)
      BY <1>9, <2>3, JoinHolds
    <3>2. g.retrieved = e.retrieved \cup ToSet(titles)
      BY <2>2, <2>4 DEF Finds
    <3> QED
      BY <1>9, <2>1, <3>1, <3>2
  <2>9. /\ IsList(f.observed) /\ ToSet(f.observed) = ToSet(r.observed) \cup SeenBy(b, text)
        /\ g.observed = e.observed \cup SeenBy(b, text) \cup HiddenBy(b, text)
    <3>1. IsList(r.observed \o seen)
          /\ ToSet(r.observed \o seen) = ToSet(r.observed) \cup ToSet(seen)
      BY <1>9, <2>3, JoinHolds
    <3>2. g.observed = e.observed \cup ToSet(ObservedTitles(shown))
      BY <2>2 DEF Finds
    <3> QED
      BY <1>9, <2>1, <2>5, <3>1, <3>2
  <2>10. f.failure = 1
    BY <1>9, <2>1
  <2>11. f.answer = g.prediction /\ f.invalid = g.invalid
    BY <1>9, <2>1, <2>2
  <2>12. Matches(f, g)
    BY <2>6, <2>7, <2>8, <2>9, <2>10, <2>11 DEF Matches
  <2>13. TitlesOf(b, text) = titles
    BY <1>6, <1>10, <1>15 DEF titles
  <2> QED
    BY <1>15, <2>1, <2>9, <2>12, <2>13
<1>16. CASE action.kind = "invalid" /\ more
  <2>1. /\ f.active = TRUE /\ f.answer = r.answer /\ f.failure = r.failure
        /\ f.invalid = r.invalid + 1 /\ f.searches = r.searches
        /\ f.retrieved = r.retrieved /\ f.observed = r.observed
    BY <1>7, <1>16
  <2>2. /\ g.over = e.over /\ g.prediction = e.prediction /\ g.failure = e.failure
        /\ g.invalid = e.invalid + 1 /\ Unsearched(e, g)
    BY <1>8, <1>16
  <2>3. f.active /\ ~g.over
    BY <1>1, <2>1, <2>2
  <2>4. f.failure = 1
    BY <1>9, <2>1
  <2>5. f.invalid = g.invalid
    BY <1>9, <2>1, <2>2
  <2>6. /\ f.answer = g.prediction /\ f.searches = Len(g.queries)
        /\ IsList(f.retrieved) /\ IsList(f.observed)
        /\ ToSet(f.retrieved) = g.retrieved
        /\ f.observed = r.observed /\ g.observed = e.observed
    BY <1>9, <2>1, <2>2 DEF Unsearched
  <2>7. Matches(f, g)
    BY <2>3, <2>4, <2>5, <2>6 DEF Matches
  <2>8. TitlesOf(b, text) = <<>>
    BY <1>10, <1>16
  <2> QED
    BY <1>12, <1>16, <1>11, <2>1, <2>6, <2>7, <2>8
<1> QED
  BY <1>3, <1>13, <1>14, <1>15, <1>16

\* A text said and executed brings the row to the end of its script.
LEMMA ActedFollows ==
  ASSUME NEW turns \in Nat, NEW r, IsRow(r), Fits(r), r.active, r.backend \in Backends,
         NEW s, IsScript(s), NEW x, Sayable(x), r.script = Append(s, x), Follows(r, s, turns),
         NEW more \in BOOLEAN, more <=> Len(s) < turns,
         NEW results,
         Action(r).kind = "search" /\ more => results = Search(r.backend, Action(r).value)
  PROVE  /\ SamePlace(r, ActedRow(r, results, more))
         /\ Follows(ActedRow(r, results, more), r.script, turns)
         /\ ~more => ~ActedRow(r, results, more).active
         /\ ActedRow(r, results, more).searches =
              IF Action(r).kind = "search" /\ more THEN r.searches + 1 ELSE r.searches
<1> DEFINE e == RunEpisode(r.backend, turns, s)
           f == ActedRow(r, results, more)
           g == RunEpisode(r.backend, turns, r.script)
<1>1. IsList(s) /\ Len(s) \in Nat
  BY ListIs DEF IsScript
<1>2. Last(r.script) = x
  BY <1>1, FrontIs, ZenonT(30)
<1>3. r.backend \in Everywhere
  BY DEF Everywhere
<1>4. Sound(e, turns)
  BY <1>3, EpisodeIsSound
<1>5. /\ Matches(r, e) /\ e.attempts = Len(s) /\ r.retrieved = Gathered(r.backend, s, turns)
      /\ e.observed = ToSet(r.observed) \cup HiddenIn(r.backend, s, turns)
      /\ Cost(r.backend, s, turns) \in Nat /\ Windowed(r, Cost(r.backend, s, turns))
  BY DEF Follows, Hides, Counts
<1>6. g = Step(e, r.backend, turns, x)
  BY <1>1, RunGrows
<1> HIDE DEF e, f, g
<1>7. ActsAlike(r, f, e, g, x, more)
  <2>1. more <=> e.attempts < turns
    BY <1>5
  <2>2. Sayable(Last(r.script)) /\ Sound(e, turns) /\ Matches(r, e)
    BY <1>2, <1>4, <1>5
  <2>3. ActsAlike(r, ActedRow(r, results, more),
                  e, Step(e, r.backend, turns, Last(r.script)), Last(r.script), more)
    BY <2>1, <2>2, ActedMatches
  <2> QED
    BY <1>2, <1>6, <2>3 DEF f
<1>8. Len(r.script) = Len(s) + 1
  BY <1>1, AppendIs
<1>9. f.retrieved = Gathered(r.backend, r.script, turns)
  <2>1. /\ Len(s) < turns =>
             Gathered(r.backend, r.script, turns) = r.retrieved \o TitlesOf(r.backend, x)
        /\ ~(Len(s) < turns) => Gathered(r.backend, r.script, turns) = r.retrieved
    <3> DEFINE b == r.backend
    <3>1. b \in Everywhere /\ r.retrieved = Gathered(b, s, turns)
      BY <1>3, <1>5
    <3> HIDE DEF b
    <3>2. /\ Len(s) < turns =>
               Gathered(b, Append(s, x), turns) = Gathered(b, s, turns) \o TitlesOf(b, x)
          /\ ~(Len(s) < turns) => Gathered(b, Append(s, x), turns) = Gathered(b, s, turns)
      BY <3>1, GatheredGrows
    <3> QED
      BY <3>1, <3>2 DEF b
  <2>2. /\ more => f.retrieved = r.retrieved \o TitlesOf(r.backend, x)
        /\ ~more => f.retrieved = r.retrieved
    BY <1>7 DEF ActsAlike
  <2> QED
    BY <2>1, <2>2
<1>10. g.observed = ToSet(f.observed) \cup HiddenIn(r.backend, r.script, turns)
  <2>1. HiddenIn(r.backend, r.script, turns)
          = HiddenIn(r.backend, s, turns)
              \cup (IF Len(s) < turns THEN HiddenBy(r.backend, x) ELSE {})
    BY HiddenGrows
  <2> QED
    BY <1>5, <1>7, <2>1 DEF ActsAlike
<1>11. /\ Cost(r.backend, r.script, turns) \in Nat
       /\ Windowed(f, Cost(r.backend, r.script, turns))
  <2> DEFINE n == Cost(r.backend, s, turns)
             extra == Extra(Action(r), results, more)
  <2>1. Cost(r.backend, r.script, turns)
          = n + (Len(x) + IF Len(s) < turns THEN AddedBy(r.backend, x) ELSE 0)
    BY CostGrows
  <2>2. n \in Nat /\ Windowed(r, n)
    BY <1>5
  <2>3. Action(r) = ParseAction(x) /\ Action(r).kind \in {"search", "answer", "invalid"}
    BY <1>2, ActionIs, Zenon DEF Action, Sayable
  <2>4. Action(r).kind = "search" /\ more => results \in Seq(Documents)
    <3>1. ASSUME Action(r).kind = "search", more PROVE results \in Seq(Documents)
      <4>1. results = Search(r.backend, Action(r).value)
        BY <3>1
      <4>2. Answerable(Action(r).value)
        BY <2>3, <3>1 DEF Sayable
      <4> QED
        BY <1>3, <4>1, <4>2, SearchIs
    <3> QED
      BY <3>1
  <2>5. extra = IF Len(s) < turns THEN AddedBy(r.backend, x) ELSE 0
    <3>1. more => extra = AddedBy(r.backend, x)
      BY <2>3 DEF Extra, AddedBy
    <3>2. ~more => extra = 0
      BY DEF Extra
    <3> QED
      BY <3>1, <3>2
  <2>6. AddedBy(r.backend, x) \in Nat /\ Len(x) \in Nat
    BY AddedIs
  <2>7. Windowed(f, n + (Len(x) + extra))
    <3>1. Sayable(Last(r.script)) /\ Len(Last(r.script)) = Len(x)
      BY <1>2
    <3> HIDE DEF n
    <3>2. Windowed(ActedRow(r, results, more), n + (Len(Last(r.script)) + extra))
      BY <2>2, <2>4, <3>1, ActedCounts
    <3> QED
      BY <3>1, <3>2 DEF f
  <2> HIDE DEF n, extra
  <2>8. Cost(r.backend, r.script, turns) = n + (Len(x) + extra)
    BY <2>1, <2>5
  <2>9. n + (Len(x) + extra) \in Nat
    BY <2>2, <2>5, <2>6
  <2> QED
    BY <2>7, <2>8, <2>9
<1>12. Follows(f, r.script, turns)
  <2>1. f.backend = r.backend
    BY <1>7 DEF ActsAlike, SamePlace
  <2>2. Matches(f, RunEpisode(f.backend, turns, r.script))
    BY <1>7, <2>1 DEF ActsAlike, g
  <2>3. RunEpisode(f.backend, turns, r.script).attempts = Len(r.script)
    BY <1>5, <1>7, <1>8, <2>1 DEF ActsAlike, g
  <2>4. f.retrieved = Gathered(f.backend, r.script, turns)
    BY <1>9, <2>1
  <2>5. Hides(f, r.script, turns)
    BY <1>10, <2>1 DEF Hides, g
  <2>6. Counts(f, r.script, turns)
    BY <1>11, <2>1 DEF Counts
  <2> QED
    BY <2>2, <2>3, <2>4, <2>5, <2>6 DEF Follows
<1> QED
  BY <1>7, <1>12 DEF ActsAlike, f

\* Only these fields say where a row stands.
LEMMA StandsIs ==
  ASSUME NEW r, NEW f, NEW s, NEW turns, Follows(r, s, turns),
         f.active <=> r.active, f.backend = r.backend, f.answer = r.answer,
         f.failure = r.failure, f.invalid = r.invalid, f.searches = r.searches,
         f.retrieved = r.retrieved, f.observed = r.observed, f.length = r.length,
         f.truncated = r.truncated
  PROVE  Follows(f, s, turns)
<1> DEFINE e == RunEpisode(r.backend, turns, s)
<1>1. Matches(r, e) /\ (r.active => e.attempts = Len(s))
      /\ r.retrieved = Gathered(r.backend, s, turns) /\ e = RunEpisode(f.backend, turns, s)
  BY DEF Follows
<1> HIDE DEF e
<1>2. Matches(f, e)
  <2>1. f.failure = IF f.active THEN 1 ELSE e.failure
    BY <1>1 DEF Matches
  <2>2. f.active <=> ~e.over
    BY <1>1 DEF Matches
  <2> QED
    BY <1>1, <2>1, <2>2 DEF Matches
<1>3. f.active => e.attempts = Len(s)
  BY <1>1
<1>4. Hides(f, s, turns)
  BY DEF Follows, Hides
<1>5. Counts(f, s, turns)
  BY DEF Follows, Counts, Windowed
<1> QED
  BY <1>1, <1>2, <1>3, <1>4, <1>5 DEF Follows, e

\* A row that has not got its backend yet.
LEMMA NewRowIs ==
  ASSUME NEW prompt
  PROVE  /\ IsRow(NewRow(prompt)) /\ Fits(NewRow(prompt))
         /\ NewRow(prompt).prompt = prompt /\ NewRow(prompt).backend = ""
         /\ NewRow(prompt).searches = 0 /\ NewRow(prompt).failure = 1
<1>1. IsRow(NewRow(prompt))
  BY Zenon DEF NewRow, IsRow
<1>2. NewRow(prompt).truncated = 0 /\ NewRow(prompt).length = 0
  BY Zenon DEF NewRow
<1>3. Fits(NewRow(prompt))
  BY <1>2, WindowAssumption DEF Fits
<1>4. NewRow(prompt).prompt = prompt /\ NewRow(prompt).backend = ""
      /\ NewRow(prompt).searches = 0 /\ NewRow(prompt).failure = 1
  BY Zenon DEF NewRow
<1> QED
  BY <1>1, <1>3, <1>4

\* The row as Assign makes it.
IsAssigned(f, prompt, b) == f = [NewRow(prompt) EXCEPT !.backend = b]

\* A row that has just got its backend has said nothing.
LEMMA AssignedIs ==
  ASSUME NEW turns \in Nat, NEW prompt, NEW b, NEW f, IsAssigned(f, prompt, b)
  PROVE  /\ IsRow(f) /\ Fits(f) /\ f.prompt = prompt /\ f.backend = b
         /\ f.active = TRUE /\ f.script = <<>> /\ f.searches = 0 /\ f.failure = 1
         /\ Follows(f, <<>>, turns)
<1> DEFINE r == NewRow(prompt)
<1>1. r = [prompt |-> prompt, backend |-> "", active |-> TRUE, script |-> <<>>,
           answer |-> "", failure |-> 1, invalid |-> 0, searches |-> 0,
           truncated |-> 0, length |-> 0, retrieved |-> <<>>, observed |-> <<>>]
  BY DEF NewRow
<1>2. f = [r EXCEPT !.backend = b]
  BY DEF IsAssigned
<1> HIDE DEF r
<1>3. f = [prompt |-> prompt, backend |-> b, active |-> TRUE, script |-> <<>>,
           answer |-> "", failure |-> 1, invalid |-> 0, searches |-> 0,
           truncated |-> 0, length |-> 0, retrieved |-> <<>>, observed |-> <<>>]
  BY <1>1, <1>2
<1>4. IsRow(f) /\ Fits(f) /\ f.truncated = 0 /\ f.length = 0
  <2>1. IsRow(f)
    BY <1>3, Zenon DEF IsRow
  <2>2. f.truncated = 0 /\ f.length = 0
    BY <1>3, Zenon
  <2>3. Fits(f)
    BY <2>2, WindowAssumption DEF Fits
  <2> QED
    BY <2>1, <2>2, <2>3
<1>5. /\ f.prompt = prompt /\ f.backend = b /\ f.script = <<>> /\ f.answer = ""
      /\ f.retrieved = <<>> /\ f.observed = <<>>
  BY <1>3, Zenon
<1>6. f.active = TRUE
  BY <1>3, Zenon
<1>7. f.failure = 1 /\ f.invalid = 0 /\ f.searches = 0
  BY <1>3
<1>8. RunEpisode(b, turns, <<>>) = NewEpisode
  <2>1. IsList(<<>>) /\ Len(<<>>) = 0
    BY DEF IsList
  <2> QED
    BY <2>1, RunGrows
<1>9. Matches(f, NewEpisode)
  <2> DEFINE e == NewEpisode
  <2>1. ~e.over /\ e.prediction = "" /\ e.queries = <<>> /\ e.retrieved = {} /\ e.observed = {}
    BY Zenon DEF NewEpisode
  <2>2. e.invalid = 0 /\ Len(<<>>) = 0
    BY DEF NewEpisode
  <2>3. IsList(<<>>) /\ ToSet(<<>>) = {}
    BY DEF IsList, ToSet
  <2> HIDE DEF e
  <2>4. f.active <=> ~e.over
    BY <1>6, <2>1
  <2>5. f.failure = IF f.active THEN 1 ELSE e.failure
    BY <1>6, <1>7
  <2>6. f.answer = e.prediction
    BY <1>5, <2>1, Zenon
  <2>7. f.invalid = e.invalid /\ f.searches = Len(e.queries)
    BY <1>7, <2>1, <2>2
  <2>8. /\ IsList(f.retrieved) /\ IsList(f.observed)
        /\ ToSet(f.retrieved) = e.retrieved
    BY <1>5, <2>1, <2>3, Zenon
  <2> QED
    BY <2>4, <2>5, <2>6, <2>7, <2>8, Zenon DEF Matches, e
<1>10. NewEpisode.attempts = 0 /\ Len(<<>>) = 0
  BY DEF NewEpisode
<1>11. Follows(f, <<>>, turns)
  <2>1. Gathered(b, <<>>, turns) = <<>>
    BY NothingGathered
  <2>2. RunEpisode(f.backend, turns, <<>>) = NewEpisode /\ Gathered(f.backend, <<>>, turns) = <<>>
    BY <1>5, <1>8, <2>1, Zenon
  <2>3. Matches(f, RunEpisode(f.backend, turns, <<>>))
    BY <1>9, <2>2, Zenon
  <2>4. RunEpisode(f.backend, turns, <<>>).attempts = Len(<<>>)
    BY <1>10, <2>2
  <2>5. f.retrieved = Gathered(f.backend, <<>>, turns)
    BY <1>5, <2>2, Zenon
  <2>6. HiddenIn(b, <<>>, turns) = {} /\ Cost(b, <<>>, turns) = 0
    BY NothingCounted
  <2>7. Hides(f, <<>>, turns)
    <3>1. NewEpisode.observed = {} /\ ToSet(f.observed) = {}
      <4>1. ToSet(<<>>) = {}
        BY DEF ToSet
      <4>2. NewEpisode.observed = {}
        BY Zenon DEF NewEpisode
      <4> QED
        BY <1>5, <4>1, <4>2, Zenon
    <3>2. RunEpisode(f.backend, turns, <<>>).observed = {} /\ HiddenIn(f.backend, <<>>, turns) = {}
      BY <1>5, <2>2, <2>6, <3>1, Zenon
    <3> QED
      BY <3>1, <3>2 DEF Hides
  <2>8. Counts(f, <<>>, turns)
    <3>1. Cost(f.backend, <<>>, turns) = 0
      BY <1>5, <2>6, Zenon
    <3>2. Windowed(f, 0)
      BY <1>4, WindowAssumption DEF Windowed
    <3> QED
      BY <3>1, <3>2 DEF Counts
  <2> QED
    BY <2>3, <2>4, <2>5, <2>7, <2>8, Zenon DEF Follows
<1> QED
  BY <1>4, <1>5, <1>6, <1>7, <1>11

(***************************************************************************)
(* execute_predictions: the rows, one behind the other, and the queue      *)
(***************************************************************************)

\* The rows that still have to act, and what the queue still holds.
IsState(st, n) ==
  st = [rows |-> st.rows, queue |-> st.queue] /\ st.rows = [j \in 1..n |-> st.rows[j]]

Pops(row) == row.active /\ Action(Said(row)).kind = "search"

\* One row of the state is replaced.
LEMMA PutIs ==
  ASSUME NEW n \in Nat, NEW st, IsState(st, n), NEW i \in 1..n, NEW r
  PROVE  [st EXCEPT !.rows[i] = r] =
           [rows |-> [j \in 1..n |-> IF j = i THEN r ELSE st.rows[j]], queue |-> st.queue]
<1> DEFINE old == st.rows
           queue == st.queue
           w == [st EXCEPT !.rows[i] = r]
           v == [st.rows EXCEPT ![i] = r]
<1>0. st = [rows |-> old, queue |-> queue] /\ old = [j \in 1..n |-> old[j]]
  BY DEF IsState
<1>1. w = [st EXCEPT !.rows = v]
  OBVIOUS
<1>2. v = [j \in 1..n |-> IF j = i THEN r ELSE old[j]]
  <2>1. v = [old EXCEPT ![i] = r]
    OBVIOUS
  <2> HIDE DEF v, old
  <2> QED
    BY <1>0, <2>1
<1> HIDE DEF v, w, old, queue
<1>3. w = [rows |-> v, queue |-> queue]
  BY <1>0, <1>1
<1> QED
  BY <1>2, <1>3 DEF w, old, queue

\* One row acts, and pops the queue if it searches.
LEMMA ActIs ==
  ASSUME NEW n \in Nat, NEW st, IsState(st, n), NEW i \in 1..n
  PROVE  ActOnRow(st, i) =
           [rows  |-> [j \in 1..n |-> IF j = i THEN ActedRow(st.rows[i], Head(st.queue), DoSearch)
                                      ELSE st.rows[j]],
            queue |-> IF Pops(st.rows[i]) THEN Tail(st.queue) ELSE st.queue]
<1> DEFINE old == st.rows
           row == old[i]
           said == Said(row)
           queue == st.queue
           f == ActOnRow(st, i)
           Put(r) == [j \in 1..n |-> IF j = i THEN r ELSE old[j]]
<1>1. st = [rows |-> old, queue |-> queue] /\ old = [j \in 1..n |-> old[j]]
  BY DEF IsState
<1>2. \A r: [st EXCEPT !.rows[i] = r] = [rows |-> Put(r), queue |-> queue]
  BY PutIs, ZenonT(30)
<1>3. \A r: [[st EXCEPT !.queue = Tail(@)] EXCEPT !.rows[i] = r]
                = [rows |-> Put(r), queue |-> Tail(queue)]
  <2> DEFINE p == [st EXCEPT !.queue = Tail(@)]
             shorter == Tail(queue)
  <2>1. p = [rows |-> old, queue |-> shorter]
    <3>1. p = [st EXCEPT !.queue = shorter]
      OBVIOUS
    <3> HIDE DEF old, queue, p, shorter
    <3> QED
      BY <1>1, <3>1
  <2> SUFFICES \A r: [p EXCEPT !.rows[i] = r] = [rows |-> Put(r), queue |-> shorter]
    OBVIOUS
  <2> HIDE DEF p, old, queue, shorter
  <2>2. p.rows = old /\ p.queue = shorter /\ IsState(p, n)
    BY <1>1, <2>1 DEF IsState
  <2>3. \A r: [p EXCEPT !.rows[i] = r] =
                 [rows |-> [j \in 1..n |-> IF j = i THEN r ELSE p.rows[j]], queue |-> p.queue]
    BY <2>2, PutIs, ZenonT(30)
  <2> QED
    BY <2>2, <2>3, SMTT(30)
<1>4. /\ ~row.active => f = st
      /\ row.active /\ Action(said).kind = "answer" =>
           f = [st EXCEPT !.rows[i] = Finished(said, Action(said))]
      /\ row.active /\ Action(said).kind = "search" /\ DoSearch =>
           f = [[st EXCEPT !.queue = Tail(@)] EXCEPT !.rows[i] = Found(said, Head(queue))]
      /\ row.active /\ Action(said).kind = "search" /\ ~DoSearch =>
           f = [[st EXCEPT !.queue = Tail(@)] EXCEPT !.rows[i] = [said EXCEPT !.active = FALSE]]
      /\ row.active /\ Action(said).kind \notin {"search", "answer"} =>
           f = [st EXCEPT !.rows[i] =
                  Longer([said EXCEPT !.invalid = @ + 1, !.active = DoSearch],
                          IF DoSearch THEN 1 ELSE 0)]
  BY DEF ActOnRow
<1> DEFINE g(r, q) == [rows |-> Put(r), queue |-> q]
<1>5. SUFFICES f = g(ActedRow(row, Head(queue), DoSearch), IF Pops(row) THEN Tail(queue) ELSE queue)
  OBVIOUS
<1> HIDE DEF f, g
<1>6. CASE ~row.active
  <2>1. ActedRow(row, Head(queue), DoSearch) = row /\ ~Pops(row) /\ f = st
    BY <1>4, <1>6 DEF ActedRow, Pops
  <2>2. Put(row) = old
    <3> HIDE DEF old
    <3> QED
      BY <1>1
  <2> QED
    BY <1>1, <2>1, <2>2 DEF g
<1>7. CASE row.active /\ Action(said).kind = "answer"
  <2>1. ActedRow(row, Head(queue), DoSearch) = Finished(said, Action(said)) /\ ~Pops(row)
    BY <1>7 DEF ActedRow, Pops
  <2>2. f = [rows |-> Put(Finished(said, Action(said))), queue |-> queue]
    BY <1>2, <1>4, <1>7
  <2> QED
    BY <2>1, <2>2 DEF g
<1>8. CASE row.active /\ Action(said).kind = "search" /\ DoSearch
  <2>1. ActedRow(row, Head(queue), DoSearch) = Found(said, Head(queue)) /\ Pops(row)
    BY <1>8 DEF ActedRow, Pops
  <2>2. f = [rows |-> Put(Found(said, Head(queue))), queue |-> Tail(queue)]
    BY <1>3, <1>4, <1>8
  <2> QED
    BY <2>1, <2>2 DEF g
<1>9. CASE row.active /\ Action(said).kind = "search" /\ ~DoSearch
  <2>1. ActedRow(row, Head(queue), DoSearch) = [said EXCEPT !.active = FALSE] /\ Pops(row)
    BY <1>9 DEF ActedRow, Pops
  <2>2. f = [rows |-> Put([said EXCEPT !.active = FALSE]), queue |-> Tail(queue)]
    BY <1>3, <1>4, <1>9
  <2> QED
    BY <2>1, <2>2 DEF g
<1>10. CASE row.active /\ Action(said).kind \notin {"search", "answer"}
  <2> DEFINE r == Longer([said EXCEPT !.invalid = @ + 1, !.active = DoSearch],
                         IF DoSearch THEN 1 ELSE 0)
  <2>1. ActedRow(row, Head(queue), DoSearch) = r /\ ~Pops(row)
    BY <1>10 DEF ActedRow, Pops
  <2>2. f = [rows |-> Put(r), queue |-> queue]
    BY <1>2, <1>4, <1>10, ZenonT(30)
  <2> QED
    BY <2>1, <2>2 DEF g
<1> QED
  BY <1>6, <1>7, <1>8, <1>9, <1>10

\* Only a search looks at the head of the queue.
LEMMA NotPopped ==
  ASSUME NEW row, ~Pops(row), NEW x, NEW y, NEW more \in BOOLEAN
  PROVE  ActedRow(row, x, more) = ActedRow(row, y, more)
<1>1. CASE ~row.active
  BY <1>1 DEF ActedRow
<1>2. CASE row.active
  <2>1. Action(Said(row)).kind # "search"
    BY <1>2 DEF Pops
  <2> QED
    BY <1>2, <2>1 DEF ActedRow
<1> QED
  BY <1>1, <1>2

\* What a row becomes in this turn.
ActedAt(j) == ActedRow(rows[j], Queue[Rank(Searching, j)], DoSearch)

\* The state after the first k of n rows.
Partial(st, n, k) ==
  /\ IsState(st, n)
  /\ st.rows = [j \in 1..n |-> IF j <= k THEN ActedAt(j) ELSE rows[j]]
  /\ IsList(st.queue) /\ Len(st.queue) = Len(Queue) - Rank(Searching, k)
  /\ \A m \in 1..Len(st.queue): st.queue[m] = Queue[m + Rank(Searching, k)]

\* A row takes from the queue what is its own, if anything.
LEMMA PartialGrows ==
  ASSUME NEW n \in Nat, DOMAIN rows = 1..n,
         \A j \in 1..n: Action(Said(rows[j])) = Action(rows[j]),
         IsList(Queue), Len(Queue) = Cardinality(Searching),
         NEW k \in 1..n, NEW st, Partial(st, n, k - 1)
  PROVE  Partial(ActOnRow(st, k), n, k)
<1> DEFINE S == Searching
           queue == st.queue
           row == rows[k]
           f == ActOnRow(st, k)
           acted == ActedRow(row, Head(queue), DoSearch)
<1>1. S \in SUBSET (1..n) /\ (k \in S <=> Pops(row))
  BY DEF Searching, Active, Pops
<1>2. /\ Rank(S, k) \in Nat /\ Rank(S, k - 1) \in Nat /\ Rank(S, k) <= Cardinality(S)
      /\ k \in S => Rank(S, k) = Rank(S, k - 1) + 1
      /\ k \notin S => Rank(S, k) = Rank(S, k - 1)
  <2> HIDE DEF S
  <2> QED
    BY <1>1, RankIs
<1>3. /\ IsState(st, n)
      /\ st.rows = [j \in 1..n |-> IF j <= k - 1 THEN ActedAt(j) ELSE rows[j]]
      /\ IsList(queue) /\ Len(queue) = Len(Queue) - Rank(S, k - 1)
      /\ \A m \in 1..Len(queue): queue[m] = Queue[m + Rank(S, k - 1)]
  BY DEF Partial
<1>4. st.rows[k] = row
  <2>1. ~(k <= k - 1)
    OBVIOUS
  <2> QED
    BY <1>3, <2>1
<1>5. f = [rows  |-> [j \in 1..n |-> IF j = k THEN acted ELSE st.rows[j]],
           queue |-> IF Pops(row) THEN Tail(queue) ELSE queue]
  <2>1. f = [rows  |-> [j \in 1..n |-> IF j = k THEN ActedRow(st.rows[k], Head(st.queue), DoSearch)
                                       ELSE st.rows[j]],
             queue |-> IF Pops(st.rows[k]) THEN Tail(st.queue) ELSE st.queue]
    BY <1>3, ActIs
  <2> QED
    BY <1>4, <2>1
<1> HIDE DEF f
<1>6. Len(Queue) \in Nat /\ Len(queue) \in Nat
  BY <1>3, ListIs
<1>7. k \in S => /\ Len(queue) # 0 /\ Head(queue) = Queue[Rank(S, k)]
                 /\ IsList(Tail(queue)) /\ Len(Tail(queue)) = Len(Queue) - Rank(S, k)
                 /\ \A m \in 1..Len(Tail(queue)): Tail(queue)[m] = Queue[m + Rank(S, k)]
  <2>1. SUFFICES ASSUME k \in S
                 PROVE  /\ Len(queue) # 0 /\ Head(queue) = Queue[Rank(S, k)]
                        /\ IsList(Tail(queue)) /\ Len(Tail(queue)) = Len(Queue) - Rank(S, k)
                        /\ \A m \in 1..Len(Tail(queue)): Tail(queue)[m] = Queue[m + Rank(S, k)]
    OBVIOUS
  <2> DEFINE c == Rank(S, k - 1)
  <2>2. c \in Nat /\ Rank(S, k) = c + 1 /\ c + 1 <= Len(Queue) /\ Len(queue) = Len(Queue) - c
        /\ \A m \in 1..Len(queue): queue[m] = Queue[m + c]
    BY <1>2, <1>3, <2>1
  <2> HIDE DEF c, queue, S
  <2>3. Len(queue) # 0
    BY <1>6, <2>2
  <2>4. Head(queue) = queue[1] /\ IsList(Tail(queue)) /\ Len(Tail(queue)) = Len(queue) - 1
        /\ \A m \in 1..(Len(queue) - 1): Tail(queue)[m] = queue[m + 1]
    BY <1>3, <2>3, TailIs
  <2>5. Head(queue) = Queue[c + 1]
    <3>1. 1 \in 1..Len(queue) /\ 1 + c = c + 1
      BY <1>6, <2>2, <2>3
    <3>2. queue[1] = Queue[1 + c]
      BY <2>2, <3>1
    <3> QED
      BY <2>4, <3>1, <3>2
  <2>6. ASSUME NEW m \in 1..Len(Tail(queue)) PROVE Tail(queue)[m] = Queue[m + (c + 1)]
    <3>1. m \in 1..(Len(queue) - 1)
      BY <2>4
    <3>2. m + 1 \in 1..Len(queue) /\ (m + 1) + c = m + (c + 1)
      <4>1. c \in Nat
        BY <2>2
      <4> HIDE DEF queue
      <4>2. PICK q \in Nat: q = Len(queue)
        BY <1>6
      <4>3. m \in 1..(q - 1)
        BY <3>1, <4>2
      <4>4. m + 1 \in 1..q /\ (m + 1) + c = m + (c + 1)
        BY <4>1, <4>3
      <4> QED
        BY <4>2, <4>4
    <3>3. queue[m + 1] = Queue[(m + 1) + c]
      BY <2>2, <3>2
    <3> QED
      BY <2>4, <3>1, <3>2, <3>3
  <2>7. Len(Tail(queue)) = Len(Queue) - (c + 1)
    BY <1>6, <2>2, <2>4
  <2> QED
    BY <2>2, <2>3, <2>4, <2>5, <2>6, <2>7
<1>8. acted = ActedAt(k)
  <2>1. CASE k \in S
    BY <1>7, <2>1 DEF ActedAt
  <2>2. CASE k \notin S
    <3>1. ~Pops(row)
      BY <1>1, <2>2
    <3>2. DoSearch \in BOOLEAN
      BY DEF DoSearch
    <3>3. ActedRow(row, Head(queue), DoSearch) = ActedRow(row, Queue[Rank(Searching, k)], DoSearch)
      BY <3>1, <3>2, NotPopped
    <3> QED
      BY <3>3 DEF ActedAt
  <2> QED
    BY <2>1, <2>2
<1>9. f.rows = [j \in 1..n |-> IF j <= k THEN ActedAt(j) ELSE rows[j]]
  <2> DEFINE new == [j \in 1..n |-> IF j = k THEN acted ELSE st.rows[j]]
  <2>1. f.rows = new
    BY <1>5
  <2>2. \A j \in 1..n: new[j] = IF j <= k THEN ActedAt(j) ELSE rows[j]
    <3> HIDE DEF acted
    <3>1. TAKE j \in 1..n
    <3>2. CASE j = k
      <4>1. j <= k
        BY <3>2
      <4>2. new[j] = ActedAt(j)
        BY <1>8, <3>2
      <4> QED
        BY <4>1, <4>2
    <3>3. CASE j # k
      <4>1. j <= k <=> j <= k - 1
        BY <3>3
      <4>2. new[j] = st.rows[j]
        BY <3>3
      <4>3. st.rows[j] = IF j <= k - 1 THEN ActedAt(j) ELSE rows[j]
        BY <1>3
      <4> QED
        BY <4>1, <4>2, <4>3
    <3> QED
      BY <3>2, <3>3
  <2>3. new = [j \in 1..n |-> IF j <= k THEN ActedAt(j) ELSE rows[j]]
    BY <2>2
  <2> QED
    BY <2>1, <2>3
<1>10. IsState(f, n)
  <2>1. f = [rows |-> f.rows, queue |-> f.queue]
    <3> HIDE DEF acted, queue, row
    <3> QED
      BY <1>5
  <2>2. f.rows = [j \in 1..n |-> f.rows[j]]
    BY <1>9
  <2> QED
    BY <2>1, <2>2 DEF IsState
<1>11. /\ IsList(f.queue) /\ Len(f.queue) = Len(Queue) - Rank(S, k)
       /\ \A m \in 1..Len(f.queue): f.queue[m] = Queue[m + Rank(S, k)]
  <2>1. CASE k \in S
    <3>1. f.queue = Tail(queue)
      BY <1>1, <1>5, <2>1
    <3> HIDE DEF S, queue
    <3> QED
      BY <1>7, <2>1, <3>1
  <2>2. CASE k \notin S
    <3>1. f.queue = queue
      BY <1>1, <1>5, <2>2
    <3>2. Rank(S, k) = Rank(S, k - 1)
      BY <1>2, <2>2
    <3> HIDE DEF S, queue
    <3> QED
      BY <1>3, <3>1, <3>2
  <2> QED
    BY <2>1, <2>2
<1> QED
  BY <1>9, <1>10, <1>11 DEF Partial, f

\* After the turn every row has acted, on its own result, and nothing is left over.
LEMMA ExecutedIs ==
  ASSUME NEW n \in Nat, DOMAIN rows = 1..n, rows = [j \in 1..n |-> rows[j]],
         \A j \in 1..n: Action(Said(rows[j])) = Action(rows[j]),
         IsList(Queue), Len(Queue) = Cardinality(Searching)
  PROVE  Executed.queue = <<>> /\ Executed.rows = [j \in 1..n |-> ActedAt(j)]
<1> DEFINE start == [rows |-> rows, queue |-> Queue]
           all == [j \in DOMAIN rows |-> j]
<1>1. DOMAIN all = 1..n /\ \A j \in 1..n: all[j] = j
  OBVIOUS
<1>2. IsTurn(Executed, all, start)
  BY DEF Executed, IsTurn
<1> HIDE DEF start, all
<1>3. PICK h: Advances(h, Executed, all, start, n)
  BY <1>1, <1>2, TurnsAre
<1>4. /\ Executed = h[n] /\ h[0] = start
      /\ \A i \in 1..n: h[i] = ActOnRow(h[i - 1], all[i])
  BY <1>3 DEF Advances
<1> DEFINE Reached == {k \in 0..n: Partial(h[k], n, k)}
<1>5. Searching \in SUBSET (1..n)
  BY DEF Searching, Active
<1>6. 0 \in Reached
  <2>1. start.rows = rows /\ start.queue = Queue
    BY DEF start
  <2>2. IsState(start, n)
    BY <2>1 DEF IsState, start
  <2>3. Rank(Searching, 0) = 0
    BY <1>5, RankIs
  <2>4. Len(Queue) \in Nat
    BY ListIs
  <2>5. Len(Queue) = Len(Queue) - Rank(Searching, 0)
        /\ \A m \in 1..Len(Queue): Queue[m] = Queue[m + Rank(Searching, 0)]
    BY <2>3, <2>4
  <2>6. rows = [j \in 1..n |-> IF j <= 0 THEN ActedAt(j) ELSE rows[j]]
    <3>1. \A j \in 1..n: ~(j <= 0)
      OBVIOUS
    <3> QED
      BY <3>1
  <2>7. Partial(start, n, 0)
    BY <2>1, <2>2, <2>5, <2>6 DEF Partial
  <2> QED
    BY <1>4, <2>7
<1>7. ASSUME NEW k \in 1..n, k - 1 \in Reached PROVE k \in Reached
  <2>1. Partial(h[k - 1], n, k - 1)
    BY <1>7
  <2>2. Partial(ActOnRow(h[k - 1], k), n, k)
    BY <2>1, PartialGrows
  <2>3. h[k] = ActOnRow(h[k - 1], k)
    BY <1>1, <1>4
  <2> QED
    BY <2>2, <2>3
<1>8. Partial(Executed, n, n)
  <2>1. 0..n \subseteq Reached
    <3> HIDE DEF Reached
    <3> QED
      BY <1>6, <1>7, Upward
  <2>2. n \in 0..n
    OBVIOUS
  <2> QED
    BY <1>4, <2>1, <2>2
<1>9. IsList(Executed.queue) /\ Len(Executed.queue) = 0
  <2>1. Rank(Searching, n) = Cardinality(Searching)
    BY <1>5, RankIs
  <2>2. Len(Queue) \in Nat
    BY ListIs
  <2> QED
    BY <1>8, <2>1, <2>2 DEF Partial
<1>10. Executed.queue = <<>>
  <2>1. Executed.queue \in Seq(Range(Executed.queue))
    BY <1>9 DEF IsList
  <2> QED
    BY <1>9, <2>1
<1>11. Executed.rows = [j \in 1..n |-> ActedAt(j)]
  <2>1. Executed.rows = [j \in 1..n |-> IF j <= n THEN ActedAt(j) ELSE rows[j]]
    BY <1>8 DEF Partial
  <2>2. \A j \in 1..n: j <= n
    OBVIOUS
  <2> QED
    BY <2>1, <2>2
<1> QED
  BY <1>10, <1>11

(***************************************************************************)
(* The inductive invariant                                                 *)
(***************************************************************************)
Stages == {"assign", "generate", "route", "join", "execute", "done", "failed"}

\* The variables have their types; one turn more than the plan's is the forced
\* final one.
Typed ==
  /\ plan \in Plans /\ stage \in Stages /\ turn \in 1..(plan.turns + 1)
  /\ upstream \in [Backends -> {"idle", "called", "answered", "failed"}]
  /\ counts \in [Backends -> Nat]

\* The rows of the batch stay in their places.
InPlace ==
  /\ rows = [i \in DOMAIN Batch(plan) |-> rows[i]]
  /\ \A i \in DOMAIN rows:
       /\ IsRow(rows[i]) /\ Fits(rows[i]) /\ rows[i].failure \in {0, 1}
       /\ rows[i].prompt = Batch(plan)[i]
       /\ rows[i].backend \in Backends \cup {""}

\* Before the backends are dealt out nothing has been said.
Fresh ==
  stage = "assign" =>
    turn = 1 /\ \A i \in DOMAIN rows: rows[i] = NewRow(Batch(plan)[i])

\* Then every row has a backend, and a script.
Assigned ==
  stage \notin {"assign", "failed"} =>
    \A i \in DOMAIN rows: rows[i].backend \in Backends /\ IsScript(rows[i].script)

\* Between turns a row stands at the end of its script.
AtTheEnd(i) ==
  /\ Follows(rows[i], rows[i].script, plan.turns)
  /\ rows[i].active => Len(rows[i].script) = turn - 1

\* In a turn an active row stands before its last text, that it has still to act on.
BeforeLast(i) ==
  /\ rows[i].active => /\ Len(rows[i].script) = turn
                       /\ Follows(rows[i], Front(rows[i].script), plan.turns)
  /\ ~rows[i].active => Follows(rows[i], rows[i].script, plan.turns)

InStep ==
  /\ stage \in {"generate", "done"} => \A i \in DOMAIN rows: AtTheEnd(i)
  /\ stage \in {"route", "join", "execute"} => \A i \in DOMAIN rows: BeforeLast(i)
  /\ stage \in {"route", "join"} => DoSearch
  /\ stage = "done" => \A i \in DOMAIN rows: ~rows[i].active

\* The answer to a request is in the order of the rows.
Delivered == stage = "execute" /\ DoSearch => reply = RestoredOrder

SearchingOn(b) == {i \in Searching: rows[i].backend = b}

\* The searches executed on a backend, by row and number.
ExecutionsIn(R, b) ==
  LET own == {i \in DOMAIN R: R[i].backend = b}
  IN  UNION {{i} \X (1..R[i].searches): i \in own}

Executions(b) == ExecutionsIn(rows, b)

Underway(b) == IF stage = "execute" /\ DoSearch THEN Cardinality(SearchingOn(b)) ELSE 0

\* An answered request is counted before its results are executed.
CountedOnce ==
  \A b \in Backends:
    /\ IsFiniteSet(Executions(b))
    /\ counts[b] = Cardinality(Executions(b)) + Underway(b)

RolloutInv == Typed /\ InPlace /\ Fresh /\ Assigned /\ InStep /\ Delivered /\ CountedOnce

(***************************************************************************)
(* The plan, the batch and the request                                     *)
(***************************************************************************)

\* What the plan of a batch says.
LEMMA PlanIs ==
  ASSUME NEW p \in Plans
  PROVE  /\ p.mode \in {"single", "blind", "oracle", "validation"}
         /\ p.turns \in Nat \ {0} /\ p.agents \in Nat \ {0} /\ p.workers \in Nat \ {0}
         /\ p.prompts \in Seq(Backends) /\ Len(p.prompts) \in Nat \ {0}
         /\ DOMAIN p.prompts = 1..Len(p.prompts)
         /\ \A text \in p.texts: Sayable(text)
<1>1. /\ p.mode \in {"single", "blind", "oracle", "validation"}
      /\ p.turns \in Nat \ {0} /\ p.agents \in Nat \ {0} /\ p.workers \in Nat \ {0}
      /\ p.prompts \in Seq(Backends) \ {<<>>}
  BY PlanAssumption, Zenon
<1>2. Len(p.prompts) \in Nat \ {0} /\ DOMAIN p.prompts = 1..Len(p.prompts)
  <2> DEFINE s == p.prompts
  <2>1. s \in Seq(Backends) /\ s # <<>>
    BY <1>1
  <2> HIDE DEF s
  <2>2. Len(s) \in Nat \ {0} /\ DOMAIN s = 1..Len(s)
    BY <2>1
  <2> QED
    BY <2>2 DEF s
<1>3. \A text \in p.texts: Sayable(text)
  <2>1. TAKE text \in p.texts
  <2>2. text \in Seq(Blocks)
    BY PlanAssumption
  <2>3. ParseAction(text).kind = "search" =>
          \A b \in Backends: ParseAction(text).value \in DOMAIN Corpus[b]
    BY PlanAssumption
  <2> QED
    BY <2>2, <2>3 DEF Sayable, Answerable
<1> QED
  BY <1>1, <1>2, <1>3

\* A number up to a product lies in one of the factor's groups.
LEMMA GroupIs ==
  ASSUME NEW n \in Nat, NEW m \in Nat \ {0}, NEW i \in 1..(n * m)
  PROVE  ((i - 1) \div m) + 1 \in 1..n
<1> DEFINE q == (i - 1) \div m
<1>1. q \in Nat /\ m * q <= i - 1
  BY SMT
<1> HIDE DEF q
<1>2. i - 1 < n * m
  OBVIOUS
<1>3. q < n
  <2>1. SUFFICES ASSUME q >= n PROVE FALSE
    BY <1>1
  <2>2. m * q >= m * n
    BY <1>1, <2>1
  <2>3. m * n = n * m /\ m * n \in Int /\ m * q \in Int
    BY <1>1
  <2> QED
    BY <1>1, <1>2, <2>2, <2>3
<1>4. q + 1 \in 1..n
  BY <1>1, <1>3
<1> QED
  BY <1>4 DEF q

\* The rest of a division is below the divisor.
LEMMA RestIs ==
  ASSUME NEW n \in Int, NEW m \in Nat \ {0}
  PROVE  n % m \in 0..(m - 1)
  OBVIOUS

\* The padding is shorter than the world size, and evens the batch out.
LEMMA PaddingIs ==
  ASSUME NEW n \in Nat, NEW m \in Nat \ {0}
  PROVE  /\ Padding(n, m) \in Nat /\ Padding(n, m) < m
         /\ (n + Padding(n, m)) % m = 0
<1> DEFINE r == n % m
           q == n \div m
<1>1. r \in 0..(m - 1) /\ q \in Nat /\ n = m * q + r
  OBVIOUS
<1>2. Padding(n, m) = (m - r) % m
  BY DEF Padding
<1> HIDE DEF r, q
<1>3. CASE r = 0
  <2>1. (m - r) % m = 0
    BY <1>3
  <2>2. n + Padding(n, m) = m * q
    BY <1>1, <1>2, <1>3, <2>1
  <2>3. (m * q) % m = 0
    BY <1>1
  <2>4. Padding(n, m) = 0
    BY <1>2, <2>1
  <2> QED
    BY <2>2, <2>3, <2>4
<1>4. CASE r # 0
  <2>1. (m - r) % m = m - r
    BY <1>1, <1>4
  <2>2. n + (m - r) = m * (q + 1)
    BY <1>1
  <2>3. (m * (q + 1)) % m = 0
    BY <1>1
  <2>4. Padding(n, m) = m - r
    BY <1>2, <2>1
  <2> QED
    BY <1>1, <1>4, <2>2, <2>3, <2>4
<1> QED
  BY <1>3, <1>4

\* A batch is a list of prompts.
LEMMA BatchIs ==
  ASSUME NEW p \in Plans
  PROVE  \E n \in Nat: DOMAIN Batch(p) = 1..n
                       /\ \A i \in 1..n: Batch(p)[i] \in 1..Len(p.prompts)
<1> DEFINE k == Len(p.prompts)
<1>1. k \in Nat \ {0} /\ p.agents \in Nat \ {0} /\ p.workers \in Nat \ {0}
  BY PlanIs
<1> HIDE DEF k
<1>2. CASE p.mode = "validation"
  <2> DEFINE n == k + Padding(k, p.workers)
  <2>1. Padding(k, p.workers) \in Nat
    BY <1>1, PaddingIs
  <2>2. n \in Nat
    BY <1>1, <2>1
  <2>3. Batch(p) = [i \in 1..n |-> ((i - 1) % k) + 1]
    BY <1>2 DEF Batch, PaddedBatch, k
  <2> HIDE DEF n
  <2>4. \A i \in 1..n: ((i - 1) % k) + 1 \in 1..k
    <3>1. TAKE i \in 1..n
    <3>2. (i - 1) % k \in 0..(k - 1)
      BY <1>1, RestIs, SMTT(30)
    <3> DEFINE r == (i - 1) % k
    <3> HIDE DEF r
    <3>3. r \in 0..(k - 1)
      BY <3>2 DEF r
    <3>4. r + 1 \in 1..k
      BY <1>1, <3>3
    <3> QED
      BY <3>4 DEF r
  <2> QED
    BY <2>2, <2>3, <2>4 DEF k
<1>3. CASE p.mode # "validation"
  <2> DEFINE n == k * p.agents
  <2>1. n \in Nat
    BY <1>1
  <2>2. Batch(p) = [i \in 1..n |-> ((i - 1) \div p.agents) + 1]
    BY <1>3 DEF Batch, RepeatedBatch, k
  <2>3. \A i \in 1..n: ((i - 1) \div p.agents) + 1 \in 1..k
    BY <1>1, GroupIs
  <2> HIDE DEF n
  <2> QED
    BY <2>1, <2>2, <2>3 DEF k
<1> QED
  BY <1>2, <1>3

\* Every prompt is given one of the two backends.
LEMMA RoutesAre ==
  ASSUME NEW p \in Plans, NEW route \in Routes(p), NEW g \in 1..Len(p.prompts)
  PROVE  route[g] \in Backends
<1> DEFINE n == Len(p.prompts)
<1>1. n \in Nat \ {0} /\ p.prompts \in Seq(Backends)
  BY PlanIs
<1> HIDE DEF n
<1>2. \A i \in 1..n: p.prompts[i] \in Backends
  BY <1>1 DEF n
<1>3. g \in 1..n /\ 1 \in 1..n
  BY <1>1 DEF n
<1>4. CASE p.mode = "blind"
  <2>1. route \in EvenSplits(n)
    BY <1>4 DEF Routes, n
  <2> QED
    BY <1>3, <2>1 DEF EvenSplits
<1>5. CASE p.mode = "single"
  <2>1. route = [i \in 1..n |-> p.prompts[1]]
    BY <1>5 DEF Routes, n
  <2> QED
    BY <1>2, <1>3, <2>1
<1>6. CASE p.mode \notin {"blind", "single"}
  <2>1. route = p.prompts
    BY <1>6 DEF Routes
  <2> QED
    BY <1>2, <1>3, <2>1
<1> QED
  BY <1>4, <1>5, <1>6

\* The router gives every searching row, at its place in the reply, the result of its
\* own query on its own backend.
LEMMA RestoredIs ==
  ASSUME NEW n \in Nat, DOMAIN rows = 1..n
  PROVE  /\ IsList(RestoredOrder) /\ Len(RestoredOrder) = Cardinality(Searching)
         /\ Cardinality(Searching) \in Nat
         /\ DOMAIN Searchers = 1..Cardinality(Searching)
         /\ \A i \in Searching:
              /\ Rank(Searching, i) \in 1..Cardinality(Searching)
              /\ RestoredOrder[Rank(Searching, i)] = Search(rows[i].backend, Query(i))
<1> DEFINE S == Searching
           m == Cardinality(S)
<1>1. S \in SUBSET (1..n)
  BY DEF Searching, Active
<1>2. /\ m \in Nat /\ DOMAIN Searchers = 1..m
      /\ \A i \in S: Rank(S, i) \in 1..m /\ Searchers[Rank(S, i)] = i
  <2> HIDE DEF S
  <2>1. Searchers = InOrder(S)
    BY DEF Searchers, S
  <2> QED
    BY <1>1, <2>1, InOrderIs
<1>3. RestoredOrder =
        [k \in 1..m |->
           LET b  == rows[Searchers[k]].backend
               at == CHOOSE j \in DOMAIN Asked(b): Asked(b)[j] = Searchers[k]
           IN  Results(b)[at]]
  BY <1>2 DEF RestoredOrder
<1>4. DOMAIN RestoredOrder = 1..m /\ RestoredOrder = [k \in 1..m |-> RestoredOrder[k]]
  BY <1>3
<1>5. IsList(RestoredOrder) /\ Len(RestoredOrder) = m
  BY <1>2, <1>4, SegmentIsList
<1>6. ASSUME NEW i \in S PROVE RestoredOrder[Rank(S, i)] = Search(rows[i].backend, Query(i))
  <2> DEFINE k == Rank(S, i)
             b == rows[i].backend
             T == {j \in S: rows[j].backend = b}
             at == CHOOSE j \in DOMAIN Asked(b): Asked(b)[j] = i
  <2>1. k \in 1..m /\ Searchers[k] = i
    BY <1>2
  <2> HIDE DEF k
  <2>2. RestoredOrder[k] = Results(b)[at]
    BY <1>3, <2>1
  <2>3. T \in SUBSET (1..n) /\ i \in T /\ Asked(b) = InOrder(T)
    BY <1>1 DEF Asked
  <2> HIDE DEF T
  <2>4. Rank(T, i) \in DOMAIN Asked(b) /\ Asked(b)[Rank(T, i)] = i
    BY <2>3, InOrderIs
  <2>5. at \in DOMAIN Asked(b) /\ Asked(b)[at] = i
    BY <2>4
  <2> HIDE DEF at
  <2>6. Results(b)[at] = Search(b, Query(i))
    BY <2>5 DEF Results
  <2> QED
    BY <2>2, <2>6 DEF k
<1> QED
  BY <1>2, <1>5, <1>6

(***************************************************************************)
(* What is counted                                                         *)
(***************************************************************************)

\* The executions, one by one.
LEMMA ExecutionsAre ==
  ASSUME NEW R, NEW b
  PROVE  \A x: x \in ExecutionsIn(R, b) <=>
                 \E i \in DOMAIN R: /\ R[i].backend = b
                                    /\ \E k \in 1..R[i].searches: x = <<i, k>>
<1> DEFINE own == {i \in DOMAIN R: R[i].backend = b}
<1>1. ExecutionsIn(R, b) = UNION {{i} \X (1..R[i].searches): i \in own}
  BY DEF ExecutionsIn
<1>2. \A x: x \in ExecutionsIn(R, b) <=> \E i \in own: x \in {i} \X (1..R[i].searches)
  BY <1>1
<1>3. \A i: \A x: x \in {i} \X (1..R[i].searches) <=> \E k \in 1..R[i].searches: x = <<i, k>>
  OBVIOUS
<1> QED
  BY <1>2, <1>3

\* Rows with the same backends and as many searches have the same executions.
LEMMA SameExecutions ==
  ASSUME NEW R, NEW Q, DOMAIN R = DOMAIN Q,
         \A i \in DOMAIN R: R[i].backend = Q[i].backend /\ R[i].searches = Q[i].searches, NEW b
  PROVE  ExecutionsIn(R, b) = ExecutionsIn(Q, b)
<1>1. \A x: x \in ExecutionsIn(R, b) <=> x \in ExecutionsIn(Q, b)
  BY ExecutionsAre
<1> QED
  BY <1>1

\* Rows that have not searched have none.
LEMMA NoExecutions ==
  ASSUME NEW R, \A i \in DOMAIN R: R[i].searches = 0, NEW b
  PROVE  /\ ExecutionsIn(R, b) = {} /\ IsFiniteSet(ExecutionsIn(R, b))
         /\ Cardinality(ExecutionsIn(R, b)) = 0
<1>1. \A x: x \notin ExecutionsIn(R, b)
  <2>1. \A i \in DOMAIN R: 1..R[i].searches = {}
    OBVIOUS
  <2> QED
    BY <2>1, ExecutionsAre
<1> QED
  BY <1>1, FS_EmptySet

\* From R to Q, the rows S of a backend execute one more search each.
SearchesMore(R, Q, b, S) ==
  /\ DOMAIN R = DOMAIN Q /\ IsFiniteSet(S) /\ S \subseteq DOMAIN R
  /\ \A i \in DOMAIN R: R[i].searches \in Nat /\ Q[i].backend = R[i].backend
  /\ \A i \in DOMAIN R: i \in S => R[i].backend = b /\ Q[i].searches = R[i].searches + 1
  /\ \A i \in DOMAIN R: R[i].backend = b /\ i \notin S => Q[i].searches = R[i].searches

\* Each row of a set that executes one more search adds one.
LEMMA ExecutionsGrow ==
  ASSUME NEW R, NEW Q, NEW b, NEW S, SearchesMore(R, Q, b, S),
         IsFiniteSet(ExecutionsIn(R, b))
  PROVE  /\ IsFiniteSet(ExecutionsIn(Q, b))
         /\ Cardinality(ExecutionsIn(Q, b)) = Cardinality(ExecutionsIn(R, b)) + Cardinality(S)
<1> USE DEF SearchesMore
<1> DEFINE old == ExecutionsIn(R, b)
           all == ExecutionsIn(Q, b)
           more == {<<i, R[i].searches + 1>>: i \in S}
           f == [i \in S |-> <<i, R[i].searches + 1>>]
<1>1. IsFiniteSet(more) /\ Cardinality(more) = Cardinality(S)
  <2>1. f \in [S -> more]
    OBVIOUS
  <2>2. \A i, j \in S: f[i] = f[j] => i = j
    OBVIOUS
  <2>3. \A x \in more: \E i \in S: f[i] = x
    OBVIOUS
  <2> HIDE DEF f, more
  <2>4. f \in Bijection(S, more)
    BY <2>1, <2>2, <2>3 DEF Bijection, Injection, Surjection, IsInjective
  <2>5. ExistsBijection(S, more)
    BY <2>4 DEF ExistsBijection
  <2> QED
    BY <2>5, FS_Bijection
<1>2. \A x: x \in more <=> \E i \in S: x = <<i, R[i].searches + 1>>
  OBVIOUS
<1> HIDE DEF more
<1>3. \A x: x \in old <=> \E i \in DOMAIN R:
        R[i].backend = b /\ \E k \in 1..R[i].searches: x = <<i, k>>
  BY ExecutionsAre
<1>4. \A x: x \in all <=> \E i \in DOMAIN Q:
        Q[i].backend = b /\ \E k \in 1..Q[i].searches: x = <<i, k>>
  BY ExecutionsAre
<1> HIDE DEF old, all
<1>5. all = old \cup more
  <2>1. ASSUME NEW x, x \in all PROVE x \in old \cup more
    <3>1. PICK i \in DOMAIN R: Q[i].backend = b /\ \E k \in 1..Q[i].searches: x = <<i, k>>
      BY <1>4, <2>1
    <3>2. PICK k \in 1..Q[i].searches: x = <<i, k>>
      BY <3>1
    <3>3. CASE i \in S
      <4>1. Q[i].searches = R[i].searches + 1 /\ R[i].searches \in Nat /\ R[i].backend = b
        BY <3>3
      <4>2. k \in 1..R[i].searches \/ k = R[i].searches + 1
        BY <4>1
      <4> QED
        BY <1>2, <1>3, <3>2, <3>3, <4>1, <4>2
    <3>4. CASE i \notin S
      <4>1. Q[i].searches = R[i].searches /\ R[i].backend = b
        BY <3>1, <3>4
      <4> QED
        BY <1>3, <3>2, <4>1
    <3> QED
      BY <3>3, <3>4
  <2>2. ASSUME NEW x, x \in old PROVE x \in all
    <3>1. PICK i \in DOMAIN R: R[i].backend = b /\ \E k \in 1..R[i].searches: x = <<i, k>>
      BY <1>3, <2>2
    <3>2. PICK k \in 1..R[i].searches: x = <<i, k>>
      BY <3>1
    <3>3. R[i].searches \in Nat
          /\ (Q[i].searches = R[i].searches \/ Q[i].searches = R[i].searches + 1)
      BY <3>1
    <3>4. k \in 1..Q[i].searches
      BY <3>3
    <3> QED
      BY <1>4, <3>1, <3>2, <3>4
  <2>3. ASSUME NEW x, x \in more PROVE x \in all
    <3>1. PICK i \in S: x = <<i, R[i].searches + 1>>
      BY <1>2, <2>3
    <3>2. i \in DOMAIN R /\ R[i].searches \in Nat /\ Q[i].searches = R[i].searches + 1
          /\ Q[i].backend = b
      BY <3>1
    <3>3. R[i].searches + 1 \in 1..Q[i].searches
      BY <3>2
    <3> QED
      BY <1>4, <3>1, <3>2, <3>3
  <2> QED
    BY <2>1, <2>2, <2>3
<1>6. old \cap more = {}
  <2>1. ASSUME NEW x \in old, x \in more PROVE FALSE
    <3>1. PICK i \in DOMAIN R: \E k \in 1..R[i].searches: x = <<i, k>>
      BY <1>3, <2>1
    <3>2. PICK k \in 1..R[i].searches: x = <<i, k>>
      BY <3>1
    <3>3. PICK j \in S: x = <<j, R[j].searches + 1>>
      BY <1>2, <2>1
    <3>4. i = j /\ k = R[i].searches + 1
      BY <3>2, <3>3
    <3>5. R[i].searches \in Nat
      OBVIOUS
    <3> QED
      BY <3>4, <3>5
  <2> QED
    BY <2>1
<1>7. IsFiniteSet(old) /\ Cardinality({}) = 0
  BY FS_EmptySet DEF old
<1>8. /\ IsFiniteSet(all)
      /\ Cardinality(all) = Cardinality(old) + Cardinality(more) - Cardinality({})
  <2>1. /\ IsFiniteSet(old \cup more)
        /\ Cardinality(old \cup more)
             = Cardinality(old) + Cardinality(more) - Cardinality(old \cap more)
    BY <1>1, <1>7, FS_Union
  <2> QED
    BY <1>5, <1>6, <2>1
<1>9. Cardinality(old) \in Nat /\ Cardinality(S) \in Nat
  BY <1>7, FS_CardinalityType
<1> QED
  BY <1>1, <1>7, <1>8, <1>9 DEF old, all

(***************************************************************************)
(* The invariant holds                                                     *)
(***************************************************************************)

\* The invariant's facts about the plan and the batch.
LEMMA HereIs ==
  ASSUME Typed, InPlace
  PROVE  /\ plan \in Plans /\ plan.turns \in Nat \ {0} /\ turn \in Nat \ {0}
         /\ \E n \in Nat: /\ DOMAIN Batch(plan) = 1..n /\ DOMAIN rows = 1..n
                          /\ \A i \in 1..n: Batch(plan)[i] \in 1..Len(plan.prompts)
<1>1. plan \in Plans /\ plan.turns \in Nat \ {0} /\ turn \in Nat \ {0}
  BY PlanIs DEF Typed
<1>2. PICK n \in Nat: DOMAIN Batch(plan) = 1..n
                      /\ \A i \in 1..n: Batch(plan)[i] \in 1..Len(plan.prompts)
  BY <1>1, BatchIs
<1>3. DOMAIN rows = 1..n
  BY <1>2 DEF InPlace
<1> QED
  BY <1>1, <1>2, <1>3

\* Before the backends are dealt out.
LEMMA BatchBegins == RolloutInit => RolloutInv
<1> SUFFICES ASSUME RolloutInit PROVE RolloutInv
  OBVIOUS
<1>1. /\ plan \in Plans /\ stage = "assign" /\ turn = 1
      /\ rows = [i \in DOMAIN Batch(plan) |-> NewRow(Batch(plan)[i])]
      /\ upstream = [b \in Backends |-> "idle"] /\ counts = [b \in Backends |-> 0]
  BY DEF RolloutInit
<1>2. plan.turns \in Nat \ {0}
  BY <1>1, PlanIs
<1>3. Typed
  BY <1>1, <1>2 DEF Typed, Stages
<1>4. \A i \in DOMAIN rows: rows[i] = NewRow(Batch(plan)[i])
  BY <1>1
<1>5. rows = [i \in DOMAIN Batch(plan) |-> rows[i]]
  BY <1>1
<1>6. ASSUME NEW prompt
      PROVE  /\ IsRow(NewRow(prompt)) /\ Fits(NewRow(prompt)) /\ NewRow(prompt).failure = 1
             /\ NewRow(prompt).prompt = prompt /\ NewRow(prompt).backend = ""
             /\ NewRow(prompt).searches = 0
  BY NewRowIs, Zenon
<1>7. InPlace
  <2>1. ASSUME NEW i \in DOMAIN rows
        PROVE  /\ IsRow(rows[i]) /\ Fits(rows[i]) /\ rows[i].failure \in {0, 1}
               /\ rows[i].prompt = Batch(plan)[i] /\ rows[i].backend \in Backends \cup {""}
    <3>1. rows[i] = NewRow(Batch(plan)[i])
      BY <1>4
    <3>2. rows[i].failure \in {0, 1}
      BY <1>6, <3>1
    <3>3. rows[i].backend \in Backends \cup {""}
      BY <1>6, <3>1, Zenon
    <3> QED
      BY <1>6, <3>1, <3>2, <3>3, Zenon
  <2> QED
    BY <1>5, <2>1, Zenon DEF InPlace
<1>8. Fresh /\ Assigned /\ InStep /\ Delivered
  BY <1>1, <1>4 DEF Fresh, Assigned, InStep, Delivered
<1>9. CountedOnce
  <2>1. \A i \in DOMAIN rows: rows[i].searches = 0
    <3>1. TAKE i \in DOMAIN rows
    <3>2. rows[i] = NewRow(Batch(plan)[i])
      BY <1>4
    <3>3. NewRow(Batch(plan)[i]).searches = 0
      BY <1>6
    <3> QED
      BY <3>2, <3>3, Zenon
  <2>2. ASSUME NEW b \in Backends
        PROVE  IsFiniteSet(Executions(b)) /\ counts[b] = Cardinality(Executions(b)) + Underway(b)
    <3>1. IsFiniteSet(Executions(b)) /\ Cardinality(Executions(b)) = 0
      BY <2>1, NoExecutions DEF Executions
    <3>2. Underway(b) = 0 /\ counts[b] = 0
      BY <1>1 DEF Underway
    <3> QED
      BY <3>1, <3>2
  <2> QED
    BY <2>2 DEF CountedOnce
<1> QED
  BY <1>3, <1>7, <1>8, <1>9 DEF RolloutInv

\* Assign: every row gets the backend of its prompt, and starts.
LEMMA AssignKeeps == RolloutInv /\ Assign => RolloutInv'
<1> SUFFICES ASSUME RolloutInv, Assign PROVE RolloutInv'
  OBVIOUS
<1>1. Typed /\ InPlace /\ Fresh /\ CountedOnce
  BY DEF RolloutInv
<1>2. /\ stage = "assign" /\ stage' = "generate"
      /\ plan' = plan /\ turn' = turn /\ upstream' = upstream /\ reply' = reply /\ counts' = counts
  BY DEF Assign
<1>3. PICK route \in Routes(plan):
        rows' = [i \in DOMAIN rows |-> [rows[i] EXCEPT !.backend = route[rows[i].prompt]]]
  BY DEF Assign
<1>4. PICK n \in Nat: /\ DOMAIN Batch(plan) = 1..n /\ DOMAIN rows = 1..n
                      /\ \A i \in 1..n: Batch(plan)[i] \in 1..Len(plan.prompts)
  BY <1>1, HereIs
<1>5. plan \in Plans /\ plan.turns \in Nat \ {0} /\ turn = 1
      /\ \A i \in 1..n: rows[i] = NewRow(Batch(plan)[i]) /\ rows[i].prompt = Batch(plan)[i]
  BY <1>1, <1>2, <1>4, HereIs DEF Fresh, InPlace
<1>6. DOMAIN rows' = 1..n /\ rows' = [i \in DOMAIN Batch(plan) |-> rows'[i]]
  BY <1>3, <1>4
<1>7. ASSUME NEW i \in 1..n
      PROVE  /\ IsRow(rows'[i]) /\ Fits(rows'[i]) /\ rows'[i].prompt = Batch(plan)[i]
             /\ rows'[i].backend \in Backends /\ rows'[i].active = TRUE
             /\ rows'[i].script = <<>> /\ rows'[i].searches = 0 /\ rows'[i].failure = 1
             /\ Follows(rows'[i], <<>>, plan.turns)
  <2> DEFINE b == route[Batch(plan)[i]]
             f == [NewRow(Batch(plan)[i]) EXCEPT !.backend = b]
  <2>1. rows'[i] = f
    BY <1>3, <1>4, <1>5
  <2>2. b \in Backends
    BY <1>4, <1>5, RoutesAre
  <2> HIDE DEF b
  <2>3. /\ IsRow(f) /\ Fits(f) /\ f.prompt = Batch(plan)[i] /\ f.backend = b
        /\ f.active = TRUE /\ f.script = <<>> /\ f.searches = 0 /\ f.failure = 1
        /\ Follows(f, <<>>, plan.turns)
    <3> DEFINE prompt == Batch(plan)[i]
               turns == plan.turns
    <3>1. turns \in Nat
      BY <1>5
    <3> HIDE DEF prompt, turns
    <3>2. IsAssigned(f, prompt, b)
      BY DEF IsAssigned, prompt
    <3> HIDE DEF f
    <3>3. /\ IsRow(f) /\ Fits(f) /\ f.prompt = prompt /\ f.backend = b
          /\ f.active = TRUE /\ f.script = <<>> /\ f.searches = 0 /\ f.failure = 1
          /\ Follows(f, <<>>, turns)
      BY <3>1, <3>2, AssignedIs, Zenon
    <3> QED
      BY <3>3, Zenon DEF prompt, turns
  <2> HIDE DEF f
  <2> QED
    BY <2>1, <2>2, <2>3
<1>8. Typed'
  BY <1>1, <1>2 DEF Typed, Stages
<1>9. InPlace'
  <2>1. \A i \in DOMAIN rows': rows'[i].failure \in {0, 1}
    BY <1>6, <1>7
  <2>2. \A i \in DOMAIN rows': rows'[i].backend \in Backends \cup {""}
    BY <1>6, <1>7, Zenon
  <2> QED
    BY <1>2, <1>6, <1>7, <2>1, <2>2, Zenon DEF InPlace
<1>10. IsScript(<<>>) /\ Len(<<>>) = 0
  BY DEF IsScript, IsList
<1>11. Fresh' /\ Assigned' /\ Delivered'
  <2>1. Fresh' /\ Delivered'
    BY <1>2 DEF Fresh, Delivered
  <2>2. Assigned'
    BY <1>6, <1>7, <1>10, Zenon DEF Assigned
  <2> QED
    BY <2>1, <2>2
<1>12. InStep'
  <2>1. ASSUME NEW i \in DOMAIN rows' PROVE AtTheEnd(i)'
    <3>1. i \in 1..n
      BY <1>6
    <3>2. rows'[i].script = <<>> /\ Follows(rows'[i], rows'[i].script, plan'.turns)
      BY <1>2, <1>7, <3>1
    <3>3. Len(rows'[i].script) = turn' - 1
      BY <1>2, <1>5, <1>10, <3>2
    <3> QED
      BY <3>2, <3>3 DEF AtTheEnd
  <2> QED
    BY <1>2, <2>1 DEF InStep
<1>13. CountedOnce'
  <2>1. ASSUME NEW b \in Backends
        PROVE  /\ IsFiniteSet(Executions(b)')
               /\ counts'[b] = Cardinality(Executions(b)') + Underway(b)'
    <3>1. \A i \in DOMAIN rows: rows[i].searches = 0
      <4>1. \A i \in 1..n: rows[i].searches = 0
        <5>1. TAKE i \in 1..n
        <5>2. rows[i] = NewRow(Batch(plan)[i])
          BY <1>5
        <5>3. NewRow(Batch(plan)[i]).searches = 0
          BY DEF NewRow
        <5> QED
          BY <5>2, <5>3, Zenon
      <4> QED
        BY <1>4, <4>1
    <3>2. \A i \in DOMAIN rows': rows'[i].searches = 0
      BY <1>6, <1>7
    <3>3. Cardinality(Executions(b)) = 0
      BY <3>1, NoExecutions DEF Executions
    <3>4. IsFiniteSet(ExecutionsIn(rows', b)) /\ Cardinality(ExecutionsIn(rows', b)) = 0
      BY <3>2, NoExecutions
    <3>5. Executions(b)' = ExecutionsIn(rows', b)
      BY DEF Executions
    <3>6. Underway(b) = 0 /\ Underway(b)' = 0
      BY <1>2 DEF Underway
    <3>7. counts[b] = Cardinality(Executions(b)) + Underway(b)
      BY <1>1 DEF CountedOnce
    <3> QED
      BY <1>2, <3>3, <3>4, <3>5, <3>6, <3>7
  <2> QED
    BY <2>1 DEF CountedOnce
<1> QED
  BY <1>8, <1>9, <1>11, <1>12, <1>13 DEF RolloutInv

\* Nothing but the rows is in the executions, and a stage that is not the execution of
\* searches has none underway.
LEMMA CountsStay ==
  ASSUME CountedOnce, counts' = counts, rows' = rows,
         ~(stage = "execute" /\ DoSearch), ~(stage' = "execute" /\ DoSearch')
  PROVE  CountedOnce'
<1>1. ASSUME NEW b \in Backends
      PROVE  /\ IsFiniteSet(Executions(b)')
               /\ counts'[b] = Cardinality(Executions(b)') + Underway(b)'
  <2>1. Executions(b)' = Executions(b)
    BY DEF Executions
  <2>2. Underway(b) = 0 /\ Underway(b)' = 0
    BY DEF Underway
  <2>3. IsFiniteSet(Executions(b)) /\ counts[b] = Cardinality(Executions(b)) + Underway(b)
    BY DEF CountedOnce
  <2> QED
    BY <2>1, <2>2, <2>3
<1> QED
  BY <1>1 DEF CountedOnce

\* RefuseBatch: an odd number of groups cannot be split, the batch fails.
LEMMA RefuseBatchKeeps == RolloutInv /\ RefuseBatch => RolloutInv'
<1> SUFFICES ASSUME RolloutInv, RefuseBatch PROVE RolloutInv'
  OBVIOUS
<1>1. /\ stage = "assign" /\ stage' = "failed" /\ plan' = plan /\ turn' = turn /\ rows' = rows
      /\ upstream' = upstream /\ reply' = reply /\ counts' = counts
  BY DEF RefuseBatch
<1>2. Typed'
  BY <1>1 DEF RolloutInv, Typed, Stages
<1>3. InPlace'
  BY <1>1, Zenon DEF RolloutInv, InPlace
<1>4. Fresh' /\ Assigned' /\ InStep' /\ Delivered'
  BY <1>1 DEF Fresh, Assigned, InStep, Delivered
<1>5. CountedOnce'
  BY <1>1, CountsStay DEF RolloutInv
<1> QED
  BY <1>2, <1>3, <1>4, <1>5 DEF RolloutInv

\* Generate: every active row says one more text.
LEMMA GenerateKeeps == RolloutInv /\ Generate => RolloutInv'
<1> SUFFICES ASSUME RolloutInv, Generate PROVE RolloutInv'
  OBVIOUS
<1>1. Typed /\ InPlace /\ Assigned /\ InStep /\ CountedOnce
  BY DEF RolloutInv
<1>2. /\ stage = "generate" /\ stage' = IF DoSearch THEN "route" ELSE "execute"
      /\ plan' = plan /\ turn' = turn /\ upstream' = upstream /\ counts' = counts
  BY DEF Generate
<1>3. PICK texts \in [Active -> plan.texts]:
        rows' = [i \in DOMAIN rows |-> IF i \in Active
                                       THEN [rows[i] EXCEPT !.script = Append(@, texts[i])]
                                       ELSE rows[i]]
  BY DEF Generate
<1>4. PICK n \in Nat: DOMAIN Batch(plan) = 1..n /\ DOMAIN rows = 1..n
  BY <1>1, HereIs
<1>5. plan \in Plans /\ turn \in Nat \ {0} /\ \A text \in plan.texts: Sayable(text)
  BY <1>1, HereIs, PlanIs
<1>6. DOMAIN rows' = 1..n /\ rows' = [i \in DOMAIN Batch(plan) |-> rows'[i]]
  BY <1>3, <1>4
<1>7. ASSUME NEW i \in 1..n
      PROVE  /\ IsRow(rows[i]) /\ Fits(rows[i]) /\ rows[i].failure \in {0, 1}
             /\ rows[i].prompt = Batch(plan)[i] /\ rows[i].backend \in Backends
             /\ IsScript(rows[i].script) /\ AtTheEnd(i)
  BY <1>1, <1>2, <1>4 DEF InPlace, Assigned, InStep
<1>8. ASSUME NEW i \in 1..n
      PROVE  /\ IsRow(rows'[i]) /\ Fits(rows'[i]) /\ rows'[i].failure = rows[i].failure
             /\ rows'[i].prompt = rows[i].prompt /\ rows'[i].backend = rows[i].backend
             /\ rows'[i].searches = rows[i].searches
             /\ IsScript(rows'[i].script) /\ BeforeLast(i)'
  <2> DEFINE r == rows[i]
             f == rows'[i]
  <2>1. CASE ~r.active
    <3>1. f = r
      BY <1>3, <1>4, <2>1 DEF Active
    <3>2. Follows(f, f.script, plan'.turns) /\ ~f.active
      BY <1>2, <1>7, <2>1, <3>1 DEF AtTheEnd
    <3>3. BeforeLast(i)'
      BY <3>2 DEF BeforeLast
    <3> QED
      BY <1>7, <3>1, <3>3
  <2>2. CASE r.active
    <3> DEFINE x == texts[i]
               g == [r EXCEPT !.script = Append(@, x)]
    <3>1. Sayable(x) /\ f = g
      <4>1. i \in Active
        BY <1>4, <2>2 DEF Active
      <4>2. x \in plan.texts
        BY <4>1
      <4> QED
        BY <1>3, <1>4, <1>5, <4>1, <4>2
    <3> HIDE DEF x
    <3>2. g = [r EXCEPT !.script = Append(r.script, x)]
      OBVIOUS
    <3>3. IsRow(r) /\ Fits(r) /\ IsScript(r.script) /\ AtTheEnd(i)
      BY <1>7
    <3> HIDE DEF g, r
    <3>4. g = [prompt |-> r.prompt, backend |-> r.backend, active |-> r.active,
               script |-> Append(r.script, x), answer |-> r.answer, failure |-> r.failure,
               invalid |-> r.invalid, searches |-> r.searches, truncated |-> r.truncated,
               length |-> r.length, retrieved |-> r.retrieved, observed |-> r.observed]
      BY <3>2, <3>3 DEF IsRow
    <3>5. /\ IsRow(g) /\ Fits(g) /\ g.script = Append(r.script, x)
          /\ g.prompt = r.prompt /\ g.backend = r.backend /\ g.answer = r.answer
          /\ g.failure = r.failure /\ g.invalid = r.invalid /\ g.searches = r.searches
          /\ g.retrieved = r.retrieved /\ g.observed = r.observed
          /\ g.length = r.length /\ g.truncated = r.truncated
      BY <3>3, <3>4 DEF IsRow, Fits
    <3>6. g.active = r.active
      BY <3>4, Zenon
    <3>7. /\ IsScript(g.script) /\ Front(g.script) = r.script /\ Len(g.script) = Len(r.script) + 1
      <4>1. IsList(r.script) /\ \A k \in DOMAIN r.script: Sayable(r.script[k])
        BY <3>3 DEF IsScript
      <4> DEFINE s == r.script
                 t == Append(s, x)
      <4> HIDE DEF s
      <4>2. /\ IsList(t) /\ Len(s) \in Nat /\ Len(t) = Len(s) + 1 /\ DOMAIN t = 1..(Len(s) + 1)
            /\ \A k \in 1..Len(s): t[k] = s[k]
            /\ t[Len(s) + 1] = x
        BY <4>1, AppendIs DEF s
      <4>3. Front(t) = s
        BY <4>1, FrontIs DEF s
      <4>4. DOMAIN s = 1..Len(s)
        BY <4>1, ListIs DEF s
      <4> HIDE DEF t
      <4>5. \A k \in DOMAIN t: Sayable(t[k])
        <5>1. TAKE k \in DOMAIN t
        <5>2. CASE k \in 1..Len(s)
          BY <4>1, <4>2, <4>4, <5>2 DEF s
        <5>3. CASE k = Len(s) + 1
          BY <3>1, <4>2, <5>3
        <5> QED
          BY <4>2, <5>2, <5>3
      <4>6. IsScript(t)
        BY <4>2, <4>5 DEF IsScript
      <4> QED
        BY <3>5, <4>2, <4>3, <4>6 DEF s, t
    <3>8. Follows(r, r.script, plan.turns) /\ Len(r.script) = turn - 1 /\ r.active
      BY <2>2, <3>3 DEF AtTheEnd, r
    <3>9. Follows(g, r.script, plan.turns)
      BY <3>5, <3>6, <3>8, StandsIs
    <3>10. BeforeLast(i)'
      <4>1. f.active
        BY <3>1, <3>6, <3>8
      <4>2. Len(f.script) = turn' /\ Follows(f, Front(f.script), plan'.turns)
        BY <1>2, <1>5, <3>1, <3>7, <3>8, <3>9
      <4> QED
        BY <4>1, <4>2 DEF BeforeLast
    <3> QED
      BY <3>1, <3>5, <3>7, <3>10 DEF r
  <2> QED
    BY <2>1, <2>2
<1>9. Typed'
  BY <1>1, <1>2 DEF Typed, Stages
<1>10. InPlace'
  <2>1. \A i \in 1..n: rows[i].backend \in Backends \cup {""}
    BY <1>7, Zenon
  <2> QED
    BY <1>2, <1>6, <1>7, <1>8, <2>1, Zenon DEF InPlace
<1>11. Fresh' /\ Assigned' /\ Delivered'
  <2>1. Fresh' /\ Delivered'
    BY <1>2 DEF Fresh, Delivered, DoSearch
  <2>2. Assigned'
    BY <1>6, <1>7, <1>8, Zenon DEF Assigned
  <2> QED
    BY <2>1, <2>2
<1>12. InStep'
  <2>1. \A i \in DOMAIN rows': BeforeLast(i)'
    BY <1>6, <1>8
  <2>2. stage' \in {"route", "execute"} /\ (stage' = "route" => DoSearch')
    BY <1>2 DEF DoSearch
  <2> QED
    BY <2>1, <2>2 DEF InStep
<1>13. CountedOnce'
  <2>1. ASSUME NEW b \in Backends
        PROVE  /\ IsFiniteSet(Executions(b)')
               /\ counts'[b] = Cardinality(Executions(b)') + Underway(b)'
    <3>1. ExecutionsIn(rows', b) = ExecutionsIn(rows, b)
      BY <1>4, <1>6, <1>8, SameExecutions, SMTT(30)
    <3>2. Executions(b)' = Executions(b)
      BY <3>1 DEF Executions
    <3>3. Underway(b) = 0 /\ Underway(b)' = 0
      BY <1>2 DEF Underway, DoSearch
    <3>4. IsFiniteSet(Executions(b)) /\ counts[b] = Cardinality(Executions(b)) + Underway(b)
      BY <1>1 DEF CountedOnce
    <3> QED
      BY <1>2, <3>2, <3>3, <3>4
  <2> QED
    BY <2>1 DEF CountedOnce
<1> QED
  BY <1>9, <1>10, <1>11, <1>12, <1>13 DEF RolloutInv

\* The reply to the request of the rows R.
ReplyTo(R) ==
  LET active    == {i \in DOMAIN R: R[i].active}
      searching == {i \in active: ParseAction(Last(R[i].script)).kind = "search"}
      order(S)  == [k \in 1..Cardinality(S) |->
                      CHOOSE i \in S: Cardinality({j \in S: j <= i}) = k]
      asked(b)  == order({i \in searching: R[i].backend = b})
      results(b) == [k \in DOMAIN asked(b) |->
                       Search(b, ParseAction(Last(R[asked(b)[k]].script)).value)]
      searchers == order(searching)
  IN  [k \in DOMAIN searchers |->
         LET b  == R[searchers[k]].backend
             at == CHOOSE j \in DOMAIN asked(b): asked(b)[j] = searchers[k]
         IN  results(b)[at]]

\* The request depends on the rows alone.
LEMMA RequestIs ==
  ASSUME rows' = rows
  PROVE  RestoredOrder' = RestoredOrder
<1>1. RestoredOrder = ReplyTo(rows)
  BY Zenon DEF ReplyTo, RestoredOrder, Searchers, Searching, Active, Action, InOrder, Asked,
     Results, Query
<1>2. RestoredOrder' = ReplyTo(rows')
  BY Zenon DEF ReplyTo, RestoredOrder, Searchers, Searching, Active, Action, InOrder, Asked,
     Results, Query
<1> QED
  BY <1>1, <1>2, Zenon

\* The request, and the searches of a backend, depend on the rows alone.
LEMMA SameRequest ==
  ASSUME rows' = rows
  PROVE  RestoredOrder' = RestoredOrder /\ \A b: SearchingOn(b)' = SearchingOn(b)
<1>1. Searching' = Searching
  BY DEF Searching, Active, Action
<1>2. \A b: SearchingOn(b)' = SearchingOn(b)
  BY <1>1 DEF SearchingOn
<1>3. Searchers' = Searchers
  BY <1>1 DEF Searchers, InOrder
<1>4. \A b: Asked(b)' = Asked(b)
  BY <1>1 DEF Asked, InOrder
<1>5. \A i: Query(i)' = Query(i)
  BY DEF Query, Action
<1>6. \A b: Results(b)' = Results(b)
  BY <1>4, <1>5 DEF Results
<1>7. RestoredOrder' = RestoredOrder
  BY RequestIs
<1> QED
  BY <1>2, <1>7

\* What the router does leaves the rows alone.
LEMMA RowsStay ==
  ASSUME RolloutInv, plan' = plan, turn' = turn, rows' = rows,
         stage \in {"route", "join"}, stage' \in {"route", "join", "execute"}
  PROVE  InPlace' /\ Fresh' /\ Assigned' /\ InStep'
<1>1. InPlace'
  BY Zenon DEF RolloutInv, InPlace
<1>2. Fresh'
  BY DEF Fresh
<1>3. Assigned'
  <2>1. Assigned /\ stage \notin {"assign", "failed"}
    BY DEF RolloutInv
  <2> QED
    BY <2>1, Zenon DEF Assigned
<1>4. InStep'
  <2>1. \A i \in DOMAIN rows: BeforeLast(i)
    BY DEF RolloutInv, InStep
  <2>2. \A i \in DOMAIN rows': BeforeLast(i)'
    BY <2>1, Zenon DEF BeforeLast
  <2>3. DoSearch
    BY DEF RolloutInv, InStep
  <2>4. DoSearch'
    BY <2>3 DEF DoSearch
  <2>5. stage' \notin {"generate", "done"}
    OBVIOUS
  <2> QED
    BY <2>2, <2>4, <2>5 DEF InStep
<1> QED
  BY <1>1, <1>2, <1>3, <1>4

\* Route: the request is split by backend.
LEMMA RouteKeeps == RolloutInv /\ Route => RolloutInv'
<1> SUFFICES ASSUME RolloutInv, Route PROVE RolloutInv'
  OBVIOUS
<1>1. /\ stage = "route" /\ stage' = "join" /\ plan' = plan /\ turn' = turn /\ rows' = rows
      /\ upstream' = [b \in Backends |-> IF Asked(b) # <<>> THEN "called" ELSE "idle"]
      /\ reply' = reply /\ counts' = counts
  BY DEF Route
<1>2. Typed'
  <2>1. upstream' \in [Backends -> {"idle", "called", "answered", "failed"}]
    BY <1>1
  <2> QED
    BY <1>1, <2>1 DEF RolloutInv, Typed, Stages
<1>3. InPlace' /\ Fresh' /\ Assigned' /\ InStep'
  BY <1>1, RowsStay
<1>4. Delivered'
  BY <1>1 DEF Delivered
<1>5. CountedOnce'
  BY <1>1, CountsStay DEF RolloutInv
<1> QED
  BY <1>2, <1>3, <1>4, <1>5 DEF RolloutInv

\* UpstreamEnds: a call is answered or fails.
LEMMA UpstreamEndsKeeps ==
  ASSUME RolloutInv, NEW b \in Backends, UpstreamEnds(b)
  PROVE  RolloutInv'
<1>1. /\ stage' = stage /\ plan' = plan /\ turn' = turn /\ rows' = rows
      /\ reply' = reply /\ counts' = counts
  BY DEF UpstreamEnds
<1>2. PICK end \in {"answered", "failed"}: upstream' = [upstream EXCEPT ![b] = end]
  BY DEF UpstreamEnds
<1>3. Typed'
  <2>1. upstream' \in [Backends -> {"idle", "called", "answered", "failed"}]
    BY <1>2 DEF RolloutInv, Typed
  <2> QED
    BY <1>1, <2>1 DEF RolloutInv, Typed, Stages
<1>4. InPlace' /\ Fresh' /\ Assigned'
  <2>1. InPlace /\ Fresh /\ Assigned
    BY DEF RolloutInv
  <2> QED
    BY <1>1, <2>1, Zenon DEF InPlace, Fresh, Assigned
<1>5. InStep'
  <2>1. \A i \in DOMAIN rows: /\ AtTheEnd(i)' <=> AtTheEnd(i)
                              /\ BeforeLast(i)' <=> BeforeLast(i)
    BY <1>1, Zenon DEF AtTheEnd, BeforeLast
  <2>2. DoSearch' <=> DoSearch
    BY <1>1, Zenon DEF DoSearch
  <2>3. InStep
    BY DEF RolloutInv
  <2> QED
    BY <1>1, <2>1, <2>2, <2>3, Zenon DEF InStep
<1>6. Delivered'
  <2>1. RestoredOrder' = RestoredOrder
    BY <1>1, SameRequest
  <2>2. DoSearch' <=> DoSearch
    BY <1>1, Zenon DEF DoSearch
  <2>3. Delivered
    BY DEF RolloutInv
  <2> QED
    BY <1>1, <2>1, <2>2, <2>3, Zenon DEF Delivered
<1>7. CountedOnce'
  <2>1. ASSUME NEW c \in Backends
        PROVE  /\ IsFiniteSet(Executions(c)')
               /\ counts'[c] = Cardinality(Executions(c)') + Underway(c)'
    <3>1. Executions(c)' = Executions(c)
      BY <1>1 DEF Executions
    <3>2. Underway(c)' = Underway(c)
      <4>1. SearchingOn(c)' = SearchingOn(c)
        BY <1>1, SameRequest
      <4>2. DoSearch' <=> DoSearch
        BY <1>1, Zenon DEF DoSearch
      <4> QED
        BY <1>1, <4>1, <4>2 DEF Underway
    <3>3. IsFiniteSet(Executions(c)) /\ counts[c] = Cardinality(Executions(c)) + Underway(c)
      BY DEF RolloutInv, CountedOnce
    <3> QED
      BY <1>1, <3>1, <3>2, <3>3
  <2> QED
    BY <2>1 DEF CountedOnce
<1> QED
  BY <1>3, <1>4, <1>5, <1>6, <1>7 DEF RolloutInv

\* Join: the results go back in the order of the rows, and are counted.
LEMMA JoinKeeps == RolloutInv /\ Join => RolloutInv'
<1> SUFFICES ASSUME RolloutInv, Join PROVE RolloutInv'
  OBVIOUS
<1>1. /\ stage = "join" /\ stage' = "execute" /\ plan' = plan /\ turn' = turn /\ rows' = rows
      /\ upstream' = [b \in Backends |-> "idle"]
      /\ reply' = RestoredOrder
      /\ counts' = [b \in Backends |-> counts[b] + Len(Asked(b))]
  BY DEF Join
<1>2. Typed /\ InPlace /\ CountedOnce /\ DoSearch
  BY <1>1 DEF RolloutInv, InStep
<1>3. PICK n \in Nat: DOMAIN rows = 1..n
  BY <1>2, HereIs
<1>4. ASSUME NEW b \in Backends
      PROVE  Len(Asked(b)) = Cardinality(SearchingOn(b)) /\ Cardinality(SearchingOn(b)) \in Nat
  <2> DEFINE S == SearchingOn(b)
  <2>1. S \in SUBSET (1..n) /\ Asked(b) = InOrder(S)
    BY <1>3 DEF SearchingOn, Asked, Searching, Active
  <2> HIDE DEF S
  <2>2. Len(InOrder(S)) = Cardinality(S) /\ Cardinality(S) \in Nat
    BY <2>1, InOrderIs
  <2> QED
    BY <2>1, <2>2 DEF S
<1>5. Typed'
  <2>1. counts' \in [Backends -> Nat]
    <3>1. \A b \in Backends: counts[b] + Len(Asked(b)) \in Nat
      <4>1. TAKE b \in Backends
      <4>2. counts[b] \in Nat
        BY <1>2 DEF Typed
      <4>3. Len(Asked(b)) \in Nat
        BY <1>4
      <4> QED
        BY <4>2, <4>3
    <3> QED
      BY <1>1, <3>1
  <2>2. upstream' \in [Backends -> {"idle", "called", "answered", "failed"}]
    BY <1>1
  <2>3. plan' \in Plans /\ stage' \in Stages /\ turn' \in 1..(plan'.turns + 1)
    BY <1>1, <1>2 DEF Typed, Stages
  <2> QED
    BY <2>1, <2>2, <2>3 DEF Typed
<1>6. InPlace' /\ Fresh' /\ Assigned' /\ InStep'
  BY <1>1, RowsStay
<1>7. Delivered'
  <2>1. RestoredOrder' = RestoredOrder
    BY <1>1, SameRequest
  <2> QED
    BY <1>1, <2>1 DEF Delivered
<1>8. CountedOnce'
  <2>1. ASSUME NEW b \in Backends
        PROVE  /\ IsFiniteSet(Executions(b)')
               /\ counts'[b] = Cardinality(Executions(b)') + Underway(b)'
    <3>1. Executions(b)' = Executions(b)
      BY <1>1 DEF Executions
    <3>2. SearchingOn(b)' = SearchingOn(b)
      BY <1>1, SameRequest
    <3>3. DoSearch'
      BY <1>1, <1>2 DEF DoSearch
    <3>4. Underway(b) = 0 /\ Underway(b)' = Cardinality(SearchingOn(b))
      BY <1>1, <3>2, <3>3 DEF Underway
    <3>5. IsFiniteSet(Executions(b)) /\ counts[b] = Cardinality(Executions(b)) + Underway(b)
      BY <1>2 DEF CountedOnce
    <3>6. Cardinality(Executions(b)) \in Nat
      BY <3>5, FS_CardinalityType
    <3>7. counts'[b] = counts[b] + Cardinality(SearchingOn(b))
      BY <1>1, <1>4
    <3> QED
      BY <3>1, <3>4, <3>5, <3>6, <3>7
  <2> QED
    BY <2>1 DEF CountedOnce
<1> QED
  BY <1>5, <1>6, <1>7, <1>8 DEF RolloutInv

\* JoinFails: an upstream error ends the batch, nothing is counted.
LEMMA JoinFailsKeeps == RolloutInv /\ JoinFails => RolloutInv'
<1> SUFFICES ASSUME RolloutInv, JoinFails PROVE RolloutInv'
  OBVIOUS
<1>1. /\ stage = "join" /\ stage' = "failed" /\ plan' = plan /\ turn' = turn /\ rows' = rows
      /\ upstream' = [b \in Backends |-> "idle"] /\ reply' = reply /\ counts' = counts
  BY DEF JoinFails
<1>2. Typed'
  <2>1. upstream' \in [Backends -> {"idle", "called", "answered", "failed"}]
    BY <1>1
  <2> QED
    BY <1>1, <2>1 DEF RolloutInv, Typed, Stages
<1>3. InPlace'
  BY <1>1, Zenon DEF RolloutInv, InPlace
<1>4. Fresh' /\ Assigned' /\ InStep' /\ Delivered'
  BY <1>1 DEF Fresh, Assigned, InStep, Delivered
<1>5. CountedOnce'
  BY <1>1, CountsStay DEF RolloutInv
<1> QED
  BY <1>2, <1>3, <1>4, <1>5 DEF RolloutInv

\* A step that changes nothing.
LEMMA NothingChanges == RolloutInv /\ UNCHANGED rolloutVars => RolloutInv'
<1> SUFFICES ASSUME RolloutInv, UNCHANGED rolloutVars PROVE RolloutInv'
  OBVIOUS
<1>1. /\ stage' = stage /\ plan' = plan /\ turn' = turn /\ rows' = rows /\ upstream' = upstream
      /\ reply' = reply /\ counts' = counts
  BY DEF rolloutVars
<1>2. Typed'
  BY <1>1 DEF RolloutInv, Typed, Stages
<1>3. InPlace' /\ Fresh' /\ Assigned'
  <2>1. InPlace /\ Fresh /\ Assigned
    BY DEF RolloutInv
  <2> QED
    BY <1>1, <2>1, Zenon DEF InPlace, Fresh, Assigned
<1>4. DoSearch' <=> DoSearch
  BY <1>1, Zenon DEF DoSearch
<1>5. InStep'
  <2>1. \A i \in DOMAIN rows: /\ AtTheEnd(i)' <=> AtTheEnd(i)
                              /\ BeforeLast(i)' <=> BeforeLast(i)
    BY <1>1, Zenon DEF AtTheEnd, BeforeLast
  <2>2. InStep
    BY DEF RolloutInv
  <2> QED
    BY <1>1, <1>4, <2>1, <2>2, Zenon DEF InStep
<1>6. Delivered'
  <2>1. RestoredOrder' = RestoredOrder
    BY <1>1, SameRequest
  <2>2. Delivered
    BY DEF RolloutInv
  <2> QED
    BY <1>1, <1>4, <2>1, <2>2, Zenon DEF Delivered
<1>7. CountedOnce'
  <2>1. ASSUME NEW c \in Backends
        PROVE  /\ IsFiniteSet(Executions(c)')
               /\ counts'[c] = Cardinality(Executions(c)') + Underway(c)'
    <3>1. Executions(c)' = Executions(c)
      BY <1>1 DEF Executions
    <3>2. Underway(c)' = Underway(c)
      <4>1. SearchingOn(c)' = SearchingOn(c)
        BY <1>1, SameRequest
      <4> QED
        BY <1>1, <1>4, <4>1 DEF Underway
    <3>3. IsFiniteSet(Executions(c)) /\ counts[c] = Cardinality(Executions(c)) + Underway(c)
      BY DEF RolloutInv, CountedOnce
    <3> QED
      BY <1>1, <3>1, <3>2, <3>3
  <2> QED
    BY <2>1 DEF CountedOnce
<1> QED
  BY <1>2, <1>3, <1>5, <1>6, <1>7 DEF RolloutInv

\* The queue has a result for every searching row.
LEMMA QueueIs ==
  ASSUME RolloutInv, stage = "execute", NEW n \in Nat, DOMAIN rows = 1..n
  PROVE  /\ IsList(Queue) /\ Len(Queue) = Cardinality(Searching)
         /\ DoSearch => \A i \in Searching:
                          Queue[Rank(Searching, i)] = Search(rows[i].backend, Query(i))
<1> DEFINE m == Cardinality(Searching)
<1>1. /\ IsList(RestoredOrder) /\ Len(RestoredOrder) = m /\ m \in Nat
      /\ DOMAIN Searchers = 1..m
      /\ \A i \in Searching: RestoredOrder[Rank(Searching, i)] = Search(rows[i].backend, Query(i))
  BY RestoredIs
<1>2. CASE DoSearch
  <2>1. Queue = RestoredOrder
    BY <1>2 DEF Queue, RolloutInv, Delivered
  <2> QED
    BY <1>1, <2>1
<1>3. CASE ~DoSearch
  <2> DEFINE q == Queue
  <2>1. q = [k \in 1..m |-> <<>>]
    BY <1>1, <1>3 DEF Queue
  <2> HIDE DEF q, m
  <2>2. DOMAIN q = 1..m /\ q = [k \in 1..m |-> q[k]]
    BY <2>1
  <2>3. IsList(q) /\ Len(q) = m
    BY <1>1, <2>2, SegmentIsList
  <2> QED
    BY <1>3, <2>3 DEF q, m
<1> QED
  BY <1>2, <1>3

\* A row's own text is the one it acts on.
LEMMA SaidIs ==
  ASSUME NEW r, IsRow(r)
  PROVE  Action(Said(r)) = Action(r)
<1> DEFINE length == Min({r.length + Len(Last(r.script)), MaxResponse})
           cut == IF r.length + Len(Last(r.script)) > MaxResponse THEN 1 ELSE r.truncated
           f == Said(r)
<1>1. f = [r EXCEPT !.length = length, !.truncated = cut]
  BY DEF Said, Longer
<1> HIDE DEF length, cut, f
<1>2. f.script = r.script
  BY <1>1 DEF IsRow
<1> QED
  BY <1>2 DEF Action, f

\* The rows after the turn, and the empty queue.
LEMMA TurnIs ==
  ASSUME RolloutInv, stage = "execute", NEW n \in Nat, DOMAIN rows = 1..n
  PROVE  Executed.queue = <<>> /\ Executed.rows = [j \in 1..n |-> ActedAt(j)]
<1>1. IsList(Queue) /\ Len(Queue) = Cardinality(Searching)
  BY QueueIs
<1>2. \A j \in 1..n: Action(Said(rows[j])) = Action(rows[j])
  <2>1. \A j \in 1..n: IsRow(rows[j])
    BY DEF RolloutInv, InPlace
  <2> QED
    BY <2>1, SaidIs
<1>3. rows = [j \in 1..n |-> rows[j]]
  <2>1. rows = [j \in DOMAIN Batch(plan) |-> rows[j]]
    BY DEF RolloutInv, InPlace
  <2>2. DOMAIN Batch(plan) = 1..n
    BY <2>1
  <2> QED
    BY <2>1, <2>2
<1> QED
  BY <1>1, <1>2, <1>3, ExecutedIs

\* Every row ends the turn at the end of its script.
LEMMA RowActs ==
  ASSUME RolloutInv, stage = "execute", NEW n \in Nat, DOMAIN rows = 1..n, NEW i \in 1..n
  PROVE  /\ SamePlace(rows[i], ActedAt(i))
         /\ Follows(ActedAt(i), rows[i].script, plan.turns)
         /\ ActedAt(i).active => DoSearch /\ Len(rows[i].script) = turn
         /\ ActedAt(i).failure \in {0, 1}
         /\ rows[i].searches \in Nat
         /\ ActedAt(i).searches =
              IF i \in Searching /\ DoSearch THEN rows[i].searches + 1 ELSE rows[i].searches
<1> DEFINE r == rows[i]
           f == ActedAt(i)
           turns == plan.turns
           s == r.script
<1>1. /\ IsRow(r) /\ Fits(r) /\ r.backend \in Backends /\ IsScript(s)
      /\ r.failure \in {0, 1}
      /\ r.active => Len(s) = turn /\ Follows(r, Front(s), turns)
      /\ ~r.active => Follows(r, s, turns)
  BY DEF RolloutInv, InPlace, Assigned, InStep, BeforeLast
<1>2. turns \in Nat /\ turn \in Nat \ {0}
  BY HereIs DEF RolloutInv
<1>3. r.backend \in Everywhere
  BY <1>1 DEF Everywhere
<1>4. i \in Searching <=> (r.active /\ Action(r).kind = "search")
  BY DEF Searching, Active
<1>5. ASSUME NEW g, NEW t, IsScript(t), g.backend = r.backend, Follows(g, t, turns)
      PROVE  g.searches \in Nat /\ (g.failure \in {0, 1})
  <2> DEFINE e == RunEpisode(r.backend, turns, t)
  <2>1. Sound(e, turns)
    BY <1>2, <1>3, <1>5, EpisodeIsSound
  <2>2. Matches(g, e)
    BY <1>5 DEF Follows
  <2> HIDE DEF e
  <2>3. IsList(e.queries) /\ e.failure \in {0, 1}
    BY <2>1 DEF Sound, Counted
  <2>4. Len(e.queries) \in Nat
    BY <2>3, ListIs
  <2>5. g.searches = Len(e.queries) /\ (g.failure = IF g.active THEN 1 ELSE e.failure)
    BY <2>2 DEF Matches
  <2> QED
    BY <2>3, <2>4, <2>5
<1>6. CASE ~r.active
  <2>1. f = r
    BY <1>6 DEF ActedAt, ActedRow
  <2>2. SamePlace(r, r)
    BY <1>1 DEF SamePlace
  <2>3. r.searches \in Nat
    BY <1>1, <1>5, <1>6
  <2> HIDE DEF f, r
  <2> QED
    BY <1>1, <1>4, <1>6, <2>1, <2>2, <2>3 DEF f, r
<1>7. CASE r.active
  <2> DEFINE t == Front(s)
             x == Last(s)
             results == Queue[Rank(Searching, i)]
  <2>1. IsScript(t) /\ Sayable(x) /\ s = Append(t, x) /\ Len(t) = turn - 1
    <3>1. IsList(s) /\ Len(s) # 0 /\ Len(s) = turn /\ DOMAIN s = 1..Len(s)
          /\ \A k \in DOMAIN s: Sayable(s[k])
      BY <1>1, <1>2, <1>7, ListIs DEF IsScript
    <3> HIDE DEF s
    <3>2. /\ IsList(Front(s)) /\ Len(Front(s)) = Len(s) - 1 /\ s = Append(Front(s), Last(s))
          /\ \A k \in DOMAIN Front(s): k \in DOMAIN s /\ Front(s)[k] = s[k]
      BY <3>1, FrontIs
    <3>3. IsScript(Front(s))
      BY <3>1, <3>2 DEF IsScript
    <3>4. Last(s) = s[Len(s)] /\ Len(s) \in DOMAIN s
      BY <1>2, <3>1 DEF Last
    <3> QED
      BY <3>1, <3>2, <3>3, <3>4
  <2>2. Follows(r, t, turns) /\ Len(s) = turn
    BY <1>1, <1>7
  <2>3. DoSearch <=> Len(t) < turns
    BY <1>2, <2>1 DEF DoSearch
  <2>4. Action(r).kind = "search" /\ DoSearch => results = Search(r.backend, Action(r).value)
    <3>1. ASSUME Action(r).kind = "search", DoSearch
          PROVE  results = Search(r.backend, Action(r).value)
      <4>1. i \in Searching
        BY <1>4, <1>7, <3>1
      <4>2. results = Search(rows[i].backend, Query(i))
        BY <3>1, <4>1, QueueIs
      <4> QED
        BY <4>2 DEF Query
    <3> QED
      BY <3>1
  <2>5. f = ActedRow(r, results, DoSearch)
    BY DEF ActedAt
  <2>6. r.script = Append(t, x)
    BY <2>1
  <2> DEFINE more == DoSearch
  <2>7. more \in BOOLEAN
    BY DEF DoSearch
  <2>8. more <=> Len(t) < turns
    BY <2>3
  <2>9. Action(r).kind = "search" /\ more => results = Search(r.backend, Action(r).value)
    BY <2>4
  <2>10. f = ActedRow(r, results, more)
    BY <2>5
  <2>11. more <=> DoSearch
    OBVIOUS
  <2> HIDE DEF more, results, f, t, x, turns, r
  <2>12. /\ SamePlace(r, ActedRow(r, results, more))
         /\ Follows(ActedRow(r, results, more), r.script, turns)
         /\ ~more => ~ActedRow(r, results, more).active
         /\ ActedRow(r, results, more).searches =
              IF Action(r).kind = "search" /\ more THEN r.searches + 1 ELSE r.searches
    <3>1. turns \in Nat /\ IsRow(r) /\ Fits(r) /\ r.active /\ r.backend \in Backends
      BY <1>1, <1>2, <1>7
    <3>2. IsScript(t) /\ Sayable(x) /\ Follows(r, t, turns)
      BY <2>1, <2>2
    <3> QED
      BY <2>6, <2>7, <2>8, <2>9, <3>1, <3>2, ActedFollows, ZenonT(60)
  <2>13. f.failure \in {0, 1}
    <3>1. f.backend = r.backend
      BY <2>10, <2>12 DEF SamePlace
    <3> QED
      BY <1>1, <1>5, <2>10, <2>12, <3>1
  <2>14. r.searches \in Nat
    BY <1>5, <2>1, <2>2
  <2>15. f.searches = IF i \in Searching /\ DoSearch THEN r.searches + 1 ELSE r.searches
    BY <1>4, <1>7, <2>10, <2>11, <2>12
  <2>16. f.active => DoSearch /\ Len(r.script) = turn
    BY <2>2, <2>10, <2>11, <2>12
  <2> QED
    BY <2>10, <2>12, <2>13, <2>14, <2>15, <2>16 DEF f, r, turns
<1> QED
  BY <1>6, <1>7

\* Execute: every row acts on its own text and result.
LEMMA ExecuteKeeps == RolloutInv /\ Execute => RolloutInv'
<1> SUFFICES ASSUME RolloutInv, Execute PROVE RolloutInv'
  OBVIOUS
<1>1. /\ stage = "execute" /\ plan' = plan /\ upstream' = upstream /\ counts' = counts
      /\ rows' = Executed.rows
      /\ stage' = IF Executed.queue # <<>> THEN "failed"
                  ELSE IF DoSearch /\ \E i \in DOMAIN rows: Executed.rows[i].active
                  THEN "generate" ELSE "done"
      /\ turn' = IF \E i \in DOMAIN rows: Executed.rows[i].active THEN turn + 1 ELSE turn
  BY DEF Execute
<1>2. Typed /\ InPlace /\ Assigned /\ InStep /\ CountedOnce
  BY DEF RolloutInv
<1>3. PICK n \in Nat: DOMAIN Batch(plan) = 1..n /\ DOMAIN rows = 1..n
  BY <1>2, HereIs
<1>4. plan \in Plans /\ plan.turns \in Nat \ {0} /\ turn \in Nat \ {0}
  BY <1>2, HereIs
<1>5. Executed.queue = <<>> /\ Executed.rows = [j \in 1..n |-> ActedAt(j)]
  BY <1>1, <1>3, TurnIs
<1>6. DOMAIN rows' = 1..n /\ rows' = [j \in DOMAIN Batch(plan) |-> rows'[j]]
      /\ \A i \in 1..n: rows'[i] = ActedAt(i)
  BY <1>1, <1>3, <1>5
<1>7. /\ stage' = IF DoSearch /\ \E i \in 1..n: rows'[i].active THEN "generate" ELSE "done"
      /\ turn' = IF \E i \in 1..n: rows'[i].active THEN turn + 1 ELSE turn
  BY <1>1, <1>3, <1>5
<1>8. ASSUME NEW i \in 1..n
      PROVE  /\ IsRow(rows[i]) /\ rows[i].prompt = Batch(plan)[i] /\ rows[i].backend \in Backends
             /\ IsScript(rows[i].script)
             /\ SamePlace(rows[i], rows'[i])
             /\ Follows(rows'[i], rows[i].script, plan.turns)
             /\ rows'[i].active => DoSearch /\ Len(rows[i].script) = turn
             /\ rows'[i].failure \in {0, 1}
             /\ rows[i].searches \in Nat
             /\ rows'[i].searches =
                  IF i \in Searching /\ DoSearch THEN rows[i].searches + 1 ELSE rows[i].searches
  <2>1. rows'[i] = ActedAt(i)
    BY <1>6
  <2>2. IsRow(rows[i]) /\ rows[i].prompt = Batch(plan)[i] /\ rows[i].backend \in Backends
        /\ IsScript(rows[i].script)
    BY <1>1, <1>2, <1>3 DEF InPlace, Assigned
  <2>3. /\ SamePlace(rows[i], ActedAt(i))
        /\ Follows(ActedAt(i), rows[i].script, plan.turns)
        /\ ActedAt(i).active => DoSearch /\ Len(rows[i].script) = turn
        /\ ActedAt(i).failure \in {0, 1}
        /\ rows[i].searches \in Nat
        /\ ActedAt(i).searches =
             IF i \in Searching /\ DoSearch THEN rows[i].searches + 1 ELSE rows[i].searches
    BY <1>1, <1>3, RowActs, Zenon
  <2> DEFINE f == rows'[i]
  <2> HIDE DEF f
  <2>4. f = ActedAt(i)
    BY <2>1 DEF f
  <2> QED
    BY <2>2, <2>3, <2>4, Zenon DEF f
<1>9. (\E i \in 1..n: rows'[i].active) => DoSearch
  BY <1>8
<1>10. Typed'
  <2>1. turn' \in 1..(plan'.turns + 1)
    <3>1. CASE \E i \in 1..n: rows'[i].active
      BY <1>1, <1>4, <1>7, <1>9, <3>1 DEF DoSearch
    <3>2. CASE ~\E i \in 1..n: rows'[i].active
      <4>1. turn' = turn
        BY <1>7, <3>2
      <4> QED
        BY <1>1, <1>2, <4>1 DEF Typed
    <3> QED
      BY <3>1, <3>2
  <2>2. stage' \in Stages
    BY <1>7 DEF Stages
  <2> QED
    BY <1>1, <1>2, <2>1, <2>2 DEF Typed
<1>11. InPlace'
  <2>1. \A i \in 1..n: rows'[i].backend \in Backends \cup {""}
    BY <1>8, Zenon DEF SamePlace
  <2>2. \A i \in 1..n: /\ IsRow(rows'[i]) /\ Fits(rows'[i]) /\ rows'[i].failure \in {0, 1}
                       /\ rows'[i].prompt = Batch(plan)[i]
    BY <1>8 DEF SamePlace
  <2> QED
    BY <1>1, <1>6, <2>1, <2>2, Zenon DEF InPlace
<1>12. stage' \in {"generate", "done"}
  BY <1>7
<1>13. Fresh' /\ Assigned' /\ Delivered'
  <2>1. Fresh' /\ Delivered'
    BY <1>12 DEF Fresh, Delivered
  <2>2. \A i \in 1..n: rows'[i].backend \in Backends /\ IsScript(rows'[i].script)
    BY <1>8 DEF SamePlace
  <2>3. Assigned'
    BY <1>6, <2>2, Zenon DEF Assigned
  <2> QED
    BY <2>1, <2>3
<1>14. InStep'
  <2>1. ASSUME NEW i \in 1..n PROVE AtTheEnd(i)'
    <3>1. rows'[i].script = rows[i].script
      BY <1>8 DEF SamePlace
    <3>2. Follows(rows'[i], rows'[i].script, plan'.turns)
      BY <1>1, <1>8, <3>1
    <3>3. rows'[i].active => Len(rows'[i].script) = turn' - 1
      <4>1. ASSUME rows'[i].active PROVE Len(rows'[i].script) = turn' - 1
        <5>1. turn' = turn + 1
          BY <1>7, <4>1
        <5>2. Len(rows[i].script) = turn
          BY <1>8, <4>1
        <5> QED
          BY <1>4, <3>1, <5>1, <5>2
      <4> QED
        BY <4>1
    <3> QED
      BY <3>2, <3>3 DEF AtTheEnd
  <2>2. stage' = "done" => \A i \in 1..n: ~rows'[i].active
    <3>1. CASE DoSearch
      BY <1>7, <3>1
    <3>2. CASE ~DoSearch
      BY <1>9, <3>2
    <3> QED
      BY <3>1, <3>2
  <2>3. stage' \notin {"route", "join", "execute"}
    BY <1>12
  <2> QED
    BY <1>6, <2>1, <2>2, <2>3, Zenon DEF InStep
<1>15. CountedOnce'
  <2>1. ASSUME NEW b \in Backends
        PROVE  /\ IsFiniteSet(Executions(b)')
               /\ counts'[b] = Cardinality(Executions(b)') + Underway(b)'
    <3>1. Executions(b)' = ExecutionsIn(rows', b) /\ Executions(b) = ExecutionsIn(rows, b)
      BY DEF Executions
    <3>2. IsFiniteSet(Executions(b)) /\ counts[b] = Cardinality(Executions(b)) + Underway(b)
      BY <1>2 DEF CountedOnce
    <3>3. Underway(b)' = 0
      BY <1>12 DEF Underway
    <3>4. \A i \in 1..n: rows'[i].backend = rows[i].backend
      BY <1>8 DEF SamePlace
    <3> DEFINE S == SearchingOn(b)
    <3>5. S \subseteq 1..n /\ \A i \in 1..n: i \in S <=> (i \in Searching /\ rows[i].backend = b)
      BY <1>3 DEF SearchingOn, Searching, Active
    <3> HIDE DEF S
    <3>6. IsFiniteSet(S)
      BY <3>5, RankIs
    <3>7. CASE DoSearch
      <4>1. /\ IsFiniteSet(ExecutionsIn(rows', b))
            /\ Cardinality(ExecutionsIn(rows', b))
                 = Cardinality(ExecutionsIn(rows, b)) + Cardinality(S)
        <5> DEFINE R == rows
                   Q == rows'
        <5>1. DOMAIN R = DOMAIN Q /\ IsFiniteSet(S) /\ S \subseteq DOMAIN R
              /\ IsFiniteSet(ExecutionsIn(R, b))
          BY <1>3, <1>6, <3>1, <3>2, <3>5, <3>6
        <5>2. \A i \in DOMAIN R: R[i].searches \in Nat /\ Q[i].backend = R[i].backend
          BY <1>3, <1>8, <3>4
        <5>3. \A i \in DOMAIN R: i \in S => R[i].backend = b /\ Q[i].searches = R[i].searches + 1
          BY <1>3, <1>8, <3>5, <3>7
        <5>4. \A i \in DOMAIN R: R[i].backend = b /\ i \notin S => Q[i].searches = R[i].searches
          BY <1>3, <1>8, <3>5
        <5>5. SearchesMore(R, Q, b, S)
          BY <5>1, <5>2, <5>3, <5>4, Zenon DEF SearchesMore
        <5> QED
          BY <5>1, <5>5, ExecutionsGrow
      <4>2. Underway(b) = Cardinality(S)
        BY <1>1, <3>7 DEF Underway, S
      <4>3. counts'[b] = Cardinality(ExecutionsIn(rows, b)) + Cardinality(S)
        BY <1>1, <3>1, <3>2, <4>2
      <4>4. Cardinality(ExecutionsIn(rows', b)) \in Nat
        BY <4>1, FS_CardinalityType
      <4>5. counts'[b] = Cardinality(ExecutionsIn(rows', b)) + 0
        BY <4>1, <4>3, <4>4
      <4> QED
        BY <3>1, <3>3, <4>1, <4>5
    <3>8. CASE ~DoSearch
      <4>1. \A i \in 1..n: rows'[i].searches = rows[i].searches
        BY <1>8, <3>8
      <4>2. ExecutionsIn(rows', b) = ExecutionsIn(rows, b)
        BY <1>3, <1>6, <3>4, <4>1, SameExecutions
      <4>3. Underway(b) = 0
        BY <3>8 DEF Underway
      <4> QED
        BY <1>1, <3>1, <3>2, <3>3, <4>2, <4>3
    <3> QED
      BY <3>7, <3>8
  <2> QED
    BY <2>1 DEF CountedOnce
<1> QED
  BY <1>10, <1>11, <1>13, <1>14, <1>15 DEF RolloutInv

\* Every step keeps the invariant.
LEMMA BatchGoesOn == RolloutInv /\ [RolloutNext]_rolloutVars => RolloutInv'
<1> SUFFICES ASSUME RolloutInv, [RolloutNext]_rolloutVars PROVE RolloutInv'
  OBVIOUS
<1>1. CASE Assign
  BY <1>1, AssignKeeps
<1>2. CASE RefuseBatch
  BY <1>2, RefuseBatchKeeps
<1>3. CASE Generate
  BY <1>3, GenerateKeeps
<1>4. CASE Route
  BY <1>4, RouteKeeps
<1>5. CASE Join
  BY <1>5, JoinKeeps
<1>6. CASE JoinFails
  BY <1>6, JoinFailsKeeps
<1>7. CASE \E b \in Backends: UpstreamEnds(b)
  <2>1. PICK b \in Backends: UpstreamEnds(b)
    BY <1>7
  <2> QED
    BY <2>1, UpstreamEndsKeeps
<1>8. CASE Execute
  BY <1>8, ExecuteKeeps
<1>9. CASE Stopped \/ UNCHANGED rolloutVars
  BY <1>9, NothingChanges DEF Stopped
<1> QED
  BY <1>1, <1>2, <1>3, <1>4, <1>5, <1>6, <1>7, <1>8, <1>9 DEF RolloutNext

\* The invariant of the specification.
THEOREM RolloutInvariance == RolloutSpec => []RolloutInv
<1>1. RolloutInit => RolloutInv
  BY BatchBegins
<1>2. RolloutInv /\ [RolloutNext]_rolloutVars => RolloutInv'
  BY BatchGoesOn
<1> QED
  BY <1>1, <1>2, PTL DEF RolloutSpec

(***************************************************************************)
(* What the invariant says of the properties                               *)
(***************************************************************************)

\* The titles of a script, in the words of the model.
LEMMA TitlesOfScript ==
  ASSUME NEW r, NEW turns
  PROVE  FlattenSeq([k \in 1..Min({Len(r.script), turns}) |-> OwnTitles(r, k)])
           = Gathered(r.backend, r.script, turns)
BY DEF OwnTitles, TitlesOf, Told, Gathered

\* Between turns a row stands at the end of its script.
LEMMA SettledRowIs ==
  ASSUME RolloutInv, Settled, NEW i \in DOMAIN rows
  PROVE  /\ rows[i].backend \in Backends /\ IsScript(rows[i].script)
         /\ Follows(rows[i], rows[i].script, plan.turns)
<1>1. stage \in {"generate", "done"}
  BY DEF Settled
<1>2. stage \notin {"assign", "failed"}
  BY <1>1
<1>3. rows[i].backend \in Backends /\ IsScript(rows[i].script)
  BY <1>2, Zenon DEF RolloutInv, Assigned
<1>4. AtTheEnd(i)
  BY <1>1, Zenon DEF RolloutInv, InStep
<1> QED
  BY <1>3, <1>4 DEF AtTheEnd

\* The titles of a row are those of its own queries.
LEMMA TitlesStayOwn == RolloutInv => TitlesAreOwn
<1> SUFFICES ASSUME RolloutInv, Settled, NEW i \in DOMAIN rows
             PROVE  rows[i].retrieved
                      = FlattenSeq([k \in SearchTurns(rows[i]) |-> OwnTitles(rows[i], k)])
  BY DEF TitlesAreOwn
<1>1. rows[i].retrieved = Gathered(rows[i].backend, rows[i].script, plan.turns)
  BY SettledRowIs DEF Follows
<1> QED
  BY <1>1, TitlesOfScript DEF SearchTurns

\* The turn uses up its queues.
LEMMA QueuesRunEmpty == RolloutInv => QueuesAreExhausted
<1> SUFFICES ASSUME RolloutInv, stage = "execute" PROVE Executed.queue = <<>>
  BY DEF QueuesAreExhausted
<1>1. PICK n \in Nat: DOMAIN rows = 1..n
  BY HereIs DEF RolloutInv
<1> QED
  BY <1>1, TurnIs

\* The router has counted the executed searches.
LEMMA CountsStayExact == RolloutInv => CountsAreExact
<1> SUFFICES ASSUME RolloutInv, Settled \/ stage = "failed", NEW b \in Backends
             PROVE  counts[b] = Cardinality(Executions(b))
  BY DEF CountsAreExact, Executions, ExecutionsIn
<1>1. IsFiniteSet(Executions(b)) /\ counts[b] = Cardinality(Executions(b)) + Underway(b)
  BY DEF RolloutInv, CountedOnce
<1>2. Underway(b) = 0
  <2>1. stage # "execute"
    BY DEF Settled
  <2> QED
    BY <2>1 DEF Underway
<1>3. Cardinality(Executions(b)) \in Nat
  BY <1>1, FS_CardinalityType
<1> QED
  BY <1>1, <1>2, <1>3

\* The variables have their types.
LEMMA TypesHold == RolloutInv => TypeOK
<1> SUFFICES ASSUME RolloutInv PROVE TypeOK
  OBVIOUS
<1>1. Typed /\ InPlace
  BY DEF RolloutInv
<1>2. turn \in 1..(plan.turns + 2)
  <2>1. plan.turns \in Nat
    BY <1>1, HereIs
  <2> QED
    BY <1>1, <2>1 DEF Typed
<1>3. ASSUME NEW i \in DOMAIN rows
      PROVE  /\ rows[i].backend \in Backends \cup {""}
             /\ rows[i].failure \in {0, 1} /\ rows[i].truncated \in {0, 1}
             /\ rows[i].length \in 0..MaxResponse
  BY <1>1, Zenon DEF InPlace, Fits
<1>4. /\ plan \in Plans /\ stage \in Stages
      /\ upstream \in [Backends -> {"idle", "called", "answered", "failed"}]
      /\ counts \in [Backends -> Nat]
  BY <1>1 DEF Typed
<1> QED
  BY <1>2, <1>3, <1>4, Zenon DEF TypeOK, Stages

(***************************************************************************)
(* The rows of the batch stay apart: each holds the titles of its own      *)
(* queries on its own backend, each turn uses up its queues, and the       *)
(* router has counted the searches that were executed.                     *)
(***************************************************************************)
THEOREM RowsStayAligned == RolloutSpec => []RowsAreAligned
<1>1. RolloutInv => RowsAreAligned
  BY TypesHold, TitlesStayOwn, QueuesRunEmpty, CountsStayExact DEF RowsAreAligned
<1> QED
  BY <1>1, RolloutInvariance, PTL

\* A row of a finished batch and the episode of its texts.
LEMMA DoneRowIs ==
  ASSUME RolloutInv, stage = "done", NEW i \in DOMAIN rows
  PROVE  LET e == EpisodeOf(rows[i], rows[i].backend)
         IN  /\ plan.turns \in Nat /\ rows[i].backend \in Backends /\ IsScript(rows[i].script)
             /\ Fits(rows[i]) /\ ~rows[i].active
             /\ Matches(rows[i], e) /\ Sound(e, plan.turns) /\ e.over
             /\ e.observed = ToSet(rows[i].observed) \cup Hidden(rows[i])
             /\ Trajectory(rows[i]) \in Nat /\ Windowed(rows[i], Trajectory(rows[i]))
<1> DEFINE e == EpisodeOf(rows[i], rows[i].backend)
<1>1. rows[i].backend \in Backends /\ IsScript(rows[i].script)
      /\ Follows(rows[i], rows[i].script, plan.turns)
  BY SettledRowIs DEF Settled
<1>2. plan.turns \in Nat
  BY HereIs DEF RolloutInv
<1>3. Fits(rows[i])
  BY Zenon DEF RolloutInv, InPlace
<1>4. ~rows[i].active
  BY Zenon DEF RolloutInv, InStep
<1>5. Matches(rows[i], e)
  BY <1>1 DEF Follows, EpisodeOf
<1>6. e.over
  <2> HIDE DEF e
  <2> QED
    BY <1>4, <1>5 DEF Matches
<1>7. Sound(e, plan.turns)
  <2>1. rows[i].backend \in Everywhere
    BY <1>1 DEF Everywhere
  <2> QED
    BY <1>1, <1>2, <2>1, EpisodeIsSound DEF EpisodeOf
<1>8. e.observed = ToSet(rows[i].observed) \cup Hidden(rows[i])
  <2>1. Hidden(rows[i]) = HiddenIn(rows[i].backend, rows[i].script, plan.turns)
    BY DEF Hidden, HiddenIn, SearchTurns
  <2> QED
    BY <1>1, <2>1 DEF Follows, Hides, EpisodeOf
<1>9. Trajectory(rows[i]) \in Nat /\ Windowed(rows[i], Trajectory(rows[i]))
  <2>1. Trajectory(rows[i]) = Cost(rows[i].backend, rows[i].script, plan.turns)
    BY DEF Trajectory, Cost, Costs, Charge, TotalOf, SearchTurns
  <2> QED
    BY <1>1, <2>1 DEF Follows, Counts
<1> QED
  BY <1>1, <1>2, <1>3, <1>4, <1>5, <1>6, <1>7, <1>8, <1>9

\* The evaluator's record of a finished row is legal on every retriever.
LEMMA DoneIsLegal == RolloutInv => EpisodesAreLegal
<1> SUFFICES ASSUME RolloutInv, stage = "done", NEW i \in DOMAIN rows,
                    NEW b \in Backends \cup {"hybrid"}
             PROVE  EpisodeIsLegal(Row(EpisodeOf(rows[i], b)), plan.turns)
  BY DEF EpisodesAreLegal
<1> DEFINE e == RunEpisode(rows[i].backend, plan.turns, rows[i].script)
           f == RunEpisode(b, plan.turns, rows[i].script)
<1>1. plan.turns \in Nat /\ rows[i].backend \in Everywhere /\ IsScript(rows[i].script) /\ e.over
  BY DoneRowIs DEF Everywhere, EpisodeOf
<1>2. b \in Everywhere
  BY DEF Everywhere
<1>3. Alike(e, f)
  BY <1>1, <1>2, EpisodesAreAlike
<1>4. f.over
  <2> HIDE DEF e, f
  <2> QED
    BY <1>1, <1>3 DEF Alike
<1>5. EpisodeIsLegal(Row(f), plan.turns)
  BY <1>1, <1>2, <1>4, EveryEpisodeIsLegal
<1> QED
  BY <1>5 DEF EpisodeOf

\* A finished batch gives every row the episode of its texts.
RowsEndAlike ==
  stage = "done" =>
    \A i \in DOMAIN rows: EndsAs(rows[i], EpisodeOf(rows[i], rows[i].backend))

\* A finished row ends as its episode.
LEMMA DoneEndsAlike == RolloutInv => RowsEndAlike
<1> SUFFICES ASSUME RolloutInv, stage = "done", NEW i \in DOMAIN rows
             PROVE  EndsAs(rows[i], EpisodeOf(rows[i], rows[i].backend))
  BY DEF RowsEndAlike
<1> DEFINE e == EpisodeOf(rows[i], rows[i].backend)
           r == rows[i]
<1>1. ~r.active /\ Matches(r, e) /\ e.over
  BY DoneRowIs
<1> SUFFICES EndsAs(r, e)
  OBVIOUS
<1> HIDE DEF e, r
<1>2. r.failure = e.failure
  BY <1>1 DEF Matches
<1>3. /\ r.answer = e.prediction /\ r.invalid = e.invalid /\ r.searches = Len(e.queries)
      /\ ToSet(r.retrieved) = e.retrieved
  BY <1>1 DEF Matches
<1> QED
  BY <1>1, <1>2, <1>3 DEF EndsAs

\* The evaluator sees what the policy was shown and what quotes hid from it.
LEMMA SeenButHidden == RolloutInv => QuotesHideTitles
<1> SUFFICES ASSUME RolloutInv, stage = "done", NEW i \in DOMAIN rows
             PROVE  EpisodeOf(rows[i], rows[i].backend).observed
                      = ToSet(rows[i].observed) \cup Hidden(rows[i])
  BY DEF QuotesHideTitles
<1> QED
  BY DoneRowIs

(***************************************************************************)
(* Whatever the policy says and whatever the stored contents look like, a  *)
(* finished batch gives every row the answer, the protocol failure, the    *)
(* malformed actions, the searches and the retrieved titles that the       *)
(* evaluator records for the same texts, and that record satisfies the     *)
(* contract of its readers; the evaluator credits the row with the titles  *)
(* that it was shown in training and with those that quotes hid from its   *)
(* searches, and with no other.                                            *)
(***************************************************************************)
THEOREM TrainingIsEvaluation == RolloutSpec => []TrainingMatchesEvaluation
<1>1. RolloutInv => TrainingMatchesEvaluation
  BY DoneIsLegal, DoneEndsAlike, SeenButHidden DEF RowsEndAlike, TrainingMatchesEvaluation
<1> QED
  BY <1>1, RolloutInvariance, PTL

\* A search hides nothing if its result quotes nothing, or if the budget has room for
\* every header of the result, the quoted ones included.
ShowsAll(b, text) ==
  LET action  == ParseAction(text)
      results == Search(b, action.value)
  IN  action.kind = "search" =>
        (\A i \in DOMAIN results: ~results[i].quoted) \/ Shown(results) = DOMAIN results

OnlyQuotesAtTheBudgetHide ==
  stage = "done" =>
    \A i \in DOMAIN rows:
      (\A k \in SearchTurns(rows[i]): ShowsAll(rows[i].backend, rows[i].script[k])) =>
        ToSet(rows[i].observed) = EpisodeOf(rows[i], rows[i].backend).observed

\* A text that shows everything hides nothing.
LEMMA NothingIsHidden ==
  ASSUME NEW b \in Backends, NEW text, Sayable(text), ShowsAll(b, text)
  PROVE  HiddenBy(b, text) = {}
<1> DEFINE action == ParseAction(text)
           results == Search(b, action.value)
<1>1. CASE action.kind # "search"
  BY <1>1 DEF HiddenBy
<1>2. CASE action.kind = "search"
  <2>1. Answerable(action.value) /\ b \in Everywhere
    BY <1>2 DEF Sayable, Everywhere
  <2>2. results \in Seq(Documents)
    BY <2>1, SearchIs
  <2>3. (\A i \in DOMAIN results: ~results[i].quoted) \/ Shown(results) = DOMAIN results
    BY <1>2 DEF ShowsAll
  <2>4. HiddenBy(b, text)
          = ToSet(ObservedTitles(Normalized(results))) \ ToSet(ObservedTitles(results))
    BY <1>2 DEF HiddenBy
  <2> HIDE DEF results
  <2>5. ToSet(ObservedTitles(Normalized(results))) = ToSet(ObservedTitles(results))
    BY <2>2, <2>3, QuotesOnlyHide
  <2> QED
    BY <2>4, <2>5
<1> QED
  BY <1>1, <1>2

\* A row whose searches show everything has seen what the evaluator sees.
LEMMA SeenAlike == RolloutInv => OnlyQuotesAtTheBudgetHide
<1> SUFFICES ASSUME RolloutInv, stage = "done", NEW i \in DOMAIN rows,
                    \A k \in SearchTurns(rows[i]): ShowsAll(rows[i].backend, rows[i].script[k])
             PROVE  ToSet(rows[i].observed) = EpisodeOf(rows[i], rows[i].backend).observed
  BY DEF OnlyQuotesAtTheBudgetHide
<1> DEFINE s == rows[i].script
           b == rows[i].backend
<1>1. /\ plan.turns \in Nat /\ b \in Backends /\ IsScript(s)
      /\ EpisodeOf(rows[i], b).observed = ToSet(rows[i].observed) \cup Hidden(rows[i])
  BY DoneRowIs
<1>2. \A k \in SearchTurns(rows[i]): k \in DOMAIN s
  <2>1. Len(s) \in Nat /\ DOMAIN s = 1..Len(s)
    BY <1>1, ListIs DEF IsScript
  <2> HIDE DEF s
  <2>2. \A k \in 1..Min({Len(s), plan.turns}): k \in 1..Len(s)
    BY <1>1, <2>1, SearchTurnsGrow
  <2> QED
    BY <2>1, <2>2 DEF SearchTurns, s
<1>3. \A k \in SearchTurns(rows[i]): HiddenBy(b, s[k]) = {}
  <2> SUFFICES ASSUME NEW k \in SearchTurns(rows[i]) PROVE HiddenBy(b, s[k]) = {}
    OBVIOUS
  <2>1. Sayable(s[k]) /\ ShowsAll(b, s[k])
    BY <1>1, <1>2 DEF IsScript
  <2> HIDE DEF b, s
  <2> QED
    BY <1>1, <2>1, NothingIsHidden
<1>4. Hidden(rows[i]) = {}
  BY <1>3 DEF Hidden
<1> QED
  BY <1>1, <1>4

(***************************************************************************)
(* Training and evaluation show a row the same titles unless one of its    *)
(* searches has both a quoted title and a header that the budget of tokens *)
(* leaves no room for: nothing else hides a title.                         *)
(***************************************************************************)
THEOREM OnlyQuotesHide == RolloutSpec => []OnlyQuotesAtTheBudgetHide
<1>1. RolloutInv => OnlyQuotesAtTheBudgetHide
  BY SeenAlike
<1> QED
  BY <1>1, RolloutInvariance, PTL

(***************************************************************************)
(* The reward and the batch                                                *)
(***************************************************************************)

\* The rows that the trainer keeps are rows of the batch, in their places.
LEMMA KeptIs ==
  ASSUME RolloutInv
  PROVE  /\ \E n \in Nat, m \in Nat:
              /\ DOMAIN rows = 1..n /\ DOMAIN Batch(plan) = 1..n /\ m <= n
              /\ Kept = [i \in 1..m |-> rows[i]]
              /\ plan.mode = "validation" =>
                   /\ m = Len(plan.prompts)
                   /\ n = m + Padding(m, plan.workers) /\ Batch(plan) = PaddedBatch(m, plan.workers)
<1>1. PICK n \in Nat: DOMAIN Batch(plan) = 1..n /\ DOMAIN rows = 1..n
  BY HereIs DEF RolloutInv
<1>2. rows = [i \in 1..n |-> rows[i]]
  <2>1. rows = [i \in DOMAIN Batch(plan) |-> rows[i]]
    BY DEF RolloutInv, InPlace
  <2> QED
    BY <1>1, <2>1
<1>3. IsList(rows) /\ Len(rows) = n
  BY <1>1, <1>2, SegmentIsList
<1>4. CASE plan.mode # "validation"
  <2>1. Kept = [i \in 1..n |-> rows[i]]
    BY <1>2, <1>4 DEF Kept
  <2>2. n <= n
    OBVIOUS
  <2> QED
    BY <1>1, <1>4, <2>1, <2>2
<1>5. CASE plan.mode = "validation"
  <2> DEFINE m == Len(plan.prompts)
             k == Padding(m, plan.workers)
  <2>1. m \in Nat \ {0} /\ plan.workers \in Nat \ {0}
    BY PlanIs DEF RolloutInv, Typed
  <2>2. Batch(plan) = PaddedBatch(m, plan.workers)
    BY <1>5 DEF Batch
  <2>3. k \in Nat
    BY <2>1, PaddingIs
  <2>4. n = m + k
    <3>1. DOMAIN Batch(plan) = 1..(m + k)
      BY <2>2 DEF PaddedBatch
    <3> HIDE DEF m, k
    <3>2. m + k \in Nat
      BY <2>1, <2>3
    <3>3. 1..n = 1..(m + k)
      BY <1>1, <3>1
    <3> QED
      BY <1>1, <3>2, <3>3
  <2>5. Kept = SubSeq(rows, 1, Len(rows) - k)
    BY <1>5 DEF Kept
  <2> HIDE DEF k, m
  <2>6. Len(rows) - k = m
    BY <1>3, <2>1, <2>3, <2>4
  <2>7. SubSeq(rows, 1, m) = [i \in 1..m |-> rows[i]]
    <3>1. rows \in Seq(Range(rows))
      BY <1>3 DEF IsList
    <3>2. m \in Nat /\ m <= Len(rows)
      BY <1>3, <2>1, <2>3, <2>4
    <3>3. \A i \in 1..m: 1 + i - 1 = i
      BY <3>2
    <3> QED
      BY <3>1, <3>2, <3>3
  <2>8. Kept = [i \in 1..m |-> rows[i]]
    BY <2>5, <2>6, <2>7
  <2>9. m \in Nat /\ m <= n
    BY <2>1, <2>3, <2>4
  <2> QED
    BY <1>1, <2>2, <2>4, <2>8, <2>9 DEF k, m
<1> QED
  BY <1>4, <1>5

\* The batch is even, and what is kept of it are the source rows.
LEMMA EachRowIsScored == RolloutInv => ValidationScoresEachRow
<1> SUFFICES ASSUME RolloutInv, plan.mode = "validation"
             PROVE  /\ Len(rows) % plan.workers = 0
                    /\ [i \in DOMAIN Kept |-> Kept[i].prompt] = [i \in DOMAIN plan.prompts |-> i]
  BY DEF ValidationScoresEachRow
<1> DEFINE k == Padding(Len(plan.prompts), plan.workers)
<1>1. PICK n \in Nat, m \in Nat:
        /\ DOMAIN rows = 1..n /\ DOMAIN Batch(plan) = 1..n /\ m <= n
        /\ Kept = [i \in 1..m |-> rows[i]]
        /\ m = Len(plan.prompts)
        /\ n = m + Padding(m, plan.workers) /\ Batch(plan) = PaddedBatch(m, plan.workers)
  BY KeptIs
<1>2. m \in Nat \ {0} /\ plan.workers \in Nat \ {0} /\ DOMAIN plan.prompts = 1..m
  BY <1>1, PlanIs DEF RolloutInv, Typed
<1>3. rows = [i \in 1..n |-> rows[i]]
  <2>1. rows = [i \in DOMAIN Batch(plan) |-> rows[i]]
    BY DEF RolloutInv, InPlace
  <2> QED
    BY <1>1, <2>1
<1>4. Len(rows) = n
  BY <1>1, <1>3, SegmentIsList
<1>5. Len(rows) % plan.workers = 0
  <2>1. (m + Padding(m, plan.workers)) % plan.workers = 0
    BY <1>2, PaddingIs
  <2> QED
    BY <1>1, <1>4, <2>1
<1>6. ASSUME NEW i \in 1..m PROVE rows[i].prompt = i
  <2>1. i \in 1..n
    BY <1>1
  <2>2. rows[i].prompt = Batch(plan)[i]
    BY <1>1, <2>1, Zenon DEF RolloutInv, InPlace
  <2>3. PaddedBatch(m, plan.workers)[i] = ((i - 1) % m) + 1
    BY <1>1, <2>1 DEF PaddedBatch
  <2>4. (i - 1) % m = i - 1
    BY <1>2
  <2>5. (i - 1) + 1 = i
    OBVIOUS
  <2>6. Batch(plan)[i] = PaddedBatch(m, plan.workers)[i]
    BY <1>1, Zenon
  <2> HIDE DEF k
  <2> QED
    BY <2>2, <2>3, <2>4, <2>5, <2>6
<1>7. [i \in DOMAIN Kept |-> Kept[i].prompt] = [i \in 1..m |-> i]
  BY <1>1, <1>6
<1> QED
  BY <1>2, <1>5, <1>7

(***************************************************************************)
(* A validation batch fills the workers evenly, and what is kept of it is  *)
(* every source row once, in order.                                        *)
(***************************************************************************)
THEOREM EverySourceRowIsScored == RolloutSpec => []ValidationScoresEachRow
<1>1. RolloutInv => ValidationScoresEachRow
  BY EachRowIsScored
<1> QED
  BY <1>1, RolloutInvariance, PTL

\* A finished row is paid by the metrics of its episode.
LEMMA DoneIsPaid ==
  ASSUME RolloutInv, stage = "done", NEW i \in DOMAIN rows
  PROVE  IsPaid(rows[i], Row(EpisodeOf(rows[i], rows[i].backend)))
<1> DEFINE r == rows[i]
           e == EpisodeOf(rows[i], rows[i].backend)
           gold == Cardinality(Gold)
           em == Row(e).em
<1>1. /\ plan.turns \in Nat /\ Fits(r) /\ ~r.active /\ Matches(r, e) /\ Sound(e, plan.turns)
      /\ e.observed = ToSet(r.observed) \cup Hidden(r)
      /\ Trajectory(r) \in Nat /\ Windowed(r, Trajectory(r))
  BY DoneRowIs
<1>2. /\ Row(e).queries = e.queries /\ Row(e).failure = e.failure
      /\ em = IF e.failure = 1 THEN 0 ELSE ExactMatch(e.prediction)
  BY RowIs DEF Row
<1>3. gold \in Nat
  BY FS_CardinalityType, ProtocolAssumption
<1>4. Row(e).recall = Covered(e.observed)
  BY <1>1, LastTurnIs DEF Sound, TurnsAreSound
<1> SUFFICES IsPaid(r, Row(e))
  OBVIOUS
<1> HIDE DEF r, e
<1>5. r.failure = e.failure
  BY <1>1 DEF Matches
<1>6. r.answer = e.prediction /\ r.searches = Len(e.queries)
  BY <1>1 DEF Matches
<1> DEFINE seen == Row(e).recall - Cardinality(Missed(r))
<1>7. Covered(ToSet(r.observed)) = seen
  <2> DEFINE S == Gold \cap ToSet(r.observed)
             T == Missed(r)
  <2>1. Gold \cap e.observed = S \cup T /\ S \cap T = {} /\ S \subseteq Gold /\ T \subseteq Gold
    BY <1>1 DEF Missed
  <2>2. Covered(e.observed) = Cardinality(S \cup T) /\ Covered(ToSet(r.observed)) = Cardinality(S)
    BY <2>1 DEF Covered
  <2> HIDE DEF S, T
  <2>3. IsFiniteSet(S) /\ IsFiniteSet(T)
    BY <2>1, ProtocolAssumption, FS_Subset
  <2>4. Cardinality(S) \in Nat /\ Cardinality(T) \in Nat
    BY <2>3, FS_CardinalityType
  <2>5. Cardinality(S \cup T) = Cardinality(S) + Cardinality(T)
    <3>1. Cardinality(S \cup T) = Cardinality(S) + Cardinality(T) - Cardinality(S \cap T)
      BY <2>3, FS_Union
    <3>2. Cardinality({}) = 0
      BY FS_EmptySet
    <3>3. Cardinality(S \cap T) = 0
      BY <2>1, <3>2
    <3> QED
      BY <2>4, <3>1, <3>3
  <2>6. Row(e).recall - Cardinality(T) = Cardinality(S)
    BY <1>4, <2>2, <2>4, <2>5
  <2> QED
    BY <2>2, <2>6 DEF T
<1>8. r.truncated \in {0, 1} /\ e.failure \in {0, 1} /\ Len(e.queries) \in Nat
  BY <1>1, ListIs DEF Fits, Sound, Counted
<1>9. em \in {0, 1}
  BY <1>2 DEF ExactMatch
<1>10. Covered(ToSet(r.observed)) \in Nat /\ (r.truncated = 0 <=> Trajectory(r) <= MaxResponse)
  BY <1>1, CoveredIs DEF Windowed
<1>11. AnswerScore(r) = IF r.truncated = 0 THEN em ELSE 0
  BY <1>2, <1>5, <1>6, <1>8 DEF AnswerScore
<1>12. EvidenceScore(r) = IF e.failure = 1 THEN 0 ELSE seen
  BY <1>5, <1>7 DEF EvidenceScore
<1> DEFINE whole == r.truncated = 0
           paid == em * 50 * gold + (IF Row(e).failure = 1 THEN 0 ELSE 25 * seen)
                   - Len(Row(e).queries) * gold
<1>13. AnswerReward(r) = IF whole THEN em * 50 * gold ELSE 0
  <2> HIDE DEF em, gold
  <2>1. AnswerReward(r) = AnswerScore(r) * 50 * gold
    BY DEF AnswerReward, gold
  <2>2. CASE whole
    BY <1>11, <2>1, <2>2
  <2>3. CASE ~whole
    BY <1>3, <1>11, <2>1, <2>3
  <2> QED
    BY <2>2, <2>3
<1>14. RewardWithEvidence(r) = IF whole THEN paid ELSE 0
  <2>1. CASE ~whole
    BY <1>8, <2>1 DEF RewardWithEvidence
  <2>2. CASE whole
    <3>1. RewardWithEvidence(r) = em * 50 * gold + 25 * EvidenceScore(r) - r.searches * gold
      BY <1>11, <2>2 DEF RewardWithEvidence
    <3>2. 25 * EvidenceScore(r) = IF Row(e).failure = 1 THEN 0 ELSE 25 * seen
      BY <1>2, <1>12
    <3>3. r.searches = Len(Row(e).queries)
      BY <1>2, <1>6
    <3> HIDE DEF em, gold
    <3>4. RewardWithEvidence(r) = paid
      BY <3>1, <3>2, <3>3
    <3> QED
      BY <2>2, <3>4
  <2> QED
    BY <2>1, <2>2
<1> QED
  BY <1>10, <1>13, <1>14 DEF IsPaid

\* So is every row that is kept.
LEMMA BatchIsPaid == RolloutInv => RewardIsTheMetric
<1> SUFFICES ASSUME RolloutInv, stage = "done", NEW row \in ToSet(Kept)
             PROVE  IsPaid(row, Row(EpisodeOf(row, row.backend)))
  BY DEF RewardIsTheMetric
<1>1. PICK n \in Nat, m \in Nat: DOMAIN rows = 1..n /\ m <= n /\ Kept = [i \in 1..m |-> rows[i]]
  BY KeptIs
<1>2. PICK i \in 1..m: row = rows[i]
  BY <1>1 DEF ToSet
<1>3. i \in DOMAIN rows
  BY <1>1
<1> QED
  BY <1>2, <1>3, DoneIsPaid

(***************************************************************************)
(* Whatever the stored contents look like, the answer reward of a row is   *)
(* the evaluator's EM, and the evidence reward EM + 0.5 recall - 0.02      *)
(* searches, without the recall of a protocol failure and of the gold      *)
(* titles that quotes hid; a trajectory whose texts and results do not fit *)
(* the trainer's window gets exactly zero.                                 *)
(***************************************************************************)
THEOREM RewardIsTheEvaluators == RolloutSpec => []RewardIsTheMetric
<1>1. RolloutInv => RewardIsTheMetric
  BY BatchIsPaid
<1> QED
  BY <1>1, RolloutInvariance, PTL
=============================================================================
