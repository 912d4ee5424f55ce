---------------------------- MODULE PolicyReport ----------------------------
(***************************************************************************)
(* The results of the Hard-RQ0 policies as a table, and what is computed   *)
(* from it: the grid of cells of an evaluation (hard_policy_eval.py), the  *)
(* conditions under which the results of all policies are comparable       *)
(* (validate_hard_results.py) and the report (hard_rq0_report.py).         *)
(*                                                                         *)
(* A row is [key, run]: the cell <<question, backend, topk>> it answers    *)
(* and the evaluation that measured it. What it measured is Measured(row). *)
(* The metrics of the source are treated alike; one stands for them all.   *)
(* A mean is kept as a sum whose denominator its users know.               *)
(***************************************************************************)
EXTENDS Integers, Sequences, FiniteSets, TLC, SequencesExt, FiniteSetsExt, Functions

CONSTANTS
  Questions,      \* the rows of the evaluation file: <<name, dataset>>, in order
  Topks,          \* the top-k values of the evaluation
  PrimaryTopk,    \* PRIMARY_TOPK: the top-k of the primary decision (3)
  MinSeeds,       \* the seeds a report needs (3)
  MinConfirmatory,\* MIN_CONFIRMATORY_SEEDS: the seeds of a confirmatory one (8)
  Threshold,      \* --threshold in hundredths of the metric's unit
  Unit,           \* the measured value that stands for 1.0
  Measured(_)     \* [turn1, turn3, score]: what an episode measured, of 0..Unit

ASSUME TableAssumption ==
  /\ Questions \in Seq(STRING \X STRING)
  /\ IsInjective(Questions) /\ Questions # <<>>
  /\ Topks \in Seq(Nat \ {0})
  /\ {PrimaryTopk, MinSeeds, MinConfirmatory, Unit} \subseteq Nat \ {0}
  /\ Threshold \in Nat

Backends == <<"bm25", "e5">>

BaseTag == "base-qwen"
Specialists == {"bm25-specialist", "e5-specialist"}
HomeOf == [tag \in Specialists |-> IF tag = "bm25-specialist" THEN "bm25" ELSE "e5"]

DatasetOf(q) == q[2]
Datasets == {DatasetOf(Questions[i]) : i \in DOMAIN Questions}

QuestionOf(row) == row.key[1]
BackendOf(row) == row.key[2]
TopkOf(row) == row.key[3]
PolicyOf(row) == row.run.policy

Product(f) == FoldFunction(LAMBDA n, rest : n * rest, 1, f)

-----------------------------------------------------------------------------
(***************************************************************************)
(* A limit takes the first rows of every dataset in turn.                  *)
(***************************************************************************)
Rank(i) == Cardinality({j \in 1..i : DatasetOf(Questions[j]) = DatasetOf(Questions[i])})

FirstIn(dataset) ==
  Min({i \in DOMAIN Questions : DatasetOf(Questions[i]) = dataset})

TakenBefore(i, j) ==
  \/ Rank(i) < Rank(j)
  \/ /\ Rank(i) = Rank(j)
     /\ FirstIn(DatasetOf(Questions[i])) < FirstIn(DatasetOf(Questions[j]))

Limited(limit) ==
  IF limit >= Len(Questions) THEN Questions
  ELSE LET order == SetToSortSeq(DOMAIN Questions, TakenBefore)
       IN [n \in 1..limit |-> Questions[order[n]]]

\* The cells of an evaluation, in the order of its jobs.
Grid(questions) ==
  LET perQuestion == Len(Backends) * Len(Topks)
  IN [n \in 1..(Len(questions) * perQuestion) |->
       <<questions[(n - 1) \div perQuestion + 1],
         Backends[(((n - 1) \div Len(Topks)) % Len(Backends)) + 1],
         Topks[((n - 1) % Len(Topks)) + 1]>>]

-----------------------------------------------------------------------------
(***************************************************************************)
(* validate_frame: every policy and seed of the selection answered every   *)
(* cell of the base policy's full grid once, in one evaluation.            *)
(***************************************************************************)
PoliciesOf(rows) == {PolicyOf(row) : row \in rows}

SeedsOf(rows, tag) ==
  {policy.seed : policy \in {p \in PoliciesOf(rows) : p.tag = tag}}

KeysOf(rows, policy) == {row.key : row \in {r \in rows : PolicyOf(r) = policy}}

BasePolicy == [tag |-> BaseTag, seed |-> 0]

Asked(rows) == {key[1] : key \in KeysOf(rows, BasePolicy)}

ValidFrame(frame, seeds) ==
  LET rows == Range(frame)
  IN /\ frame # <<>>
     /\ {policy.tag : policy \in PoliciesOf(rows)} = Specialists \cup {BaseTag}
     /\ {BackendOf(row) : row \in rows} = Range(Backends)
     /\ {TopkOf(row) : row \in rows} = Range(Topks)
     /\ {DatasetOf(QuestionOf(row)) : row \in rows} = Datasets
     /\ Cardinality({row.run.eval : row \in rows}) = 1
     /\ Cardinality({row.run : row \in rows}) = Cardinality(PoliciesOf(rows))
     /\ SeedsOf(rows, BaseTag) = {0}
     /\ \A tag \in Specialists : SeedsOf(rows, tag) = seeds
     /\ Cardinality({<<PolicyOf(row), row.key>> : row \in rows}) = Len(frame)
     /\ \A policy \in PoliciesOf(rows) :
          KeysOf(rows, policy) = Asked(rows) \X Range(Backends) \X Range(Topks)

-----------------------------------------------------------------------------
(***************************************************************************)
(* The report joins rows on their cells. Cell(rows, policy, key) is the    *)
(* measurement the join finds; a join refuses a table in which it is not   *)
(* unique.                                                                 *)
(***************************************************************************)
Matched(rows) ==
  /\ \A policy \in PoliciesOf(rows) : KeysOf(rows, policy) = KeysOf(rows, BasePolicy)
  /\ Cardinality({<<PolicyOf(row), row.key>> : row \in rows}) = Cardinality(rows)

SpecialistSeeds(rows) == UNION {SeedsOf(rows, tag) : tag \in Specialists}

SpecialistsAvailable(rows) ==
  /\ {BaseTag} \cup Specialists \subseteq {policy.tag : policy \in PoliciesOf(rows)}
  /\ \A tag \in Specialists : SeedsOf(rows, tag) = SpecialistSeeds(rows)
  /\ Cardinality(SpecialistSeeds(rows)) >= MinSeeds

Cell(rows, policy, key) ==
  Measured(CHOOSE row \in rows : PolicyOf(row) = policy /\ row.key = key)

Units(rows) == {<<QuestionOf(row), TopkOf(row)>> : row \in rows}

BaseCell(rows, unit, b) == Cell(rows, BasePolicy, <<unit[1], b, unit[2]>>)

(***************************************************************************)
(* A unit is hard when the base policy found at most half of the support   *)
(* in its first turn on both backends; it is kept when the base policy     *)
(* itself recovers by its third turn on some backend.                      *)
(***************************************************************************)
BestOf(rows, unit, turn) == Max({BaseCell(rows, unit, b)[turn] : b \in Range(Backends)})

MatchedHard(rows) ==
  {unit \in Units(rows) :
     /\ 2 * BestOf(rows, unit, "turn1") <= Unit
     /\ BestOf(rows, unit, "turn3") > BestOf(rows, unit, "turn1")}

GainOverBase(rows, policy, key) ==
  Cell(rows, policy, key).score - Cell(rows, BasePolicy, key).score

Away(b) == IF b = "bm25" THEN "e5" ELSE "bm25"

(***************************************************************************)
(* The gain on the backend a specialist was trained with, less its gain on *)
(* the other.                                                              *)
(***************************************************************************)
HomeExcess(rows, policy, unit) ==
  LET home == HomeOf[policy.tag]
  IN GainOverBase(rows, policy, <<unit[1], home, unit[2]>>)
       - GainOverBase(rows, policy, <<unit[1], Away(home), unit[2]>>)

\* The units of a cell of the summary that are among the given ones.
UnitsIn(units, dataset, k) ==
  {unit \in units : DatasetOf(unit[1]) = dataset /\ unit[2] = k}

Policy(tag, seed) == [tag |-> tag, seed |-> seed]

\* The excess of a seed, summed over the units.
SeedExcess(rows, tag, seed, units) ==
  SumFunction([unit \in units |-> HomeExcess(rows, Policy(tag, seed), unit)])

-----------------------------------------------------------------------------
(***************************************************************************)
(* exact_one_sided_sign_flip, as the number of the sign vectors whose sum  *)
(* is no less than the observed one; the p-value is that over 2^n.         *)
(***************************************************************************)
SignFlip(values) ==
  Cardinality({signs \in [DOMAIN values -> {-1, 1}] :
                 SumFunction([s \in DOMAIN values |-> signs[s] * values[s]])
                   >= SumFunction(values)})

\* Mutant of HolmAdjust: a later p-value may fall below an earlier one.
HolmUnordered(tests, one) ==
  [t \in tests |-> Min({one, t.p * Cardinality({u \in tests : u.p >= t.p})})]

(***************************************************************************)
(* holm_adjust: the p-values in ascending order, each times the number of  *)
(* hypotheses not yet passed, never below the one before, at most `one`.   *)
(* A test is [group, p]; equal p-values are taken in the order of groups.  *)
(***************************************************************************)
HolmAdjust(tests, one) ==
  LET place(t)   == Cardinality({u \in tests : u.p < t.p \/ (u.p = t.p /\ u.group <= t.group)})
      product(t) == (Cardinality(tests) - place(t) + 1) * t.p
      passed(t)  == {u \in tests : place(u) <= place(t)}
  IN [t \in tests |-> Min({one, Max({product(u) : u \in passed(t)})})]

\* All pairs of elements, those with the first one of a first.
Pairs(a, b) ==
  [n \in 1..(Len(a) * Len(b)) |->
     <<a[((n - 1) \div Len(b)) + 1], b[((n - 1) % Len(b)) + 1]>>]

\* The groups of the summary; those without a unit are left out of it.
AllCells ==
  Pairs(Pairs(<<"all", "matched-hard">>, SetToSeq(Specialists)),
        Pairs(SetToSeq(Datasets), SetToSeq(Range(Topks))))

\* p-values are counted in units of 2^-n, n the number of seeds.
HomeExcessSummary(rows) ==
  LET seeds == SpecialistSeeds(rows)
      all == Units(rows)
      hard == MatchedHard(rows)
      units(c) == UnitsIn(IF c[1][1] = "all" THEN all ELSE hard, c[2][1], c[2][2])
      test(i) == LET c == AllCells[i]
                 IN [group |-> i,
                     p |-> SignFlip([s \in seeds |-> SeedExcess(rows, c[1][2], s, units(c))])]
      tests == {test(i) : i \in {j \in DOMAIN AllCells : units(AllCells[j]) # {}}}
      adjusted == HolmAdjust(tests, 2^Cardinality(seeds))
  IN {<<AllCells[t.group], t.p, adjusted[t]>> : t \in tests}

-----------------------------------------------------------------------------
(***************************************************************************)
(* primary_interaction. The strata of a seed are averaged alike, whatever  *)
(* the number of their questions; Scale is their common denominator, and   *)
(* Weight what it is of the number of questions of a stratum.              *)
(***************************************************************************)
CountIn(rows, dataset) == Cardinality(UnitsIn(Units(rows), dataset, PrimaryTopk))

Scale(rows) == Product([d \in Datasets |-> CountIn(rows, d)])

Weight(rows, dataset) == Product([d \in Datasets \ {dataset} |-> CountIn(rows, d)])

PerSeed(rows, seed) ==
  SumFunction([stratum \in Specialists \X Datasets |->
    SeedExcess(rows, stratum[1], seed, UnitsIn(Units(rows), stratum[2], PrimaryTopk))
      * Weight(rows, stratum[2])])

Strata == Cardinality(Specialists \X Datasets)

\* The squares of T_CRITICAL_975, in hundredths, for 1 to 7 degrees of freedom.
CriticalSquared == <<16144, 1852, 1013, 771, 661, 599, 559>>

(***************************************************************************)
(* The mean reaches the threshold and the lower end of its Student         *)
(* interval is above zero: mean > t * std / sqrt(n), squared and freed of  *)
(* its denominators.                                                       *)
(***************************************************************************)
Signal(values, scale) ==
  LET n == Cardinality(DOMAIN values)
      sum == SumFunction(values)
      squares == SumFunction([s \in DOMAIN values |-> values[s] * values[s]])
  IN /\ 100 * sum >= Threshold * n * scale
     /\ n > 1
     /\ sum > 0
     /\ 100 * sum * sum * (n - 1) > CriticalSquared[n - 1] * (n * squares - sum * sum)

PrimaryInteraction(rows) ==
  LET seeds == SpecialistSeeds(rows)
      signal == Signal([s \in seeds |-> PerSeed(rows, s)], Strata * Scale(rows) * Unit)
  IN IF Cardinality(seeds) >= MinConfirmatory
     THEN IF signal THEN "GO" ELSE "NO-GO"
     ELSE IF signal THEN "EXPLORATORY-SIGNAL" ELSE "EXPLORATORY-NO-SIGNAL"

(***************************************************************************)
(* What main of hard_rq0_report.py writes; it fails on a table it cannot   *)
(* join, or without the primary interaction.                               *)
(***************************************************************************)
PrimaryIsMeasured(rows) == \E unit \in Units(rows) : unit[2] = PrimaryTopk

CanReport(rows) == SpecialistsAvailable(rows) /\ Matched(rows) /\ PrimaryIsMeasured(rows)

Report(rows) ==
  [matched |-> MatchedHard(rows),
   holm |-> HomeExcessSummary(rows),
   decision |-> PrimaryInteraction(rows)]
=============================================================================
