--------------------------- MODULE HardResultsProofs ---------------------------
(***************************************************************************)
(* Theorems about HardResults, for any requests, questions, workers and    *)
(* number of runs, edits and faults: a completion marker tells the truth   *)
(* about the disk, no answer is lost or asked twice, what node 2 accepts   *)
(* was measured with the checkpoints it compares, and a published report   *)
(* is the one its own definitions give.                                    *)
(***************************************************************************)
EXTENDS HardResults, FiniteSetTheorems, WellFoundedInduction, TLAPS

----------------------------------------------------------------------------
(* What the variables hold.                                                *)

Sizes == 1..Len(Questions)
Cells == UNION {Range(Grids[n]) : n \in Sizes}
Evals == [data : 0..MaxEdits, evaluator : 0..MaxEdits, asked : Sizes]
Runs == [policy : Policies, eval : Evals, model : Nat, seeds : {r.seeds : r \in Requests}]
Rows == [key : Cells, run : Runs]

Kinds == {"prepare", "unselected", "train", "evaluate", "report", "complete"}
AllSteps == [does : Kinds, policy : Policies \cup {None}]

Sources == [data : (0..MaxEdits) \cup {None}, training : 0..MaxEdits]
Checkpoints == [signature : Sources, model : Nat \ {0}]
Trainings == [does : {"train"}, policy : SpecialistPolicies, signature : Sources]
Evaluators ==
  [does : {"evaluate"}, policy : Policies, id : Runs, done : SUBSET Cells,
   rewritten : BOOLEAN, buffer : Seq(Rows)]

TypeInv ==
  /\ tree \in [{"data", "evaluator", "training"} -> 0..MaxEdits]
  /\ \A what \in DOMAIN tree : tree[what] <= used.edits
  /\ data \in (0..MaxEdits) \cup {None}
  /\ trained \in [SpecialistPolicies -> Checkpoints \cup {None}]
  /\ \A p \in SpecialistPolicies : trained[p] = None \/ trained[p].model <= used.trainings
  /\ files \in [Policies -> Seq(Rows)]
  /\ run = None \/ run \in [request : Requests, todo : Seq(AllSteps)]
  /\ proc = None \/ proc \in Trainings \/ proc \in Evaluators
  /\ watch = [at |-> watch.at, payload |-> watch.payload, left |-> watch.left]
  /\ watch.left \in Seq(SpecialistPolicies)
  /\ used \in [runs : Nat, edits : 0..MaxEdits, faults : Nat, trainings : Nat]

\* A row is in the file of its policy, and answers a cell of its evaluation.
RowsAreInPlace ==
  \A p \in Policies : \A row \in Range(files[p]) :
    row.run.policy = p /\ row.key \in Range(GridOf(row.run.eval))

----------------------------------------------------------------------------
(* The steps a run has left: the data first, each training before its      *)
(* evaluation, the completion last.                                        *)

InPlan(todo, step) == \E i \in 1..Len(todo) : todo[i] = step

IsSound(todo, request) ==
  /\ todo # <<>>
  /\ \A i \in 1..Len(todo) :
       /\ todo[i].does = "complete" <=> i = Len(todo)
       /\ todo[i].does = "prepare" =>
            i = 1 /\ \A p \in Selected(request) : InPlan(todo, Step("evaluate", p))
       /\ todo[i].does = "train" =>
            /\ todo[i].policy \in SpecialistPolicies
            /\ \E j \in (i + 1)..Len(todo) : todo[j] = Step("evaluate", todo[i].policy)
       /\ todo[i].does = "evaluate" => todo[i].policy \in Selected(request)

PlanIsSound == run # None => IsSound(run.todo, run.request)

UnselectedAreAway ==
  run # None /\ ~InPlan(run.todo, Step("unselected", None)) =>
    \A p \in Policies \ Selected(run.request) : files[p] = <<>>

\* A training of the run is its next step; so is an evaluation, which goes on
\* under the signature it started with.
TrainingIsNext ==
  run # None /\ proc # None /\ proc.does = "train" =>
    Head(run.todo) = Step("train", proc.policy)

EvaluationIsNext ==
  Evaluating =>
    /\ run # None
    /\ Head(run.todo) = Step("evaluate", proc.policy)
    /\ proc.id = RunSignature(proc.policy, run.request)

IsOfRun(row) == row.run = proc.id /\ row.key \in Range(Jobs)

\* Before its file is rewritten, an evaluator has archived what it will drop;
\* from then on what is done is in the file or the checkpoint.
CacheIsKept ==
  Evaluating /\ ~proc.rewritten =>
    /\ proc.buffer = <<>>
    /\ Stale(files[proc.policy], proc.id) \subseteq archive
    /\ \A row \in Range(files[proc.policy]) : IsOfRun(row) => row.key \in proc.done
    /\ \A key \in proc.done : \E row \in Range(files[proc.policy]) :
         row.key = key /\ IsOfRun(row)

DoneIsKept ==
  Evaluating /\ proc.rewritten =>
    /\ \A row \in Range(files[proc.policy]) \cup Range(proc.buffer) :
         IsOfRun(row) /\ row.key \in proc.done
    /\ \A key \in proc.done :
         \E row \in Range(files[proc.policy]) \cup Range(proc.buffer) : row.key = key

CheckpointIsShort == Evaluating => Len(proc.buffer) < CheckpointSize

\* A policy that the run is done with answered the whole grid, on the present
\* data and with the present checkpoint.
Answers(p, request, eval) ==
  LET keys == GridOf(eval)
  IN [i \in DOMAIN keys |->
        [key |-> keys[i],
         run |-> [policy |-> p, eval |-> eval, model |-> Model(p), seeds |-> request.seeds]]]

AskedOf(request) == Min({request.limit, Len(Questions)})

EvaluatedAreWhole ==
  run # None =>
    \A p \in Selected(run.request) : ~InPlan(run.todo, Step("evaluate", p)) =>
      \E e \in 0..MaxEdits :
        files[p] = Answers(p, run.request,
          [data |-> data, evaluator |-> e, asked |-> AskedOf(run.request)])

MarkerIsLast == run # None => marker = None

\* What the watcher holds was a true marker that names the seeds it requires.
IsTrueMarker(m) ==
  /\ m.eval.data = m.inputs.data
  /\ \A p \in Selected(m.request) : m.results[p] = ExpectedRows(m, p)

SoundWatch(w) ==
  /\ w.at \in {"poll", "data", "specialists", "ready"}
  /\ w.at # "poll" =>
       IsTrueMarker(w.payload)
       /\ Range(WatchSeeds) \subseteq Range(w.payload.request.seeds)
  /\ w.at = "specialists" => w.left # <<>>
  /\ Len(w.left) <= Len(Watched)
  /\ \A i \in 1..Len(w.left) :
       w.left[i] = Watched[Len(Watched) - Len(w.left) + i]

WatchIsSound == SoundWatch(watch)

IInv ==
  /\ TypeInv /\ RowsAreInPlace /\ PlanIsSound /\ UnselectedAreAway
  /\ TrainingIsNext /\ EvaluationIsNext /\ CacheIsKept /\ DoneIsKept
  /\ CheckpointIsShort /\ EvaluatedAreWhole /\ MarkerIsLast
  /\ MarkerIsTrue /\ MarkerDescribesDisk /\ WatchIsSound
----------------------------------------------------------------------------
(* The constants and the grids.                                            *)

LEMMA ConstantFacts ==
  /\ Questions \in Seq(STRING \X STRING) /\ Len(Questions) \in Nat /\ Len(Questions) > 0
  /\ Topks \in Seq(Nat \ {0}) /\ Len(Topks) \in Nat
  /\ Workers \in Nat /\ Workers > 0
  /\ MaxEdits \in Nat
  /\ WatchSeeds \in Seq(Nat) /\ WatchSeeds # <<>> /\ Len(WatchSeeds) \in Nat
  /\ Len(WatchSeeds) > 0
<1>1. /\ Questions \in Seq(STRING \X STRING) /\ Questions # <<>>
      /\ Topks \in Seq(Nat \ {0})
  BY TableAssumption
<1>2. /\ Workers \in Nat \ {0} /\ {MaxRuns, MaxEdits, MaxFaults} \subseteq Nat
      /\ WatchSeeds \in Seq(Nat) /\ WatchSeeds # <<>>
  BY RequestAssumption
<1> QED
  BY <1>1, <1>2

LEMMA RequestFacts ==
  ASSUME NEW request \in Requests
  PROVE  /\ request.seeds \in Seq(Nat) /\ Len(request.seeds) \in Nat
         /\ request.seeds # <<>> /\ Len(request.seeds) > 0
         /\ request.limit \in Nat /\ request.limit > 0
         /\ Range(request.seeds) \subseteq AllSeeds
         /\ IsInjective(request.seeds)
<1>1. /\ request.seeds \in Seq(Nat) /\ request.seeds # <<>> /\ request.limit \in Nat \ {0}
      /\ IsInjective(request.seeds)
  BY RequestAssumption
<1>2. Range(request.seeds) \subseteq AllSeeds
  BY DEF AllSeeds
<1> QED
  BY <1>1, <1>2

\* The smaller of two numbers.
LEMMA MinOfTwo ==
  ASSUME NEW a \in Nat, NEW b \in Nat
  PROVE  Min({a, b}) = IF a <= b THEN a ELSE b
BY DEF Min

LEMMA CheckpointHolds == CheckpointSize \in Nat /\ CheckpointSize > 0
<1>1. 32 \in Nat /\ Workers \in Nat /\ Workers > 0
  BY ConstantFacts
<1>2. Min({32, Workers}) = IF 32 <= Workers THEN 32 ELSE Workers
  BY <1>1, MinOfTwo
<1> QED
  BY <1>1, <1>2 DEF CheckpointSize

\* A request asks for the questions of its grid, however large its limit is.
LEMMA GridIsAsked ==
  ASSUME NEW request \in Requests
  PROVE  /\ AskedOf(request) \in Sizes
         /\ Limited(AskedOf(request)) = Limited(request.limit)
         /\ Grids[AskedOf(request)] = Grid(Limited(request.limit))
<1>1. /\ request.limit \in Nat /\ request.limit > 0
      /\ Len(Questions) \in Nat /\ Len(Questions) > 0
  BY RequestFacts, ConstantFacts
<1> DEFINE asked == AskedOf(request)
<1>2. asked = IF request.limit <= Len(Questions) THEN request.limit ELSE Len(Questions)
  BY <1>1, MinOfTwo DEF AskedOf
<1>3. asked \in Sizes
  BY <1>1, <1>2 DEF Sizes
<1>4. Limited(asked) = Limited(request.limit)
  <2>1. CASE request.limit <= Len(Questions)
    BY <1>2, <2>1
  <2>2. CASE ~(request.limit <= Len(Questions))
    <3>1. asked = Len(Questions) /\ request.limit >= Len(Questions) /\ asked >= Len(Questions)
      BY <1>1, <1>2, <2>2
    <3> QED
      BY <3>1 DEF Limited
  <2> QED
    BY <2>1, <2>2
<1>5. Grids[asked] = Grid(Limited(asked))
  BY <1>3 DEF Grids, Sizes
<1> QED
  BY <1>3, <1>4, <1>5

\* However large the limit is, the questions taken are a list.
LEMMA LimitedIs ==
  ASSUME NEW n \in Nat
  PROVE  Limited(n) \in Seq(Range(Limited(n))) /\ Len(Limited(n)) \in Nat
<1> DEFINE Q == Limited(n)
<1>1. Questions \in Seq(STRING \X STRING) /\ Len(Questions) \in Nat
  BY ConstantFacts
<1>2. \E k \in Nat : Q = [i \in 1..k |-> Q[i]]
  <2>1. CASE n >= Len(Questions)
    <3>1. Q = Questions
      BY <1>1, <2>1 DEF Limited
    <3>2. Questions = [i \in 1..Len(Questions) |-> Questions[i]]
      BY <1>1
    <3> HIDE DEF Q
    <3> QED
      BY <1>1, <3>1, <3>2
  <2>2. CASE ~(n >= Len(Questions))
    <3> DEFINE order == SetToSortSeq(DOMAIN Questions, TakenBefore)
    <3>1. Q = [m \in 1..n |-> Questions[order[m]]]
      BY <2>2 DEF Limited
    <3> HIDE DEF Q, order
    <3>2. Q = [m \in 1..n |-> Q[m]]
      BY <3>1
    <3> QED
      BY <3>2
  <2> QED
    BY <2>1, <2>2
<1> HIDE DEF Q
<1>3. PICK k \in Nat : Q = [i \in 1..k |-> Q[i]]
  BY <1>2
<1>4. \A i \in 1..k : Q[i] \in Range(Q)
  BY <1>3 DEF Range
<1>5. Q \in [1..k -> Range(Q)]
  BY <1>3, <1>4
<1>6. Q \in Seq(Range(Q)) /\ Len(Q) = k
  BY <1>5
<1> QED
  BY <1>3, <1>6 DEF Q

\* A grid is a list of cells.
LEMMA GridsAreLists ==
  ASSUME NEW n \in Sizes
  PROVE  Grids[n] \in Seq(Cells)
<1>1. /\ Questions \in Seq(STRING \X STRING) /\ Len(Questions) \in Nat
      /\ Topks \in Seq(Nat \ {0}) /\ Len(Topks) \in Nat
  BY ConstantFacts
<1>2. n \in Nat /\ n <= Len(Questions)
  BY <1>1 DEF Sizes
<1>3. Len(Limited(n)) \in Nat
  BY <1>2, LimitedIs
<1>4. Len(Backends) = 2
  BY DEF Backends
<1> DEFINE perQuestion == Len(Backends) * Len(Topks)
           total == Len(Limited(n)) * perQuestion
<1>5. total \in Int
  BY <1>1, <1>3, <1>4
<1>6. DOMAIN Grid(Limited(n)) = 1..total
  BY DEF Grid
<1>7. Grids[n] = Grid(Limited(n)) /\ DOMAIN Grids[n] = 1..total
  BY <1>6 DEF Grids, Sizes
<1> HIDE DEF total
<1>8. PICK m \in Nat : DOMAIN Grids[n] = 1..m
  <2>1. CASE total >= 0
    BY <1>5, <1>7, <2>1
  <2>2. CASE ~(total >= 0)
    <3>1. 1..total = 1..0
      BY <1>5, <2>2
    <3> QED
      BY <1>7, <3>1
  <2> QED
    BY <2>1, <2>2
<1>9. Grids[n] = [i \in 1..m |-> Grids[n][i]]
  <2>1. Grids[n] = [i \in DOMAIN Grids[n] |-> Grids[n][i]]
    BY <1>7 DEF Grid
  <2> QED
    BY <1>8, <2>1
<1>10. \A i \in 1..m : Grids[n][i] \in Cells
  BY <1>8 DEF Cells, Range
<1> DEFINE grid == Grids[n]
<1>11. grid \in [1..m -> Cells]
  <2> HIDE DEF grid
  <2>1. grid = [i \in 1..m |-> grid[i]] /\ \A i \in 1..m : grid[i] \in Cells
    BY <1>9, <1>10 DEF grid
  <2> QED
    BY <2>1
<1> QED
  BY <1>11

LEMMA GridOfAnEvaluation ==
  ASSUME NEW eval \in Evals
  PROVE  GridOf(eval) \in Seq(Cells) /\ eval.asked \in Sizes
BY GridsAreLists DEF GridOf, Evals

----------------------------------------------------------------------------
(* The rows that a cache keeps.                                            *)

\* The numbers of a set, in their order, are all of them.
LEMMA NthOfASet ==
  ASSUME NEW n \in Nat, NEW S \in SUBSET (1..n)
  PROVE  /\ Cardinality(S) \in Nat
         /\ \A m \in 1..Cardinality(S) : Nth(S, m) \in S
         /\ \A i \in S : \E m \in 1..Cardinality(S) : Nth(S, m) = i
         /\ Cardinality(S) > 0 => \A i \in S : Nth(S, 1) <= i
         /\ S # {} => Cardinality(S) > 0
<1> DEFINE UpTo(i) == {j \in S : j <= i}
           f == [i \in S |-> Cardinality(UpTo(i))]
           c == Cardinality(S)
<1>1. IsFiniteSet(1..n)
  <2>1. 1 \in Int /\ n \in Int
    OBVIOUS
  <2> QED
    BY <2>1, FS_Interval
<1>2. IsFiniteSet(S) /\ c \in Nat
  BY <1>1, FS_Subset, FS_CardinalityType
<1>3. \A i \in S : /\ IsFiniteSet(UpTo(i)) /\ Cardinality(UpTo(i)) \in Nat
                   /\ Cardinality(UpTo(i)) <= c /\ Cardinality(UpTo(i)) # 0
  <2> SUFFICES ASSUME NEW i \in S
               PROVE  /\ IsFiniteSet(UpTo(i)) /\ Cardinality(UpTo(i)) \in Nat
                      /\ Cardinality(UpTo(i)) <= c /\ Cardinality(UpTo(i)) # 0
    OBVIOUS
  <2>1. UpTo(i) \in SUBSET S /\ i \in UpTo(i)
    OBVIOUS
  <2> HIDE DEF UpTo
  <2>2. IsFiniteSet(UpTo(i)) /\ Cardinality(UpTo(i)) <= c
    BY <1>2, <2>1, FS_Subset
  <2>3. Cardinality(UpTo(i)) \in Nat
    BY <2>2, FS_CardinalityType
  <2>4. Cardinality(UpTo(i)) # 0
    BY <2>1, <2>2, FS_EmptySet
  <2> QED
    BY <2>2, <2>3, <2>4
<1>4. \A i, k \in S : i < k => Cardinality(UpTo(i)) < Cardinality(UpTo(k))
  <2> SUFFICES ASSUME NEW i \in S, NEW k \in S, i < k
               PROVE  Cardinality(UpTo(i)) < Cardinality(UpTo(k))
    OBVIOUS
  <2>0. \A j \in S : j \in Nat
    OBVIOUS
  <2>1. UpTo(i) \in SUBSET UpTo(k) /\ k \in UpTo(k) /\ k \notin UpTo(i)
    <3>1. i \in Nat /\ k \in Nat /\ i < k
      BY <2>0
    <3>2. \A j \in S : j <= i => j <= k
      BY <2>0, <3>1
    <3>3. k <= k /\ ~(k <= i)
      BY <3>1
    <3> QED
      BY <3>2, <3>3
  <2> HIDE DEF UpTo
  <2>2. /\ Cardinality(UpTo(i)) <= Cardinality(UpTo(k))
        /\ Cardinality(UpTo(k)) = Cardinality(UpTo(i)) => UpTo(k) = UpTo(i)
    BY <1>3, <2>1, FS_Subset
  <2>3. Cardinality(UpTo(i)) # Cardinality(UpTo(k))
    BY <2>1, <2>2
  <2> QED
    BY <1>3, <2>2, <2>3
<1> HIDE DEF UpTo
<1>5. f \in [S -> 1..c]
  BY <1>2, <1>3
<1>6. f \in Injection(S, 1..c)
  <2>1. \A i, k \in S : f[i] = f[k] => i = k
    BY <1>3, <1>4
  <2> QED
    BY <1>5, <2>1 DEF Injection, IsInjective
<1>7. IsFiniteSet(1..c) /\ Cardinality(1..c) = c
  <2>1. 1 \in Int /\ c \in Int
    BY <1>2
  <2> QED
    BY <1>2, <2>1, FS_Interval
<1>8. f \in Surjection(S, 1..c)
  BY <1>6, <1>7, FS_Injection
<1>9. \A m \in 1..c : \E i \in S : Cardinality(UpTo(i)) = m
  BY <1>8 DEF Surjection
<1>10. \A m \in 1..c : Nth(S, m) \in S /\ Cardinality(UpTo(Nth(S, m))) = m
  BY <1>9 DEF Nth, UpTo
<1>11. \A i \in S : Nth(S, f[i]) = i /\ f[i] \in 1..c
  <2> SUFFICES ASSUME NEW i \in S
               PROVE  Nth(S, f[i]) = i /\ f[i] \in 1..c
    OBVIOUS
  <2>1. f[i] \in 1..c /\ f[i] = Cardinality(UpTo(i))
    BY <1>5
  <2>2. Nth(S, f[i]) \in S /\ Cardinality(UpTo(Nth(S, f[i]))) = f[i]
    BY <1>10, <2>1
  <2> DEFINE k == Nth(S, f[i])
  <2> HIDE DEF k
  <2>3. k \in S /\ Cardinality(UpTo(k)) = Cardinality(UpTo(i))
    BY <2>1, <2>2 DEF k
  <2>4. ~(k < i) /\ ~(i < k) /\ i \in Nat /\ k \in Nat
    BY <1>3, <1>4, <2>3
  <2> QED
    BY <2>1, <2>4 DEF k
<1>12. c > 0 => \A i \in S : Nth(S, 1) <= i
  <2> SUFFICES ASSUME c > 0, NEW i \in S
               PROVE  Nth(S, 1) <= i
    OBVIOUS
  <2> DEFINE k == Nth(S, 1)
  <2>1. k \in S /\ Cardinality(UpTo(k)) = 1
    BY <1>2, <1>10
  <2> HIDE DEF k
  <2>2. ~(i < k) /\ i \in Nat /\ k \in Nat
    BY <1>3, <1>4, <2>1
  <2>3. k <= i
    BY <2>2
  <2> QED
    BY <2>3 DEF k
<1>13. S # {} => c > 0
  BY <1>2, FS_EmptySet
<1> QED
  BY <1>2, <1>10, <1>11, <1>12, <1>13

\* What the cache keeps are the rows that match, each key's once.
LEMMA CurrentRows ==
  ASSUME NEW rows \in Seq(Rows), NEW id
  PROVE  /\ Current(rows, id) \in Seq(Rows)
         /\ \A row : row \in Range(Current(rows, id)) <=>
                       row \in Range(rows) /\ Matches(row, id)
<1> DEFINE first == First(rows, id)
           kept == Current(rows, id)
<1>1. Len(rows) \in Nat /\ DOMAIN rows = 1..Len(rows) /\ \A i \in 1..Len(rows) : rows[i] \in Rows
  OBVIOUS
<1>2. first \in SUBSET (1..Len(rows)) /\ \A i \in first : Matches(rows[i], id)
  BY <1>1 DEF First
<1>3. /\ Cardinality(first) \in Nat
      /\ \A m \in 1..Cardinality(first) : Nth(first, m) \in first
      /\ \A i \in first : \E m \in 1..Cardinality(first) : Nth(first, m) = i
  BY <1>1, <1>2, NthOfASet
<1>4. kept = [m \in 1..Cardinality(first) |-> rows[Nth(first, m)]]
  BY DEF Current
<1>5. \A m \in 1..Cardinality(first) : rows[Nth(first, m)] \in Rows
  BY <1>1, <1>2, <1>3
<1>6. kept \in Seq(Rows)
  <2> HIDE DEF kept, first
  <2>1. kept \in [1..Cardinality(first) -> Rows]
    BY <1>4, <1>5
  <2> QED
    BY <1>3, <2>1
<1>7. Range(kept) = {rows[i] : i \in first}
  <2> HIDE DEF kept, first
  <2>1. Range(kept) = {rows[Nth(first, m)] : m \in 1..Cardinality(first)}
    BY <1>4 DEF Range
  <2> QED
    BY <1>3, <2>1
<1>8. ASSUME NEW i \in 1..Len(rows), Matches(rows[i], id)
      PROVE  rows[i] \in {rows[k] : k \in first}
  <2> DEFINE same == {k \in 1..Len(rows) : Matches(rows[k], id) /\ rows[k].key = rows[i].key}
             k1 == Nth(same, 1)
  <2>1. i \in same /\ same \in SUBSET (1..Len(rows))
    BY <1>8
  <2> HIDE DEF same
  <2>2. Cardinality(same) \in Nat /\ Cardinality(same) > 0
    BY <1>1, <2>1, NthOfASet
  <2>3. k1 \in same /\ \A k \in same : k1 <= k
    <3>1. /\ \A m \in 1..Cardinality(same) : Nth(same, m) \in same
          /\ Cardinality(same) > 0 => \A k \in same : Nth(same, 1) <= k
      BY <1>1, <2>1, NthOfASet
    <3> QED
      BY <2>2, <3>1
  <2> HIDE DEF k1
  <2>4. k1 \in 1..Len(rows) /\ Matches(rows[k1], id) /\ rows[k1].key = rows[i].key
    BY <2>3 DEF same
  <2>5. \A j \in 1..Len(rows) : j < k1 /\ Matches(rows[j], id) => rows[j].key # rows[k1].key
    BY <2>3, <2>4 DEF same
  <2>6. k1 \in first
    BY <1>1, <2>4, <2>5 DEF First
  <2>7. rows[k1] = rows[i]
    <3>1. rows[k1].run = rows[i].run
      BY <1>8, <2>4 DEF Matches
    <3>2. rows[k1] \in Rows /\ rows[i] \in Rows
      BY <1>1, <2>4
    <3> QED
      BY <2>4, <3>1, <3>2 DEF Rows
  <2> QED
    BY <2>6, <2>7
<1>9. \A row : row \in Range(kept) <=> row \in Range(rows) /\ Matches(row, id)
  <2> HIDE DEF kept, first
  <2> QED
    BY <1>1, <1>2, <1>7, <1>8 DEF Range
<1> QED
  BY <1>6, <1>9

\* The rows it drops for good do not match; those superseded are still there.
LEMMA DroppedRows ==
  ASSUME NEW rows \in Seq(Rows), NEW id, NEW row \in Range(rows), ~Matches(row, id)
  PROVE  row \in Stale(rows, id)
BY DEF Stale, Range

----------------------------------------------------------------------------
(* Policies and plans.                                                     *)

LEMMA PolicyFacts ==
  ASSUME NEW request \in Requests
  PROVE  /\ BasePolicy \in Policies /\ BasePolicy \in Selected(request)
         /\ Selected(request) \subseteq Policies
         /\ BasePolicy \notin SpecialistPolicies
         /\ \A p \in SpecialistPolicies : p # BasePolicy /\ p \in Policies
         /\ \A p \in Selected(request) : p = BasePolicy \/ p \in SpecialistPolicies
         /\ \A p \in Policies : p = BasePolicy \/ p \in SpecialistPolicies
<1>1. Range(request.seeds) \subseteq AllSeeds
  BY RequestFacts
<1>2. \A p \in SpecialistPolicies : p.tag \in Specialists
  BY DEF SpecialistPolicies
<1>3. BasePolicy.tag = "base-qwen" /\ "base-qwen" \notin Specialists
  BY DEF BasePolicy, BaseTag, Specialists
<1>4. BasePolicy \notin SpecialistPolicies
  BY <1>2, <1>3
<1>5. [tag : Specialists, seed : Range(request.seeds)] \subseteq SpecialistPolicies
  BY <1>1 DEF SpecialistPolicies
<1> QED
  BY <1>4, <1>5 DEF Policies, Selected

LEMMA StepIsTyped ==
  ASSUME NEW does \in Kinds, NEW p \in Policies \cup {None}
  PROVE  /\ Step(does, p) \in AllSteps
         /\ Step(does, p).does = does /\ Step(does, p).policy = p
BY DEF Step, AllSteps

\* The trainings and evaluations of one kind of specialist alternate.
LEMMA SpecialisedSteps ==
  ASSUME NEW request \in Requests, NEW tag \in Specialists
  PROVE  LET part == Specialised(tag, request.seeds)
             n == Len(request.seeds)
         IN /\ part \in Seq(AllSteps) /\ Len(part) = 2 * n
            /\ \A i \in 1..(2 * n) :
                 /\ part[i].policy \in SpecialistPolicies
                 /\ part[i].policy \in Selected(request)
                 /\ part[i].does \in {"train", "evaluate"}
                 /\ part[i].does = "train" =>
                      i < 2 * n /\ part[i + 1] = Step("evaluate", part[i].policy)
            /\ \A seed \in Range(request.seeds) : \E i \in 1..(2 * n) :
                 part[i] = Step("evaluate", Policy(tag, seed))
<1> DEFINE part == Specialised(tag, request.seeds)
           n == Len(request.seeds)
           step(i) == Step(IF i % 2 = 1 THEN "train" ELSE "evaluate",
                           Policy(tag, request.seeds[(i + 1) \div 2]))
<1>1. n \in Nat /\ n > 0 /\ request.seeds \in Seq(Nat) /\ Range(request.seeds) \subseteq AllSeeds
  BY RequestFacts
<1>2. part = [i \in 1..(2 * n) |-> step(i)]
  BY DEF Specialised
<1>3. \A i \in 1..(2 * n) : (i + 1) \div 2 \in 1..n
  BY <1>1
<1>4. \A k \in 1..n : /\ request.seeds[k] \in Range(request.seeds)
                      /\ Policy(tag, request.seeds[k]) \in SpecialistPolicies
                      /\ Policy(tag, request.seeds[k]) \in Selected(request)
  <2>1. DOMAIN request.seeds = 1..n
    BY <1>1
  <2> QED
    BY <1>1, <2>1 DEF Range, Policy, SpecialistPolicies, Selected
<1>5. \A i \in 1..(2 * n) :
        /\ step(i).policy = Policy(tag, request.seeds[(i + 1) \div 2])
        /\ step(i).does = IF i % 2 = 1 THEN "train" ELSE "evaluate"
  BY DEF Step
<1>6. \A i \in 1..(2 * n) :
        /\ step(i).policy \in SpecialistPolicies /\ step(i).policy \in Selected(request)
        /\ step(i).does \in {"train", "evaluate"}
  BY <1>3, <1>4, <1>5
<1>7. \A i \in 1..(2 * n) : step(i) \in AllSteps
  <2>1. \A i \in 1..(2 * n) : step(i) = [does |-> step(i).does, policy |-> step(i).policy]
    BY DEF Step
  <2>2. \A i \in 1..(2 * n) : step(i).does \in Kinds /\ step(i).policy \in Policies \cup {None}
    BY <1>6 DEF Kinds, Policies
  <2> HIDE DEF step
  <2> QED
    BY <2>1, <2>2 DEF AllSteps
<1>8. ASSUME NEW i \in 1..(2 * n), step(i).does = "train"
      PROVE  i < 2 * n /\ step(i + 1) = Step("evaluate", step(i).policy)
  <2>1. i % 2 = 1
    BY <1>5, <1>8
  <2>2. i < 2 * n /\ (i + 1) % 2 = 0 /\ (i + 1 + 1) \div 2 = (i + 1) \div 2
    BY <1>1, <2>1
  <2>3. step(i + 1) = Step("evaluate", Policy(tag, request.seeds[(i + 1) \div 2]))
    BY <2>2
  <2> QED
    BY <1>5, <2>2, <2>3
<1>9. ASSUME NEW seed \in Range(request.seeds)
      PROVE  \E i \in 1..(2 * n) : step(i) = Step("evaluate", Policy(tag, seed))
  <2>1. PICK k \in 1..n : request.seeds[k] = seed
    BY <1>1 DEF Range
  <2>2. 2 * k \in 1..(2 * n) /\ (2 * k) % 2 = 0 /\ (2 * k + 1) \div 2 = k
    BY <1>1
  <2>3. step(2 * k) = Step("evaluate", Policy(tag, seed))
    BY <2>1, <2>2
  <2> QED
    BY <2>2, <2>3
<1>10. part \in Seq(AllSteps) /\ Len(part) = 2 * n
  <2> HIDE DEF part, step
  <2>1. part \in [1..(2 * n) -> AllSteps]
    BY <1>2, <1>7
  <2> QED
    BY <1>1, <2>1
<1>11. \A i \in 1..(2 * n) : part[i] = step(i)
  BY <1>2
<1> HIDE DEF part, step
<1>12. \A i \in 1..(2 * n) : part[i].does = "train" =>
         i < 2 * n /\ part[i + 1] = Step("evaluate", part[i].policy)
  <2> SUFFICES ASSUME NEW i \in 1..(2 * n), part[i].does = "train"
               PROVE  i < 2 * n /\ part[i + 1] = Step("evaluate", part[i].policy)
    OBVIOUS
  <2>1. i < 2 * n /\ step(i + 1) = Step("evaluate", step(i).policy)
    BY <1>8, <1>11
  <2>2. i + 1 \in 1..(2 * n)
    BY <1>1, <2>1
  <2> QED
    BY <1>11, <2>1, <2>2
<1>13. \A seed \in Range(request.seeds) : \E i \in 1..(2 * n) :
         part[i] = Step("evaluate", Policy(tag, seed))
  BY <1>9, <1>11
<1>14. \A i \in 1..(2 * n) : /\ part[i].policy \in SpecialistPolicies
                              /\ part[i].policy \in Selected(request)
                              /\ part[i].does \in {"train", "evaluate"}
  BY <1>6, <1>11
<1> QED
  BY <1>10, <1>12, <1>13, <1>14 DEF part

LEMMA Joined ==
  ASSUME NEW T, NEW s \in Seq(T), NEW t \in Seq(T)
  PROVE  /\ s \o t \in Seq(T) /\ Len(s \o t) = Len(s) + Len(t)
         /\ \A i \in 1..Len(s) : (s \o t)[i] = s[i]
         /\ \A i \in 1..Len(t) : (s \o t)[Len(s) + i] = t[i]
OBVIOUS

\* Where the steps of a run stand.
LEMMA StepsInOrder ==
  ASSUME NEW request \in Requests
  PROVE  LET steps == Steps(request)
             n == Len(request.seeds)
             bm25 == Specialised("bm25-specialist", request.seeds)
             e5 == Specialised("e5-specialist", request.seeds)
         IN /\ steps \in Seq(AllSteps)
            /\ Len(steps) \in {4 + 4 * n, 5 + 4 * n}
            /\ steps[1] = Step("prepare", None)
            /\ steps[2] = Step("unselected", None)
            /\ steps[3] = Step("evaluate", BasePolicy)
            /\ \A i \in 1..(2 * n) : steps[3 + i] = bm25[i]
            /\ \A i \in 1..(2 * n) : steps[3 + 2 * n + i] = e5[i]
            /\ Len(steps) = 5 + 4 * n => steps[4 + 4 * n] = Step("report", None)
            /\ steps[Len(steps)] = Step("complete", None)
<1> DEFINE n == Len(request.seeds)
           bm25 == Specialised("bm25-specialist", request.seeds)
           e5 == Specialised("e5-specialist", request.seeds)
           a == <<Step("prepare", None), Step("unselected", None), Step("evaluate", BasePolicy)>>
           r == IF request.report THEN <<Step("report", None)>> ELSE <<>>
           c == <<Step("complete", None)>>
           w1 == a \o bm25
           w2 == w1 \o e5
           w3 == w2 \o r
           w4 == w3 \o c
<1>1. n \in Nat /\ n > 0
  BY RequestFacts
<1>2. bm25 \in Seq(AllSteps) /\ Len(bm25) = 2 * n /\ e5 \in Seq(AllSteps) /\ Len(e5) = 2 * n
  BY SpecialisedSteps DEF Specialists
<1>3. /\ Step("prepare", None) \in AllSteps /\ Step("unselected", None) \in AllSteps
      /\ Step("report", None) \in AllSteps /\ Step("complete", None) \in AllSteps
      /\ Step("evaluate", BasePolicy) \in AllSteps
  BY StepIsTyped DEF Kinds, Policies
<1>4. /\ a \in Seq(AllSteps) /\ Len(a) = 3
      /\ a[1] = Step("prepare", None) /\ a[2] = Step("unselected", None)
      /\ a[3] = Step("evaluate", BasePolicy)
  BY <1>3
<1>5. /\ r \in Seq(AllSteps) /\ Len(r) \in {0, 1}
      /\ Len(r) = 1 => r[1] = Step("report", None)
  BY <1>3
<1>6. c \in Seq(AllSteps) /\ Len(c) = 1 /\ c[1] = Step("complete", None)
  BY <1>3
<1>7. /\ Steps(request) = w4 /\ w4 = w3 \o c /\ w3 = w2 \o r
      /\ w2 = w1 \o e5 /\ w1 = a \o bm25
  BY DEF Steps
<1> HIDE DEF a, r, c, bm25, e5, n, w1, w2, w3, w4
<1>8. /\ w1 \in Seq(AllSteps) /\ Len(w1) = 3 + 2 * n
      /\ \A i \in 1..3 : w1[i] = a[i]
      /\ \A i \in 1..(2 * n) : w1[3 + i] = bm25[i]
  <2>1. /\ w1 \in Seq(AllSteps) /\ Len(w1) = Len(a) + Len(bm25)
        /\ \A i \in 1..Len(a) : w1[i] = a[i]
        /\ \A i \in 1..Len(bm25) : w1[Len(a) + i] = bm25[i]
    <3>1. w1 = a \o bm25 /\ a \in Seq(AllSteps) /\ bm25 \in Seq(AllSteps)
      BY <1>2, <1>4, <1>7
    <3> QED
      BY <3>1, Joined
  <2> QED
    BY <1>2, <1>4, <2>1
<1>9. /\ w2 \in Seq(AllSteps) /\ Len(w2) = 3 + 2 * n + 2 * n
      /\ \A i \in 1..(3 + 2 * n) : w2[i] = w1[i]
      /\ \A i \in 1..(2 * n) : w2[3 + 2 * n + i] = e5[i]
  <2>1. /\ w2 \in Seq(AllSteps) /\ Len(w2) = Len(w1) + Len(e5)
        /\ \A i \in 1..Len(w1) : w2[i] = w1[i]
        /\ \A i \in 1..Len(e5) : w2[Len(w1) + i] = e5[i]
    <3>1. w2 = w1 \o e5 /\ w1 \in Seq(AllSteps) /\ e5 \in Seq(AllSteps)
      BY <1>2, <1>7, <1>8
    <3> QED
      BY <3>1, Joined
  <2> QED
    BY <1>2, <1>8, <2>1
<1>10. /\ w3 \in Seq(AllSteps) /\ Len(w3) = 3 + 4 * n + Len(r)
       /\ \A i \in 1..(3 + 4 * n) : w3[i] = w2[i]
       /\ Len(r) = 1 => w3[4 + 4 * n] = Step("report", None)
  <2>1. /\ w3 \in Seq(AllSteps) /\ Len(w3) = Len(w2) + Len(r)
        /\ \A i \in 1..Len(w2) : w3[i] = w2[i]
        /\ \A i \in 1..Len(r) : w3[Len(w2) + i] = r[i]
    <3>1. w3 = w2 \o r /\ w2 \in Seq(AllSteps) /\ r \in Seq(AllSteps)
      BY <1>5, <1>7, <1>9
    <3> QED
      BY <3>1, Joined
  <2>2. Len(w2) = 3 + 4 * n
    BY <1>1, <1>9
  <2>3. Len(r) = 1 => w3[Len(w2) + 1] = r[1]
    BY <2>1
  <2>4. Len(w2) + 1 = 4 + 4 * n
    BY <1>1, <2>2
  <2> QED
    BY <1>5, <2>1, <2>2, <2>3, <2>4
<1>11. /\ w4 \in Seq(AllSteps) /\ Len(w4) = 4 + 4 * n + Len(r)
       /\ \A i \in 1..(3 + 4 * n + Len(r)) : w4[i] = w3[i]
       /\ w4[Len(w4)] = Step("complete", None)
  <2>1. /\ w4 \in Seq(AllSteps) /\ Len(w4) = Len(w3) + Len(c)
        /\ \A i \in 1..Len(w3) : w4[i] = w3[i]
        /\ \A i \in 1..Len(c) : w4[Len(w3) + i] = c[i]
    <3>1. w4 = w3 \o c /\ w3 \in Seq(AllSteps) /\ c \in Seq(AllSteps)
      BY <1>6, <1>7, <1>10
    <3> QED
      BY <3>1, Joined
  <2>2. /\ w4 \in Seq(AllSteps) /\ Len(w4) = Len(w3) + 1
        /\ \A i \in 1..Len(w3) : w4[i] = w3[i]
        /\ w4[Len(w3) + 1] = c[1]
    BY <1>6, <2>1
  <2>3. Len(w3) + 1 = 4 + 4 * n + Len(r)
    BY <1>1, <1>5, <1>10
  <2> QED
    BY <1>6, <1>10, <2>2, <2>3
<1>12. Len(w4) \in {4 + 4 * n, 5 + 4 * n} /\ (Len(w4) = 5 + 4 * n => Len(r) = 1)
  <2>1. CASE Len(r) = 0
    BY <1>1, <1>11, <2>1
  <2>2. CASE Len(r) = 1
    BY <1>1, <1>11, <2>2
  <2> QED
    BY <1>5, <2>1, <2>2
<1>13. /\ w4[1] = Step("prepare", None) /\ w4[2] = Step("unselected", None)
       /\ w4[3] = Step("evaluate", BasePolicy)
  BY <1>1, <1>4, <1>5, <1>8, <1>9, <1>10, <1>11
<1>14. \A i \in 1..(2 * n) : w4[3 + i] = bm25[i]
  <2> SUFFICES ASSUME NEW i \in 1..(2 * n)
               PROVE  w4[3 + i] = bm25[i]
    OBVIOUS
  <2>1. /\ 3 + i \in 1..(3 + 2 * n) /\ 3 + i \in 1..(3 + 4 * n)
        /\ 3 + i \in 1..(3 + 4 * n + Len(r))
    BY <1>1, <1>5
  <2>2. w4[3 + i] = w3[3 + i] /\ w3[3 + i] = w2[3 + i]
    BY <1>10, <1>11, <2>1
  <2>3. w2[3 + i] = w1[3 + i] /\ w1[3 + i] = bm25[i]
    BY <1>8, <1>9, <2>1
  <2> QED
    BY <2>2, <2>3
<1>15. \A i \in 1..(2 * n) : w4[3 + 2 * n + i] = e5[i]
  <2> SUFFICES ASSUME NEW i \in 1..(2 * n)
               PROVE  w4[3 + 2 * n + i] = e5[i]
    OBVIOUS
  <2>1. 3 + 2 * n + i \in 1..(3 + 4 * n) /\ 3 + 2 * n + i \in 1..(3 + 4 * n + Len(r))
    BY <1>1, <1>5
  <2> QED
    BY <1>9, <1>10, <1>11, <2>1
<1>16. Len(r) = 1 => w4[4 + 4 * n] = Step("report", None)
  BY <1>1, <1>5, <1>10, <1>11
<1> QED
  BY <1>7, <1>11, <1>12, <1>13, <1>14, <1>15, <1>16 DEF n, bm25, e5

LEMMA StepsAreSound ==
  ASSUME NEW request \in Requests
  PROVE  /\ Steps(request) \in Seq(AllSteps)
         /\ IsSound(Steps(request), request)
         /\ InPlan(Steps(request), Step("unselected", None))
         /\ \A p \in Selected(request) : InPlan(Steps(request), Step("evaluate", p))
<1> DEFINE steps == Steps(request)
           n == Len(request.seeds)
           bm25 == Specialised("bm25-specialist", request.seeds)
           e5 == Specialised("e5-specialist", request.seeds)
<1>1. n \in Nat /\ n > 0
  BY RequestFacts
<1>2. /\ steps \in Seq(AllSteps)
      /\ Len(steps) \in {4 + 4 * n, 5 + 4 * n}
      /\ steps[1] = Step("prepare", None)
      /\ steps[2] = Step("unselected", None)
      /\ steps[3] = Step("evaluate", BasePolicy)
      /\ \A i \in 1..(2 * n) : steps[3 + i] = bm25[i]
      /\ \A i \in 1..(2 * n) : steps[3 + 2 * n + i] = e5[i]
      /\ Len(steps) = 5 + 4 * n => steps[4 + 4 * n] = Step("report", None)
      /\ steps[Len(steps)] = Step("complete", None)
  BY StepsInOrder
<1>3. /\ \A i \in 1..(2 * n) :
           /\ bm25[i].policy \in SpecialistPolicies
           /\ bm25[i].policy \in Selected(request)
           /\ bm25[i].does \in {"train", "evaluate"}
           /\ bm25[i].does = "train" => i < 2 * n /\ bm25[i + 1] = Step("evaluate", bm25[i].policy)
      /\ \A seed \in Range(request.seeds) : \E i \in 1..(2 * n) :
           bm25[i] = Step("evaluate", Policy("bm25-specialist", seed))
  BY SpecialisedSteps DEF Specialists
<1>4. /\ \A i \in 1..(2 * n) :
           /\ e5[i].policy \in SpecialistPolicies
           /\ e5[i].policy \in Selected(request)
           /\ e5[i].does \in {"train", "evaluate"}
           /\ e5[i].does = "train" => i < 2 * n /\ e5[i + 1] = Step("evaluate", e5[i].policy)
      /\ \A seed \in Range(request.seeds) : \E i \in 1..(2 * n) :
           e5[i] = Step("evaluate", Policy("e5-specialist", seed))
  BY SpecialisedSteps DEF Specialists
<1>5. \A does, p : Step(does, p).does = does /\ Step(does, p).policy = p
  BY DEF Step
<1> HIDE DEF steps, n, bm25, e5
<1>6. steps # <<>> /\ Len(steps) \in Nat
  BY <1>1, <1>2
<1>7. \A p \in Selected(request) : InPlan(steps, Step("evaluate", p))
  <2> SUFFICES ASSUME NEW p \in Selected(request)
               PROVE  \E i \in 1..Len(steps) : steps[i] = Step("evaluate", p)
    BY DEF InPlan
  <2>1. CASE p = BasePolicy
    BY <1>1, <1>2, <2>1
  <2>2. CASE p # BasePolicy
    <3>1. PICK tag \in Specialists, seed \in Range(request.seeds) :
            p = Policy(tag, seed)
      BY <2>2 DEF Selected, Policy
    <3>2. CASE tag = "bm25-specialist"
      <4>1. PICK i \in 1..(2 * n) : bm25[i] = Step("evaluate", p)
        BY <1>3, <3>1, <3>2
      <4>2. 3 + i \in 1..Len(steps)
        BY <1>1, <1>2
      <4>3. steps[3 + i] = Step("evaluate", p)
        BY <1>2, <4>1, Zenon
      <4> QED
        BY <4>2, <4>3
    <3>3. CASE tag = "e5-specialist"
      <4>1. PICK i \in 1..(2 * n) : e5[i] = Step("evaluate", p)
        BY <1>4, <3>1, <3>3
      <4>2. 3 + 2 * n + i \in 1..Len(steps)
        BY <1>1, <1>2
      <4>3. steps[3 + 2 * n + i] = Step("evaluate", p)
        BY <1>2, <4>1, Zenon
      <4> QED
        BY <4>2, <4>3
    <3> QED
      BY <3>1, <3>2, <3>3 DEF Specialists
  <2> QED
    BY <2>1, <2>2
<1>8. InPlan(steps, Step("unselected", None))
  BY <1>1, <1>2 DEF InPlan
<1> DEFINE Fits(i) ==
      /\ steps[i].does = "complete" <=> i = Len(steps)
      /\ steps[i].does = "prepare" => i = 1
      /\ steps[i].does = "train" =>
           /\ steps[i].policy \in SpecialistPolicies
           /\ \E j \in (i + 1)..Len(steps) : steps[j] = Step("evaluate", steps[i].policy)
      /\ steps[i].does = "evaluate" => steps[i].policy \in Selected(request)
<1>9. \A i \in 1..Len(steps) : Fits(i)
  <2> SUFFICES ASSUME NEW i \in 1..Len(steps)
               PROVE  Fits(i)
    OBVIOUS
  <2>1. CASE i \in 1..3
    <3>1. i = 1 \/ i = 2 \/ i = 3
      BY <2>1
    <3>2. i # Len(steps)
      BY <1>1, <1>2, <2>1
    <3>3. BasePolicy \in Selected(request)
      BY PolicyFacts
    <3>4. /\ steps[i].does = IF i = 1 THEN "prepare" ELSE IF i = 2 THEN "unselected" ELSE "evaluate"
          /\ i = 3 => steps[i].policy = BasePolicy
      BY <1>2, <1>5, <3>1
    <3> QED
      BY <3>1, <3>2, <3>3, <3>4
  <2>2. CASE i \in 4..(3 + 2 * n)
    <3> DEFINE k == i - 3
    <3>1. k \in 1..(2 * n) /\ i = 3 + k /\ i # Len(steps)
      BY <1>1, <1>2, <2>2
    <3>2. steps[i] = bm25[k]
      BY <1>2, <3>1
    <3>3. steps[i].does = "train" => i + 1 \in (i + 1)..Len(steps) /\ steps[i + 1] = bm25[k + 1]
      BY <1>1, <1>2, <1>3, <3>1, <3>2
    <3> HIDE DEF k
    <3>4. steps[i].does = "train" =>
            \E j \in (i + 1)..Len(steps) : steps[j] = Step("evaluate", steps[i].policy)
      BY <1>3, <3>1, <3>2, <3>3
    <3>5. /\ steps[i].policy \in SpecialistPolicies /\ steps[i].policy \in Selected(request)
          /\ steps[i].does \in {"train", "evaluate"}
      BY <1>3, <3>1, <3>2
    <3> QED
      BY <3>1, <3>4, <3>5
  <2>3. CASE i \in (4 + 2 * n)..(3 + 4 * n)
    <3> DEFINE k == i - 3 - 2 * n
    <3>1. k \in 1..(2 * n) /\ i = 3 + 2 * n + k /\ i # Len(steps) /\ i > 3
      BY <1>1, <1>2, <2>3
    <3>2. steps[i] = e5[k]
      BY <1>2, <3>1
    <3>3. steps[i].does = "train" => i + 1 \in (i + 1)..Len(steps) /\ steps[i + 1] = e5[k + 1]
      <4> SUFFICES ASSUME steps[i].does = "train"
                   PROVE  i + 1 \in (i + 1)..Len(steps) /\ steps[i + 1] = e5[k + 1]
        OBVIOUS
      <4>1. k < 2 * n
        BY <1>4, <3>1, <3>2
      <4>2. k + 1 \in 1..(2 * n) /\ i + 1 = 3 + 2 * n + (k + 1)
        BY <1>1, <3>1, <4>1
      <4>3. steps[3 + 2 * n + (k + 1)] = e5[k + 1]
        BY <1>2, <4>2
      <4>4. i + 1 <= Len(steps)
        BY <1>1, <1>2, <4>2
      <4> QED
        BY <1>6, <4>2, <4>3, <4>4
    <3> HIDE DEF k
    <3>4. steps[i].does = "train" =>
            \E j \in (i + 1)..Len(steps) : steps[j] = Step("evaluate", steps[i].policy)
      BY <1>4, <3>1, <3>2, <3>3
    <3>5. /\ steps[i].policy \in SpecialistPolicies /\ steps[i].policy \in Selected(request)
          /\ steps[i].does \in {"train", "evaluate"}
      BY <1>4, <3>1, <3>2
    <3> QED
      BY <3>1, <3>4, <3>5
  <2>4. CASE i = 4 + 4 * n /\ i # Len(steps)
    <3>1. steps[i].does = "report"
      BY <1>1, <1>2, <1>5, <2>4
    <3> QED
      BY <2>4, <3>1
  <2>5. CASE i = Len(steps)
    <3>1. steps[i].does = "complete"
      BY <1>2, <1>5, <2>5
    <3> QED
      BY <2>5, <3>1
  <2>6. i \in 1..3 \/ i \in 4..(3 + 2 * n) \/ i \in (4 + 2 * n)..(3 + 4 * n)
        \/ (i = 4 + 4 * n /\ i # Len(steps)) \/ i = Len(steps)
    BY <1>1, <1>2
  <2> HIDE DEF Fits
  <2> QED
    BY <2>1, <2>2, <2>3, <2>4, <2>5, <2>6
<1>10. IsSound(steps, request)
  BY <1>6, <1>7, <1>9 DEF IsSound
<1> QED
  BY <1>2, <1>7, <1>8, <1>10 DEF steps

----------------------------------------------------------------------------
(* What every step may use of the invariant.                               *)

LEMMA NotEmpty ==
  ASSUME NEW T, NEW s \in Seq(T), Len(s) # 0
  PROVE  s # <<>>
OBVIOUS

LEMMA PlanTail ==
  ASSUME NEW todo \in Seq(AllSteps), todo # <<>>, NEW step
  PROVE  /\ InPlan(Tail(todo), step) => InPlan(todo, step)
         /\ InPlan(todo, step) /\ Head(todo) # step => InPlan(Tail(todo), step)
<1>1. /\ Len(todo) \in Nat /\ Len(todo) > 0 /\ Head(todo) = todo[1]
      /\ Len(Tail(todo)) = Len(todo) - 1
      /\ \A i \in 1..(Len(todo) - 1) : Tail(todo)[i] = todo[i + 1]
  OBVIOUS
<1> HIDE DEF InPlan
<1>2. ASSUME NEW i \in 1..Len(Tail(todo)), Tail(todo)[i] = step
      PROVE  InPlan(todo, step)
  <2>1. i + 1 \in 1..Len(todo) /\ todo[i + 1] = step
    BY <1>1, <1>2
  <2> QED
    BY <2>1 DEF InPlan
<1>3. ASSUME NEW i \in 1..Len(todo), todo[i] = step, Head(todo) # step
      PROVE  InPlan(Tail(todo), step)
  <2>1. i # 1
    BY <1>1, <1>3
  <2>2. i - 1 \in 1..Len(Tail(todo)) /\ Tail(todo)[i - 1] = step
    <3>1. i - 1 \in 1..(Len(todo) - 1) /\ (i - 1) + 1 = i
      BY <1>1, <2>1
    <3> QED
      BY <1>1, <1>3, <3>1
  <2> QED
    BY <2>2 DEF InPlan
<1> QED
  BY <1>2, <1>3 DEF InPlan

LEMMA SoundTail ==
  ASSUME NEW todo \in Seq(AllSteps), NEW request, IsSound(todo, request),
         Head(todo).does # "complete"
  PROVE  Tail(todo) \in Seq(AllSteps) /\ IsSound(Tail(todo), request)
<1>1. /\ todo # <<>> /\ Len(todo) \in Nat /\ Len(todo) > 0 /\ Head(todo) = todo[1]
      /\ Tail(todo) \in Seq(AllSteps)
      /\ Len(Tail(todo)) = Len(todo) - 1
      /\ \A i \in 1..(Len(todo) - 1) : Tail(todo)[i] = todo[i + 1]
  BY DEF IsSound
<1>2. Len(todo) # 1
  <2>1. 1 \in 1..Len(todo)
    BY <1>1
  <2>2. todo[1].does = "complete" <=> 1 = Len(todo)
    BY <2>1 DEF IsSound
  <2> QED
    BY <1>1, <2>2
<1>3. Tail(todo) # <<>>
  <2>1. Len(Tail(todo)) # 0
    BY <1>1, <1>2
  <2> QED
    BY <1>1, <2>1, NotEmpty
<1> DEFINE rest == Tail(todo)
<1> HIDE DEF rest
<1>4. ASSUME NEW i \in 1..Len(rest)
      PROVE  /\ rest[i].does = "complete" <=> i = Len(rest)
             /\ rest[i].does # "prepare"
             /\ rest[i].does = "train" =>
                  /\ rest[i].policy \in SpecialistPolicies
                  /\ \E j \in (i + 1)..Len(rest) : rest[j] = Step("evaluate", rest[i].policy)
             /\ rest[i].does = "evaluate" => rest[i].policy \in Selected(request)
  <2>1. i + 1 \in 1..Len(todo) /\ rest[i] = todo[i + 1] /\ i + 1 # 1 /\ Len(rest) = Len(todo) - 1
    BY <1>1 DEF rest
  <2>2. /\ todo[i + 1].does = "complete" <=> i + 1 = Len(todo)
        /\ todo[i + 1].does # "prepare"
        /\ todo[i + 1].does = "train" =>
             /\ todo[i + 1].policy \in SpecialistPolicies
             /\ \E j \in (i + 2)..Len(todo) :
                  todo[j] = Step("evaluate", todo[i + 1].policy)
        /\ todo[i + 1].does = "evaluate" => todo[i + 1].policy \in Selected(request)
    <3>1. i + 1 + 1 = i + 2
      BY <2>1
    <3> QED
      BY <2>1, <3>1 DEF IsSound
  <2>3. ASSUME NEW j \in (i + 2)..Len(todo)
        PROVE  j - 1 \in (i + 1)..Len(rest) /\ rest[j - 1] = todo[j]
    <3>1. j - 1 \in 1..(Len(todo) - 1) /\ (j - 1) + 1 = j /\ j - 1 \in (i + 1)..Len(rest)
      BY <1>1, <2>1
    <3> QED
      BY <1>1, <3>1 DEF rest
  <2>4. rest[i].does = "complete" <=> i = Len(rest)
    <3>1. Len(todo) \in Nat /\ i \in Nat
      BY <1>1
    <3>2. i + 1 = Len(todo) <=> i = Len(rest)
      BY <2>1, <3>1
    <3> QED
      BY <2>1, <2>2, <3>2
  <2>5. rest[i].does = "train" =>
          \E j \in (i + 1)..Len(rest) : rest[j] = Step("evaluate", rest[i].policy)
    BY <2>1, <2>2, <2>3
  <2> QED
    BY <2>1, <2>2, <2>4, <2>5
<1>5. rest # <<>> /\ rest \in Seq(AllSteps)
  BY <1>1, <1>3 DEF rest
<1>6. IsSound(rest, request)
  BY <1>4, <1>5 DEF IsSound
<1> QED
  BY <1>5, <1>6 DEF rest

LEMMA ShorterPlan ==
  ASSUME NEW R, NEW T, NEW r \in [request : R, todo : T], NEW todo
  PROVE  [r EXCEPT !.todo = todo] = [request |-> r.request, todo |-> todo]
OBVIOUS

LEMMA RunFacts ==
  ASSUME IInv, run # None
  PROVE  /\ run.request \in Requests /\ run.todo \in Seq(AllSteps)
         /\ run.todo # <<>> /\ IsSound(run.todo, run.request)
         /\ Head(run.todo) = run.todo[1] /\ 1 \in 1..Len(run.todo)
         /\ Head(run.todo) \in AllSteps
         /\ Advanced = [request |-> run.request, todo |-> Tail(run.todo)]
         /\ InPlan(run.todo, Head(run.todo))
         /\ marker = None
<1>1. run \in [request : Requests, todo : Seq(AllSteps)]
  BY DEF IInv, TypeInv
<1>2. IsSound(run.todo, run.request) /\ marker = None
  BY DEF IInv, PlanIsSound, MarkerIsLast
<1>3. run.todo # <<>>
  BY <1>2 DEF IsSound
<1>4. /\ Head(run.todo) = run.todo[1] /\ 1 \in 1..Len(run.todo)
      /\ Head(run.todo) \in AllSteps
  BY <1>1, <1>3
<1>5. Advanced = [request |-> run.request, todo |-> Tail(run.todo)]
  BY <1>1, ShorterPlan DEF Advanced
<1> QED
  BY <1>1, <1>2, <1>3, <1>4, <1>5 DEF InPlan

\* A step of a run that is not under way yet.
LEMMA DoingFacts ==
  ASSUME IInv, NEW does, Doing(does)
  PROVE  /\ run # None /\ proc = None /\ ~Evaluating
         /\ Head(run.todo).does = does
BY DEF Doing, Evaluating

LEMMA EvaluatorFacts ==
  ASSUME IInv, Evaluating
  PROVE  /\ run # None /\ proc # None /\ proc \in Evaluators
         /\ proc.policy \in Policies /\ proc.policy \in Selected(run.request)
         /\ Head(run.todo) = Step("evaluate", proc.policy)
         /\ Head(run.todo).does = "evaluate"
         /\ InPlan(run.todo, Step("evaluate", proc.policy))
         /\ proc.id \in Runs /\ proc.id = RunSignature(proc.policy, run.request)
         /\ proc.id.policy = proc.policy
         /\ Jobs \in Seq(Cells) /\ Jobs = GridOf(proc.id.eval)
         /\ proc.done \subseteq Cells /\ proc.rewritten \in BOOLEAN /\ proc.buffer \in Seq(Rows)
         /\ files \in [Policies -> Seq(Rows)] /\ files[proc.policy] \in Seq(Rows)
<1>1. proc # None /\ proc.does = "evaluate" /\ run # None
  BY DEF IInv, EvaluationIsNext, Evaluating
<1>2. proc \notin Trainings
  BY <1>1 DEF Trainings
<1>3. proc \in Evaluators /\ files \in [Policies -> Seq(Rows)]
  BY <1>1, <1>2 DEF IInv, TypeInv
<1>4. /\ proc.policy \in Policies /\ proc.id \in Runs
      /\ proc.done \subseteq Cells /\ proc.rewritten \in BOOLEAN /\ proc.buffer \in Seq(Rows)
  BY <1>3 DEF Evaluators
<1>5. /\ Head(run.todo) = Step("evaluate", proc.policy)
      /\ proc.id = RunSignature(proc.policy, run.request)
  BY DEF IInv, EvaluationIsNext
<1>6. proc.id.policy = proc.policy
  BY <1>5 DEF RunSignature
<1>7. Head(run.todo).does = "evaluate" /\ Head(run.todo).policy = proc.policy
  BY <1>5 DEF Step
<1>8. /\ InPlan(run.todo, Step("evaluate", proc.policy))
      /\ IsSound(run.todo, run.request) /\ Head(run.todo) = run.todo[1]
      /\ 1 \in 1..Len(run.todo)
  BY <1>1, <1>5, RunFacts
<1>9. proc.policy \in Selected(run.request)
  BY <1>7, <1>8 DEF IsSound
<1>10. proc.id.eval \in Evals
  BY <1>4 DEF Runs
<1>11. Jobs \in Seq(Cells) /\ Jobs = GridOf(proc.id.eval)
  BY <1>10, GridOfAnEvaluation DEF Jobs
<1> QED
  BY <1>1, <1>3, <1>4, <1>5, <1>6, <1>7, <1>8, <1>9, <1>11

\* What a step that leaves its variables alone keeps.
LEMMA Framed ==
  ASSUME IInv
  PROVE  /\ files' = files => RowsAreInPlace'
         /\ watch' = watch => WatchIsSound'
         /\ marker' \in {marker, None} => MarkerIsTrue'
         /\ marker' = None => MarkerDescribesDisk'
         /\ marker' = marker /\ reported' = reported /\ files' = files => MarkerDescribesDisk'
         /\ proc' = None => TrainingIsNext' /\ EvaluationIsNext' /\ CacheIsKept'
                            /\ DoneIsKept' /\ CheckpointIsShort'
         /\ run' = None => PlanIsSound' /\ UnselectedAreAway' /\ EvaluatedAreWhole'
                           /\ MarkerIsLast'
<1>1. files' = files => RowsAreInPlace'
  BY DEF IInv, RowsAreInPlace
<1>2. watch' = watch => WatchIsSound'
  BY DEF IInv, WatchIsSound
<1>3. marker' \in {marker, None} => MarkerIsTrue'
  BY DEF IInv, MarkerIsTrue
<1>4. marker' = None => MarkerDescribesDisk'
  BY DEF MarkerDescribesDisk
<1>5. marker' = marker /\ reported' = reported /\ files' = files => MarkerDescribesDisk'
  BY DEF IInv, MarkerDescribesDisk
<1>6. proc' = None => TrainingIsNext' /\ EvaluationIsNext' /\ CacheIsKept'
                      /\ DoneIsKept' /\ CheckpointIsShort'
  BY DEF TrainingIsNext, EvaluationIsNext, CacheIsKept, DoneIsKept, CheckpointIsShort,
     Evaluating
<1>7. run' = None => PlanIsSound' /\ UnselectedAreAway' /\ EvaluatedAreWhole' /\ MarkerIsLast'
  BY DEF PlanIsSound, UnselectedAreAway, EvaluatedAreWhole, MarkerIsLast
<1> QED
  BY <1>1, <1>2, <1>3, <1>4, <1>5, <1>6, <1>7

\* A step of the run that is neither the archiving, nor a training, nor an
\* evaluation is done with.
LEMMA Advancing ==
  ASSUME IInv, run # None, run' = Advanced, files' = files,
         Head(run.todo).does \notin {"complete", "unselected"}
  PROVE  /\ run'.request = run.request /\ run'.todo = Tail(run.todo)
         /\ run' \in [request : Requests, todo : Seq(AllSteps)]
         /\ PlanIsSound' /\ UnselectedAreAway'
         /\ Head(run.todo).does # "evaluate" /\ data' = data /\ trained' = trained
              => EvaluatedAreWhole'
<1>1. /\ run.request \in Requests /\ run.todo \in Seq(AllSteps) /\ run.todo # <<>>
      /\ IsSound(run.todo, run.request)
      /\ run' = [request |-> run.request, todo |-> Tail(run.todo)]
  BY RunFacts
<1>2. Tail(run.todo) \in Seq(AllSteps) /\ IsSound(Tail(run.todo), run.request)
  BY <1>1, SoundTail
<1>3. /\ run'.request = run.request /\ run'.todo = Tail(run.todo)
      /\ run' \in [request : Requests, todo : Seq(AllSteps)]
  BY <1>1, <1>2
<1>4. PlanIsSound'
  BY <1>2, <1>3 DEF PlanIsSound
<1>5. UnselectedAreAway'
  <2>1. Step("unselected", None).does = "unselected"
    BY DEF Step
  <2>2. InPlan(run.todo, Step("unselected", None)) => InPlan(run'.todo, Step("unselected", None))
    BY <1>1, <1>3, <2>1, PlanTail
  <2> QED
    BY <1>3, <2>2 DEF IInv, UnselectedAreAway
<1>6. ASSUME Head(run.todo).does # "evaluate", data' = data, trained' = trained
      PROVE  EvaluatedAreWhole'
  <2>1. \A p : Step("evaluate", p).does = "evaluate"
    BY DEF Step
  <2>2. \A p : InPlan(run.todo, Step("evaluate", p)) => InPlan(run'.todo, Step("evaluate", p))
    BY <1>1, <1>3, <1>6, <2>1, PlanTail
  <2>3. \A p, request, eval : Answers(p, request, eval)' = Answers(p, request, eval)
    BY <1>6 DEF Answers, Model
  <2>4. EvaluatedAreWhole
    BY DEF IInv
  <2> HIDE DEF Answers
  <2> QED
    BY <1>3, <1>6, <2>2, <2>3, <2>4 DEF EvaluatedAreWhole
<1> QED
  BY <1>3, <1>4, <1>5, <1>6

LEMMA WatchedFacts ==
  /\ Watched \in Seq(SpecialistPolicies) /\ Len(Watched) = 2 * Len(WatchSeeds)
  /\ Len(Watched) \in Nat /\ Watched # <<>>
  /\ \A i \in 1..Len(Watched) : Watched[i] \in [tag : Specialists, seed : Range(WatchSeeds)]
<1> DEFINE n == Len(WatchSeeds)
           policy(i) == Policy(IF i % 2 = 1 THEN "bm25-specialist" ELSE "e5-specialist",
                               WatchSeeds[(i + 1) \div 2])
<1>1. WatchSeeds \in Seq(Nat) /\ n \in Nat /\ n > 0
  BY ConstantFacts
<1>2. \A i \in 1..(2 * n) : (i + 1) \div 2 \in 1..n
  BY <1>1
<1>3. \A k \in 1..n : WatchSeeds[k] \in Range(WatchSeeds)
  BY <1>1 DEF Range
<1>4. \A i \in 1..(2 * n) : policy(i) \in [tag : Specialists, seed : Range(WatchSeeds)]
  <2> SUFFICES ASSUME NEW i \in 1..(2 * n)
               PROVE  policy(i) \in [tag : Specialists, seed : Range(WatchSeeds)]
    OBVIOUS
  <2>1. WatchSeeds[(i + 1) \div 2] \in Range(WatchSeeds)
    BY <1>2, <1>3
  <2>2. (IF i % 2 = 1 THEN "bm25-specialist" ELSE "e5-specialist") \in Specialists
    BY DEF Specialists
  <2> QED
    BY <2>1, <2>2 DEF Policy
<1>5. [tag : Specialists, seed : Range(WatchSeeds)] \subseteq SpecialistPolicies
  BY DEF SpecialistPolicies, AllSeeds
<1>6. Watched = [i \in 1..(2 * n) |-> policy(i)]
  BY DEF Watched
<1> HIDE DEF policy
<1>7. Watched \in [1..(2 * n) -> SpecialistPolicies]
  BY <1>4, <1>5, <1>6
<1>8. 2 * n \in Nat /\ 2 * n # 0
  BY <1>1
<1>9. Watched \in Seq(SpecialistPolicies) /\ Len(Watched) = 2 * n
  BY <1>7, <1>8
<1>10. Watched # <<>>
  BY <1>8, <1>9, NotEmpty
<1> QED
  BY <1>4, <1>6, <1>8, <1>9, <1>10

LEMMA PollingIsSound ==
  /\ SoundWatch(Polling)
  /\ Polling = [at |-> Polling.at, payload |-> Polling.payload, left |-> Polling.left]
  /\ Polling.left \in Seq(SpecialistPolicies)
<1>1. Polling.at = "poll" /\ Polling.left = Watched
      /\ Polling = [at |-> Polling.at, payload |-> Polling.payload, left |-> Polling.left]
  BY DEF Polling
<1> DEFINE n == Len(Watched)
<1>2. n \in Nat
  BY WatchedFacts
<1> HIDE DEF n
<1>3. \A i \in 1..n : n - n + i = i
  BY <1>2
<1>4. \A i \in 1..Len(Watched) : Watched[i] = Watched[Len(Watched) - Len(Watched) + i]
  BY <1>3 DEF n
<1>5. Len(Watched) <= Len(Watched)
  BY <1>2 DEF n
<1>6. SoundWatch(Polling)
  BY <1>1, <1>4, <1>5 DEF SoundWatch
<1> QED
  BY <1>1, <1>6, WatchedFacts

LEMMA NothingInAnEmptyFile == Range(<<>>) = {}
BY DEF Range

LEMMA InitIInv == Init => IInv
<1> SUFFICES ASSUME Init
             PROVE  IInv
  OBVIOUS
<1> USE DEF Init
<1>1. TypeInv
  <2>1. MaxEdits \in Nat
    BY ConstantFacts
  <2>2. tree \in [{"data", "evaluator", "training"} -> 0..MaxEdits]
    <3>1. 0 \in 0..MaxEdits
      BY <2>1
    <3> QED
      BY <3>1
  <2>3. used \in [runs : Nat, edits : 0..MaxEdits, faults : Nat, trainings : Nat]
    BY <2>1
  <2>4. \A what \in DOMAIN tree : tree[what] <= used.edits
    OBVIOUS
  <2>5. trained \in [SpecialistPolicies -> Checkpoints \cup {None}]
        /\ \A p \in SpecialistPolicies : trained[p] = None
    OBVIOUS
  <2>6. files \in [Policies -> Seq(Rows)]
    OBVIOUS
  <2>7. /\ watch = [at |-> watch.at, payload |-> watch.payload, left |-> watch.left]
        /\ watch.left \in Seq(SpecialistPolicies)
    BY PollingIsSound
  <2> QED
    BY <2>2, <2>3, <2>4, <2>5, <2>6, <2>7 DEF TypeInv
<1>2. RowsAreInPlace
  BY NothingInAnEmptyFile DEF RowsAreInPlace
<1>3. PlanIsSound /\ UnselectedAreAway /\ EvaluatedAreWhole /\ MarkerIsLast
  BY DEF PlanIsSound, UnselectedAreAway, EvaluatedAreWhole, MarkerIsLast
<1>4. /\ TrainingIsNext /\ EvaluationIsNext /\ CacheIsKept /\ DoneIsKept
      /\ CheckpointIsShort
  BY DEF TrainingIsNext, EvaluationIsNext, CacheIsKept, DoneIsKept, CheckpointIsShort,
         Evaluating
<1>5. MarkerIsTrue /\ MarkerDescribesDisk
  BY DEF MarkerIsTrue, MarkerDescribesDisk
<1>6. WatchIsSound
  BY PollingIsSound DEF WatchIsSound
<1> QED
  BY <1>1, <1>2, <1>3, <1>4, <1>5, <1>6 DEF IInv

----------------------------------------------------------------------------
(* The steps of the run: data, trainings, report and completion.           *)

LEMMA Counted ==
  ASSUME IInv, NEW what \in {"runs", "faults", "trainings"}, used' = Count(what)
  PROVE  /\ used' \in [runs : Nat, edits : 0..MaxEdits, faults : Nat, trainings : Nat]
         /\ used'.edits = used.edits /\ used'.trainings >= used.trainings
         /\ what = "trainings" => used'.trainings = used.trainings + 1
<1>1. used \in [runs : Nat, edits : 0..MaxEdits, faults : Nat, trainings : Nat]
  BY DEF IInv, TypeInv
<1>2. used.runs \in Nat /\ used.faults \in Nat /\ used.trainings \in Nat
  BY <1>1
<1> QED
  BY <1>1, <1>2 DEF Count

\* The types after a step that keeps the configuration and the checkpoints.
LEMMA TypesKept ==
  ASSUME IInv, tree' = tree, trained' = trained,
         data' \in (0..MaxEdits) \cup {None},
         files' \in [Policies -> Seq(Rows)],
         run' = None \/ run' \in [request : Requests, todo : Seq(AllSteps)],
         proc' = None \/ proc' \in Trainings \/ proc' \in Evaluators,
         watch' = watch,
         \/ used' = used
         \/ used' = Count("runs") \/ used' = Count("faults")
  PROVE  TypeInv'
<1>1. TypeInv
  BY DEF IInv
<1>2. /\ used' \in [runs : Nat, edits : 0..MaxEdits, faults : Nat, trainings : Nat]
      /\ used'.edits = used.edits /\ used'.trainings >= used.trainings
  <2>1. CASE used' = used
    BY <1>1, <2>1 DEF TypeInv
  <2>2. CASE used' = Count("runs")
    BY <2>2, Counted
  <2>3. CASE used' = Count("faults")
    BY <2>3, Counted
  <2> QED
    BY <2>1, <2>2, <2>3
<1>3. \A p \in SpecialistPolicies : trained[p] = None \/ trained[p].model <= used'.trainings
  <2> SUFFICES ASSUME NEW p \in SpecialistPolicies, trained[p] # None
               PROVE  trained[p].model <= used'.trainings
    OBVIOUS
  <2>1. trained[p] \in Checkpoints /\ trained[p].model <= used.trainings
    BY <1>1 DEF TypeInv
  <2>2. trained[p].model \in Nat /\ used.trainings \in Nat /\ used'.trainings \in Nat
    BY <1>1, <1>2, <2>1 DEF TypeInv, Checkpoints
  <2> QED
    BY <1>2, <2>1, <2>2
<1> QED
  BY <1>1, <1>2, <1>3 DEF TypeInv

LEMMA StartRunKeeps ==
  ASSUME IInv, NEW request \in Requests, StartRun(request)
  PROVE  IInv'
<1>1. /\ run' = [request |-> request, todo |-> Steps(request)] /\ marker' = None
      /\ run = None /\ proc = None /\ proc' = proc /\ used' = Count("runs")
      /\ tree' = tree /\ data' = data /\ trained' = trained /\ files' = files
      /\ watch' = watch
  BY DEF StartRun
<1>2. /\ Steps(request) \in Seq(AllSteps) /\ IsSound(Steps(request), request)
      /\ InPlan(Steps(request), Step("unselected", None))
      /\ \A p \in Selected(request) : InPlan(Steps(request), Step("evaluate", p))
  BY StepsAreSound
<1>3. run' \in [request : Requests, todo : Seq(AllSteps)]
      /\ run'.request = request /\ run'.todo = Steps(request)
  BY <1>1, <1>2
<1>4. TypeInv'
  <2>1. data \in (0..MaxEdits) \cup {None} /\ files \in [Policies -> Seq(Rows)]
    BY DEF IInv, TypeInv
  <2> QED
    BY <1>1, <1>3, <2>1, TypesKept
<1>5. PlanIsSound' /\ UnselectedAreAway' /\ EvaluatedAreWhole'
  BY <1>2, <1>3 DEF PlanIsSound, UnselectedAreAway, EvaluatedAreWhole
<1>6. MarkerIsLast'
  BY <1>1 DEF MarkerIsLast
<1> QED
  BY <1>1, <1>4, <1>5, <1>6, Framed DEF IInv

LEMMA PrepareDataKeeps ==
  ASSUME IInv, PrepareData
  PROVE  IInv'
<1>1. /\ Doing("prepare") /\ data' = tree.data /\ run' = Advanced
      /\ tree' = tree /\ trained' = trained /\ files' = files /\ marker' = marker
      /\ reported' = reported /\ proc' = proc /\ watch' = watch /\ used' = used
  BY DEF PrepareData
<1>2. run # None /\ proc = None /\ Head(run.todo).does = "prepare"
  BY <1>1, DoingFacts
<1>3. /\ run'.request = run.request /\ run'.todo = Tail(run.todo)
      /\ run' \in [request : Requests, todo : Seq(AllSteps)]
      /\ PlanIsSound' /\ UnselectedAreAway'
  BY <1>1, <1>2, Advancing
<1>4. TypeInv'
  <2>1. tree.data \in 0..MaxEdits /\ files \in [Policies -> Seq(Rows)]
    BY DEF IInv, TypeInv
  <2> QED
    BY <1>1, <1>2, <1>3, <2>1, TypesKept
<1>5. EvaluatedAreWhole'
  <2>1. /\ IsSound(run.todo, run.request) /\ Head(run.todo) = run.todo[1]
        /\ 1 \in 1..Len(run.todo) /\ run.todo \in Seq(AllSteps) /\ run.todo # <<>>
    BY <1>2, RunFacts
  <2>2. \A p \in Selected(run.request) : InPlan(run.todo, Step("evaluate", p))
    BY <1>2, <2>1 DEF IsSound
  <2>3. \A p : Step("evaluate", p).does = "evaluate"
    BY DEF Step
  <2>4. \A p \in Selected(run.request) : InPlan(Tail(run.todo), Step("evaluate", p))
    BY <1>2, <2>1, <2>2, <2>3, PlanTail
  <2> QED
    BY <1>3, <2>4 DEF EvaluatedAreWhole
<1>6. MarkerIsLast'
  BY <1>1, <1>2, RunFacts DEF MarkerIsLast
<1> QED
  BY <1>1, <1>2, <1>3, <1>4, <1>5, <1>6, Framed DEF IInv

LEMMA ArchiveUnselectedKeeps ==
  ASSUME IInv, ArchiveUnselected
  PROVE  IInv'
<1>1. /\ Doing("unselected") /\ run' = Advanced
      /\ files' = [p \in Policies |-> IF p \in Policies \ Selected(run.request)
                                      THEN <<>> ELSE files[p]]
      /\ tree' = tree /\ data' = data /\ trained' = trained /\ marker' = marker
      /\ reported' = reported /\ proc' = proc /\ watch' = watch /\ used' = used
  BY DEF ArchiveUnselected
<1>2. run # None /\ proc = None /\ Head(run.todo).does = "unselected"
  BY <1>1, DoingFacts
<1>3. /\ run.request \in Requests /\ run.todo \in Seq(AllSteps) /\ run.todo # <<>>
      /\ IsSound(run.todo, run.request) /\ marker = None
      /\ run' = [request |-> run.request, todo |-> Tail(run.todo)]
  BY <1>1, <1>2, RunFacts
<1>4. Tail(run.todo) \in Seq(AllSteps) /\ IsSound(Tail(run.todo), run.request)
  BY <1>2, <1>3, SoundTail
<1>5. /\ run'.request = run.request /\ run'.todo = Tail(run.todo)
      /\ run' \in [request : Requests, todo : Seq(AllSteps)]
  BY <1>3, <1>4
<1>6. files \in [Policies -> Seq(Rows)] /\ data \in (0..MaxEdits) \cup {None}
  BY DEF IInv, TypeInv
<1>7. files' \in [Policies -> Seq(Rows)]
  BY <1>1, <1>6
<1>8. TypeInv'
  BY <1>1, <1>2, <1>5, <1>6, <1>7, TypesKept
<1>9. RowsAreInPlace'
  <2>1. \A p \in Policies : files'[p] = <<>> \/ files'[p] = files[p]
    BY <1>1
  <2> QED
    BY <2>1, NothingInAnEmptyFile DEF IInv, RowsAreInPlace
<1>10. PlanIsSound'
  BY <1>4, <1>5 DEF PlanIsSound
<1>11. UnselectedAreAway'
  BY <1>1, <1>5 DEF UnselectedAreAway
<1>12. EvaluatedAreWhole'
  <2>1. \A p : Step("evaluate", p).does = "evaluate"
    BY DEF Step
  <2>2. \A p : InPlan(run.todo, Step("evaluate", p)) => InPlan(run'.todo, Step("evaluate", p))
    BY <1>2, <1>3, <1>5, <2>1, PlanTail
  <2>3. \A p, request, eval : Answers(p, request, eval)' = Answers(p, request, eval)
    BY <1>1 DEF Answers, Model
  <2>4. \A p \in Selected(run.request) : files'[p] = files[p]
    BY <1>1, <1>3, PolicyFacts
  <2>5. EvaluatedAreWhole
    BY DEF IInv
  <2> HIDE DEF Answers
  <2> QED
    BY <1>1, <1>2, <1>5, <2>2, <2>3, <2>4, <2>5 DEF EvaluatedAreWhole
<1>13. MarkerIsLast'
  BY <1>1, <1>3 DEF MarkerIsLast
<1> QED
  BY <1>1, <1>2, <1>3, <1>8, <1>9, <1>10, <1>11, <1>12, <1>13, Framed DEF IInv

LEMMA PassingKeeps ==
  ASSUME IInv, Doing("train") \/ Doing("report"), run' = Advanced,
         reported' = reported \/ Doing("report"),
         UNCHANGED <<tree, data, trained, files, archive, marker, proc, watch, used>>
  PROVE  IInv'
<1>1. run # None /\ proc = None /\ marker = None
      /\ Head(run.todo).does \notin {"complete", "unselected", "evaluate"}
  <2>1. \E does \in {"train", "report"} : Doing(does)
    OBVIOUS
  <2> QED
    BY <2>1, DoingFacts, RunFacts
<1>2. /\ run' \in [request : Requests, todo : Seq(AllSteps)]
      /\ PlanIsSound' /\ UnselectedAreAway' /\ EvaluatedAreWhole'
  BY <1>1, Advancing
<1>3. TypeInv'
  <2>1. data \in (0..MaxEdits) \cup {None} /\ files \in [Policies -> Seq(Rows)]
    BY DEF IInv, TypeInv
  <2> QED
    BY <1>1, <1>2, <2>1, TypesKept
<1>4. MarkerIsLast'
  BY <1>1 DEF MarkerIsLast
<1> QED
  BY <1>1, <1>2, <1>3, <1>4, Framed DEF IInv

LEMMA TrainingKeepsTypes ==
  ASSUME IInv, NEW policy \in SpecialistPolicies, Training(policy)
  PROVE  /\ trained' \in [SpecialistPolicies -> Checkpoints \cup {None}]
         /\ \A p \in SpecialistPolicies : trained'[p] \in {trained[p], None}
         /\ \A p \in SpecialistPolicies : p # policy => trained'[p] = trained[p]
         /\ proc' \in Trainings /\ proc'.policy = policy /\ proc'.does = "train"
<1>1. /\ trained' = [trained EXCEPT ![policy] = None]
      /\ proc' = [does |-> "train", policy |-> policy, signature |-> TrainSignature]
  BY DEF Training
<1>2. trained \in [SpecialistPolicies -> Checkpoints \cup {None}]
  BY DEF IInv, TypeInv
<1>3. tree.training \in 0..MaxEdits /\ data \in (0..MaxEdits) \cup {None}
  BY DEF IInv, TypeInv
<1>4. TrainSignature \in Sources
  BY <1>3 DEF TrainSignature, Sources
<1>5. proc' \in Trainings /\ proc'.policy = policy /\ proc'.does = "train"
  BY <1>1, <1>4 DEF Trainings
<1> QED
  BY <1>1, <1>2, <1>5

\* The part of the invariant that is about evaluations only.
LEMMA NoEvaluation ==
  ASSUME proc' = None \/ proc'.does = "train"
  PROVE  EvaluationIsNext' /\ CacheIsKept' /\ DoneIsKept' /\ CheckpointIsShort'
BY DEF EvaluationIsNext, CacheIsKept, DoneIsKept, CheckpointIsShort, Evaluating

\* Between a training's start and its end the run has its evaluation to come.
LEMMA TrainedIsToCome ==
  ASSUME IInv, run # None, Head(run.todo).does = "train"
  PROVE  /\ Head(run.todo).policy \in SpecialistPolicies
         /\ InPlan(Tail(run.todo), Step("evaluate", Head(run.todo).policy))
         /\ InPlan(run.todo, Step("evaluate", Head(run.todo).policy))
<1>1. /\ IsSound(run.todo, run.request) /\ Head(run.todo) = run.todo[1]
      /\ 1 \in 1..Len(run.todo) /\ run.todo \in Seq(AllSteps) /\ run.todo # <<>>
  BY RunFacts
<1> DEFINE policy == Head(run.todo).policy
<1>2. /\ policy \in SpecialistPolicies
      /\ \E j \in (1 + 1)..Len(run.todo) : run.todo[j] = Step("evaluate", policy)
  BY <1>1 DEF IsSound
<1>3. InPlan(run.todo, Step("evaluate", policy))
  <2>1. Len(run.todo) \in Nat
    BY <1>1
  <2> QED
    BY <1>2, <2>1 DEF InPlan
<1>4. Step("evaluate", policy).does = "evaluate"
  BY DEF Step
<1>5. InPlan(Tail(run.todo), Step("evaluate", policy))
  BY <1>1, <1>3, <1>4, PlanTail
<1> QED
  BY <1>2, <1>3, <1>5

LEMMA StartTrainingKeeps ==
  ASSUME IInv, StartTraining
  PROVE  IInv'
<1> DEFINE policy == StepPolicy
<1>1. /\ Doing("train") /\ Training(policy)
      /\ tree' = tree /\ data' = data /\ files' = files /\ marker' = marker
      /\ reported' = reported /\ run' = run /\ watch' = watch /\ used' = used
  BY DEF StartTraining
<1>2. run # None /\ proc = None /\ Head(run.todo).does = "train" /\ marker = None
  BY <1>1, DoingFacts, RunFacts
<1>3. policy = Head(run.todo).policy /\ policy \in SpecialistPolicies
      /\ InPlan(run.todo, Step("evaluate", policy))
  BY <1>2, TrainedIsToCome DEF StepPolicy
<1> HIDE DEF policy
<1>4. /\ trained' \in [SpecialistPolicies -> Checkpoints \cup {None}]
      /\ \A p \in SpecialistPolicies : trained'[p] \in {trained[p], None}
      /\ \A p \in SpecialistPolicies : p # policy => trained'[p] = trained[p]
      /\ proc' \in Trainings /\ proc'.policy = policy /\ proc'.does = "train"
  BY <1>1, <1>3, TrainingKeepsTypes
<1>5. TypeInv'
  <2>1. \A p \in SpecialistPolicies : trained'[p] = None \/ trained'[p].model <= used'.trainings
    BY <1>1, <1>4 DEF IInv, TypeInv
  <2> QED
    BY <1>1, <1>4, <2>1 DEF IInv, TypeInv
<1>6. TrainingIsNext'
  <2>1. Head(run.todo) \in AllSteps /\ Head(run.todo).does = "train"
    BY <1>2, RunFacts
  <2>2. Head(run.todo) = Step("train", policy)
    BY <1>3, <2>1 DEF AllSteps, Step
  <2> QED
    BY <1>1, <1>4, <2>2 DEF TrainingIsNext
<1>7. PlanIsSound' /\ UnselectedAreAway' /\ MarkerIsLast'
  BY <1>1, <1>2 DEF IInv, PlanIsSound, UnselectedAreAway, MarkerIsLast
<1>8. EvaluatedAreWhole'
  <2>1. run.request \in Requests
    BY <1>2, RunFacts
  <2>2. ASSUME NEW p \in Selected(run.request), ~InPlan(run.todo, Step("evaluate", p))
        PROVE  \A eval : Answers(p, run.request, eval)' = Answers(p, run.request, eval)
    <3>1. p # policy
      BY <1>3, <2>2
    <3>2. p = BasePolicy \/ p \in SpecialistPolicies
      BY <2>1, PolicyFacts
    <3>3. Model(p)' = Model(p)
      BY <1>4, <3>1, <3>2 DEF Model
    <3> QED
      BY <1>1, <3>3 DEF Answers
  <2>3. EvaluatedAreWhole
    BY DEF IInv
  <2> HIDE DEF Answers
  <2> QED
    BY <1>1, <2>2, <2>3 DEF EvaluatedAreWhole
<1> QED
  BY <1>1, <1>2, <1>4, <1>5, <1>6, <1>7, <1>8, NoEvaluation, Framed DEF IInv

LEMMA ForceTrainingKeeps ==
  ASSUME IInv, NEW policy \in SpecialistPolicies, ForceTraining(policy)
  PROVE  IInv'
<1>1. /\ run = None /\ run' = run /\ Training(policy) /\ used.edits < MaxEdits
      /\ used' = Count("edits") /\ tree' = tree /\ data' = data /\ files' = files
      /\ marker' = marker /\ reported' = reported /\ watch' = watch
  BY DEF ForceTraining
<1>2. /\ trained' \in [SpecialistPolicies -> Checkpoints \cup {None}]
      /\ \A p \in SpecialistPolicies : trained'[p] \in {trained[p], None}
      /\ proc' \in Trainings /\ proc'.policy = policy /\ proc'.does = "train"
  BY <1>1, TrainingKeepsTypes
<1>3. used \in [runs : Nat, edits : 0..MaxEdits, faults : Nat, trainings : Nat]
      /\ MaxEdits \in Nat
  BY ConstantFacts DEF IInv, TypeInv
<1>4. /\ used' \in [runs : Nat, edits : 0..MaxEdits, faults : Nat, trainings : Nat]
      /\ used'.edits = used.edits + 1 /\ used'.trainings = used.trainings
  <2>1. used.edits \in Nat /\ used.edits + 1 \in 0..MaxEdits
    BY <1>1, <1>3
  <2> QED
    BY <1>1, <1>3, <2>1 DEF Count
<1>5. TypeInv'
  <2>1. \A p \in SpecialistPolicies : trained'[p] = None \/ trained'[p].model <= used'.trainings
    BY <1>2, <1>4 DEF IInv, TypeInv
  <2>2. \A what \in DOMAIN tree : tree[what] <= used'.edits
    <3>1. /\ tree \in [{"data", "evaluator", "training"} -> 0..MaxEdits]
          /\ \A what \in DOMAIN tree : tree[what] <= used.edits
      BY DEF IInv, TypeInv
    <3>2. \A what \in DOMAIN tree : tree[what] \in Nat
      BY <1>3, <3>1
    <3>3. used.edits \in Nat
      BY <1>3
    <3> QED
      BY <1>4, <3>1, <3>2, <3>3
  <2> QED
    BY <1>1, <1>2, <1>4, <2>1, <2>2 DEF IInv, TypeInv
<1>6. TrainingIsNext'
  BY <1>1 DEF TrainingIsNext
<1> QED
  BY <1>1, <1>2, <1>5, <1>6, NoEvaluation, Framed DEF IInv

LEMMA FinishTrainingKeeps ==
  ASSUME IInv, FinishTraining
  PROVE  IInv'
<1>1. /\ proc # None /\ proc.does = "train"
      /\ trained' = [trained EXCEPT ![proc.policy] =
           [signature |-> proc.signature, model |-> used.trainings + 1]]
      /\ used' = Count("trainings") /\ proc' = None
      /\ run' = (IF run = None THEN None ELSE Advanced)
      /\ tree' = tree /\ data' = data /\ files' = files
      /\ marker' = marker /\ reported' = reported /\ watch' = watch
  BY DEF FinishTraining
<1>2. proc \in Trainings
  <2>1. proc \notin Evaluators
    BY <1>1 DEF Evaluators
  <2> QED
    BY <1>1, <2>1 DEF IInv, TypeInv
<1>3. proc.policy \in SpecialistPolicies /\ proc.signature \in Sources
  BY <1>2 DEF Trainings
<1>4. /\ used' \in [runs : Nat, edits : 0..MaxEdits, faults : Nat, trainings : Nat]
      /\ used'.edits = used.edits /\ used'.trainings = used.trainings + 1
      /\ used.trainings \in Nat
  BY <1>1, Counted DEF IInv, TypeInv
<1>5. [signature |-> proc.signature, model |-> used.trainings + 1] \in Checkpoints
  BY <1>3, <1>4 DEF Checkpoints
<1>6. /\ trained' \in [SpecialistPolicies -> Checkpoints \cup {None}]
      /\ \A p \in SpecialistPolicies : p # proc.policy => trained'[p] = trained[p]
      /\ trained'[proc.policy].model = used.trainings + 1
  BY <1>1, <1>3, <1>5 DEF IInv, TypeInv
<1>7. \A p \in SpecialistPolicies : trained'[p] = None \/ trained'[p].model <= used'.trainings
  <2> SUFFICES ASSUME NEW p \in SpecialistPolicies, trained'[p] # None
               PROVE  trained'[p].model <= used'.trainings
    OBVIOUS
  <2>1. CASE p = proc.policy
    BY <1>4, <1>6, <2>1
  <2>2. CASE p # proc.policy
    <3>1. /\ trained[p] = trained'[p] /\ trained[p] \in Checkpoints
          /\ trained[p].model <= used.trainings
      BY <1>6, <2>2 DEF IInv, TypeInv
    <3>2. trained[p].model \in Nat
      BY <3>1 DEF Checkpoints
    <3> QED
      BY <1>4, <3>1, <3>2
  <2> QED
    BY <2>1, <2>2
<1>8. run # None =>
        /\ Head(run.todo) = Step("train", proc.policy) /\ marker = None
        /\ Head(run.todo).does = "train" /\ Head(run.todo).policy = proc.policy
        /\ run' = Advanced
  BY <1>1, RunFacts DEF IInv, TrainingIsNext, Step
<1>9. run # None =>
        /\ run'.request = run.request /\ run'.todo = Tail(run.todo)
        /\ run' \in [request : Requests, todo : Seq(AllSteps)]
        /\ PlanIsSound' /\ UnselectedAreAway'
  BY <1>1, <1>8, Advancing
<1>10. TypeInv'
  <2>1. run' = None \/ run' \in [request : Requests, todo : Seq(AllSteps)]
    BY <1>1, <1>9
  <2> QED
    BY <1>1, <1>4, <1>6, <1>7, <2>1 DEF IInv, TypeInv
<1>11. PlanIsSound' /\ UnselectedAreAway'
  BY <1>1, <1>9, Framed
<1>12. EvaluatedAreWhole'
  <2>1. CASE run = None
    BY <1>1, <2>1, Framed
  <2>2. CASE run # None
    <3>1. /\ run.request \in Requests /\ run.todo \in Seq(AllSteps) /\ run.todo # <<>>
      BY <2>2, RunFacts
    <3>2. InPlan(Tail(run.todo), Step("evaluate", proc.policy))
      BY <1>8, <2>2, TrainedIsToCome
    <3>3. \A p : Step("evaluate", p).does = "evaluate"
      BY DEF Step
    <3>4. \A p : InPlan(run.todo, Step("evaluate", p)) => InPlan(Tail(run.todo), Step("evaluate", p))
      BY <1>8, <2>2, <3>1, <3>3, PlanTail
    <3>5. ASSUME NEW p \in Selected(run.request), ~InPlan(Tail(run.todo), Step("evaluate", p))
          PROVE  \A eval : Answers(p, run.request, eval)' = Answers(p, run.request, eval)
      <4>1. p # proc.policy
        BY <3>2, <3>5
      <4>2. p = BasePolicy \/ p \in SpecialistPolicies
        BY <3>1, PolicyFacts
      <4>3. Model(p)' = Model(p)
        BY <1>6, <4>1, <4>2 DEF Model
      <4>4. run'.request = run.request
        BY <1>9, <2>2
      <4> QED
        BY <4>3, <4>4 DEF Answers
    <3>6. \A p \in Selected(run.request) : ~InPlan(Tail(run.todo), Step("evaluate", p)) =>
            \E e \in 0..MaxEdits :
              files[p] = Answers(p, run.request,
                [data |-> data, evaluator |-> e, asked |-> AskedOf(run.request)])
      BY <2>2, <3>4 DEF IInv, EvaluatedAreWhole
    <3>7. run'.request = run.request /\ run'.todo = Tail(run.todo)
          /\ data' = data /\ files' = files
      BY <1>1, <1>9, <2>2
    <3> HIDE DEF Answers
    <3>8. \A p \in Selected(run.request) : ~InPlan(Tail(run.todo), Step("evaluate", p)) =>
            \E e \in 0..MaxEdits :
              files'[p] = Answers(p, run.request,
                [data |-> data, evaluator |-> e, asked |-> AskedOf(run.request)])'
      BY <3>5, <3>6, <3>7
    <3> QED
      BY <3>7, <3>8 DEF EvaluatedAreWhole
  <2> QED
    BY <2>1, <2>2
<1>13. MarkerIsLast'
  BY <1>1, <1>8 DEF MarkerIsLast
<1> QED
  BY <1>1, <1>10, <1>11, <1>12, <1>13, NoEvaluation, Framed DEF IInv, TrainingIsNext

----------------------------------------------------------------------------
(* The ends of a run.                                                      *)

\* A run that ends without completing keeps what is known of the files.
LEMMA EndingKeeps ==
  ASSUME IInv, run' = None, proc' = None,
         files' \in [Policies -> Seq(Rows)], RowsAreInPlace',
         files' = files \/ marker = None,
         UNCHANGED <<tree, data, trained, marker, reported, watch>>,
         used' = used \/ used' = Count("faults")
  PROVE  IInv'
<1>1. TypeInv'
  <2>1. data \in (0..MaxEdits) \cup {None}
    BY DEF IInv, TypeInv
  <2> QED
    BY <2>1, TypesKept
<1>2. MarkerDescribesDisk'
  BY Framed
<1> QED
  BY <1>1, <1>2, Framed DEF IInv

LEMMA RefuseKeeps ==
  ASSUME IInv, Refuse
  PROVE  IInv'
<1>1. /\ run' = None /\ proc = None /\ proc' = proc /\ files' = files
      /\ UNCHANGED <<tree, data, trained, marker, reported, watch, used>>
  BY DEF Refuse, Doing
<1>2. files \in [Policies -> Seq(Rows)]
  BY DEF IInv, TypeInv
<1>3. RowsAreInPlace'
  BY <1>1, Framed
<1> QED
  BY <1>1, <1>2, <1>3, EndingKeeps

LEMMA CrashKeeps ==
  ASSUME IInv, Crash
  PROVE  IInv'
<1>1. /\ run' = None /\ proc' = None /\ files' = files /\ used' = Count("faults")
      /\ UNCHANGED <<tree, data, trained, marker, reported, watch>>
  BY DEF Crash, Fault
<1>2. files \in [Policies -> Seq(Rows)]
  BY DEF IInv, TypeInv
<1>3. RowsAreInPlace'
  BY <1>1, Framed
<1> QED
  BY <1>1, <1>2, <1>3, EndingKeeps

----------------------------------------------------------------------------
(* The rows an evaluator appends.                                          *)

LEMMA RangeOfJoined ==
  ASSUME NEW T, NEW s \in Seq(T), NEW t \in Seq(T)
  PROVE  s \o t \in Seq(T) /\ Range(s \o t) = Range(s) \cup Range(t)
<1> DEFINE w == s \o t
<1>1. /\ w \in Seq(T) /\ Len(w) = Len(s) + Len(t)
      /\ \A i \in 1..Len(s) : w[i] = s[i]
      /\ \A i \in 1..Len(t) : w[Len(s) + i] = t[i]
      /\ Len(s) \in Nat /\ Len(t) \in Nat
  BY Joined
<1>2. DOMAIN w = 1..Len(w) /\ DOMAIN s = 1..Len(s) /\ DOMAIN t = 1..Len(t)
  BY <1>1
<1> HIDE DEF w
<1>3. \A i \in 1..Len(w) : w[i] \in Range(s) \cup Range(t)
  <2> SUFFICES ASSUME NEW i \in 1..Len(w)
               PROVE  w[i] \in Range(s) \cup Range(t)
    OBVIOUS
  <2>1. CASE i <= Len(s)
    <3>1. i \in 1..Len(s)
      BY <1>1, <2>1
    <3> QED
      BY <1>1, <1>2, <3>1 DEF Range
  <2>2. CASE ~(i <= Len(s))
    <3>1. i - Len(s) \in 1..Len(t) /\ Len(s) + (i - Len(s)) = i
      BY <1>1, <2>2
    <3>2. w[i] = t[i - Len(s)]
      BY <1>1, <3>1
    <3> QED
      BY <1>2, <3>1, <3>2 DEF Range
  <2> QED
    BY <2>1, <2>2
<1>4. \A i \in 1..Len(s) : s[i] \in Range(w)
  <2>1. \A i \in 1..Len(s) : i \in 1..Len(w)
    BY <1>1
  <2> QED
    BY <1>1, <1>2, <2>1 DEF Range
<1>5. \A i \in 1..Len(t) : t[i] \in Range(w)
  <2>1. \A i \in 1..Len(t) : Len(s) + i \in 1..Len(w)
    BY <1>1
  <2> QED
    BY <1>1, <1>2, <2>1 DEF Range
<1>6. Range(w) \subseteq Range(s) \cup Range(t)
  BY <1>2, <1>3 DEF Range
<1>7. Range(s) \subseteq Range(w) /\ Range(t) \subseteq Range(w)
  BY <1>2, <1>4, <1>5 DEF Range
<1>8. Range(w) = Range(s) \cup Range(t)
  BY <1>6, <1>7
<1> QED
  BY <1>1, <1>8 DEF w

LEMMA RangeOfAppended ==
  ASSUME NEW T, NEW s \in Seq(T), NEW e \in T
  PROVE  /\ Append(s, e) \in Seq(T) /\ Len(Append(s, e)) = Len(s) + 1
         /\ Range(Append(s, e)) = Range(s) \cup {e}
<1> DEFINE w == Append(s, e)
<1>1. /\ w \in Seq(T) /\ Len(w) = Len(s) + 1 /\ Len(s) \in Nat
      /\ w[Len(s) + 1] = e /\ \A i \in 1..Len(s) : w[i] = s[i]
      /\ DOMAIN s = 1..Len(s) /\ DOMAIN w = 1..(Len(s) + 1)
  OBVIOUS
<1> HIDE DEF w
<1>2. \A i \in 1..(Len(s) + 1) : i \in 1..Len(s) \/ i = Len(s) + 1
  BY <1>1
<1>3. \A i \in 1..Len(s) : i \in 1..(Len(s) + 1)
  BY <1>1
<1>4. Len(s) + 1 \in 1..(Len(s) + 1)
  BY <1>1
<1>5. Range(w) \subseteq Range(s) \cup {e}
  BY <1>1, <1>2 DEF Range
<1>6. Range(s) \cup {e} \subseteq Range(w)
  BY <1>1, <1>3, <1>4 DEF Range
<1> QED
  BY <1>1, <1>5, <1>6 DEF w

\* What a kill leaves of an append.
LEMMA PartsOf ==
  ASSUME NEW T, NEW s \in Seq(T), NEW n \in 0..Len(s)
  PROVE  SubSeq(s, 1, n) \in Seq(T) /\ Range(SubSeq(s, 1, n)) \subseteq Range(s)
<1> DEFINE w == SubSeq(s, 1, n)
<1>1. Len(s) \in Nat /\ n \in Nat /\ n <= Len(s) /\ DOMAIN s = 1..Len(s)
  OBVIOUS
<1>2. /\ w \in Seq(T) /\ DOMAIN w = 1..n /\ \A i \in 1..n : w[i] = s[i]
  BY <1>1
<1> HIDE DEF w
<1>3. \A i \in 1..n : i \in 1..Len(s)
  BY <1>1
<1>4. Range(w) \subseteq Range(s)
  BY <1>1, <1>2, <1>3 DEF Range
<1> QED
  BY <1>2, <1>4 DEF w

\* The file an evaluator appends to is still its policy's.
LEMMA AppendingRows ==
  ASSUME IInv, Evaluating, NEW more \in Seq(Rows),
         \A row \in Range(more) : IsOfRun(row),
         files' = [files EXCEPT ![proc.policy] = @ \o more]
  PROVE  /\ files' \in [Policies -> Seq(Rows)] /\ RowsAreInPlace'
         /\ \A p \in Policies : p # proc.policy => files'[p] = files[p]
         /\ Range(files'[proc.policy]) = Range(files[proc.policy]) \cup Range(more)
<1> DEFINE policy == proc.policy
           rows == files[policy] \o more
<1>1. /\ policy \in Policies /\ files \in [Policies -> Seq(Rows)]
      /\ files[policy] \in Seq(Rows) /\ proc.id.policy = policy
      /\ Jobs = GridOf(proc.id.eval)
  BY EvaluatorFacts
<1>2. rows \in Seq(Rows) /\ Range(rows) = Range(files[policy]) \cup Range(more)
  BY <1>1, RangeOfJoined
<1>3. files' = [files EXCEPT ![policy] = rows]
  BY <1>1
<1> HIDE DEF rows
<1>4. /\ files' \in [Policies -> Seq(Rows)] /\ files'[policy] = rows
      /\ \A p \in Policies : p # policy => files'[p] = files[p]
  BY <1>1, <1>2, <1>3
<1>5. \A row \in Range(more) :
        row.run.policy = policy /\ row.key \in Range(GridOf(row.run.eval))
  BY <1>1 DEF IsOfRun
<1>6. RowsAreInPlace'
  <2>1. RowsAreInPlace
    BY DEF IInv
  <2> QED
    BY <1>1, <1>2, <1>4, <1>5, <2>1 DEF RowsAreInPlace
<1> QED
  BY <1>2, <1>4, <1>6

\* The checkpoint with the row of an episode that ends.
LEMMA AnsweredRows ==
  ASSUME IInv, Evaluating, proc.rewritten, NEW key \in InFlight
  PROVE  /\ [key |-> key, run |-> proc.id] \in Rows
         /\ IsOfRun([key |-> key, run |-> proc.id])
         /\ Answered(key) \in Seq(Rows) /\ Len(Answered(key)) = Len(proc.buffer) + 1
         /\ Range(Answered(key)) = Range(proc.buffer) \cup {[key |-> key, run |-> proc.id]}
         /\ \A row \in Range(Answered(key)) : IsOfRun(row)
<1>1. Jobs \in Seq(Cells) /\ proc.id \in Runs /\ proc.buffer \in Seq(Rows)
  BY EvaluatorFacts
<1>2. key \in Range(Jobs) /\ key \in Cells
  <2>1. PICK i \in DOMAIN Jobs : key = Jobs[i]
    BY DEF InFlight, Left
  <2> HIDE DEF Jobs
  <2> QED
    BY <1>1, <2>1 DEF Range
<1> DEFINE last == [key |-> key, run |-> proc.id]
<1>3. last \in Rows /\ last.run = proc.id /\ last.key = key
  BY <1>1, <1>2 DEF Rows
<1>4. IsOfRun(last)
  BY <1>2, <1>3 DEF IsOfRun
<1>5. \A row \in Range(proc.buffer) : IsOfRun(row)
  BY DEF IInv, DoneIsKept
<1>6. Answered(key) = Append(proc.buffer, last)
  BY DEF Answered
<1> HIDE DEF last
<1>7. /\ Answered(key) \in Seq(Rows) /\ Len(Answered(key)) = Len(proc.buffer) + 1
      /\ Range(Answered(key)) = Range(proc.buffer) \cup {last}
  BY <1>1, <1>3, <1>6, RangeOfAppended
<1>8. \A row \in Range(Answered(key)) : IsOfRun(row)
  BY <1>4, <1>5, <1>7
<1> QED
  BY <1>3, <1>4, <1>7, <1>8 DEF last

LEMMA EpisodeFailsKeeps ==
  ASSUME IInv, EpisodeFails
  PROVE  IInv'
<1>1. /\ Evaluating /\ proc.rewritten /\ run' = None /\ proc' = None
      /\ used' = Count("faults")
      /\ UNCHANGED <<tree, data, trained, marker, reported, watch>>
  BY DEF EpisodeFails, Fault
<1>2. PICK written \in 0..Len(proc.buffer) :
        files' = [files EXCEPT ![proc.policy] = @ \o SubSeq(proc.buffer, 1, written)]
  BY DEF EpisodeFails
<1>3. proc.buffer \in Seq(Rows) /\ run # None
  BY <1>1, EvaluatorFacts
<1> DEFINE more == SubSeq(proc.buffer, 1, written)
<1>4. more \in Seq(Rows) /\ Range(more) \subseteq Range(proc.buffer)
  BY <1>3, PartsOf
<1>5. \A row \in Range(proc.buffer) : IsOfRun(row)
  BY <1>1 DEF IInv, DoneIsKept
<1> HIDE DEF more
<1>6. files' \in [Policies -> Seq(Rows)] /\ RowsAreInPlace'
  BY <1>1, <1>2, <1>4, <1>5, AppendingRows DEF more
<1>7. marker = None
  BY <1>3, RunFacts
<1> QED
  BY <1>1, <1>6, <1>7, EndingKeeps

\* The rows about to be appended are answers of this run.
LEMMA PendingRows ==
  ASSUME IInv, Evaluating, proc.rewritten, NEW rows \in Pending
  PROVE  rows \in Seq(Rows) /\ \A row \in Range(rows) : IsOfRun(row)
<1>1. CASE \E key \in InFlight : rows = Answered(key)
  BY <1>1, AnsweredRows
<1>2. CASE rows = proc.buffer
  <2>1. proc.buffer \in Seq(Rows)
    BY EvaluatorFacts
  <2>2. \A row \in Range(proc.buffer) : IsOfRun(row)
    BY DEF IInv, DoneIsKept
  <2> QED
    BY <1>2, <2>1, <2>2
<1>3. (\E key \in InFlight : rows = Answered(key)) \/ rows = proc.buffer
  BY DEF Pending
<1> QED
  BY <1>1, <1>2, <1>3

LEMMA AppendFailsRows ==
  ASSUME IInv, AppendFails
  PROVE  \E more \in Seq(Rows) :
           /\ \A row \in Range(more) : IsOfRun(row)
           /\ files' = [files EXCEPT ![proc.policy] = @ \o more]
<1>1. Evaluating /\ proc.rewritten
  BY DEF AppendFails
<1>2. PICK rows \in Pending : \E once, again \in 0..Len(rows) :
       files' = [files EXCEPT ![proc.policy] =
                   @ \o SubSeq(rows, 1, once) \o SubSeq(rows, 1, again)]
  BY DEF AppendFails
<1>3. PICK once \in 0..Len(rows), again \in 0..Len(rows) :
        files' = [files EXCEPT ![proc.policy] =
                    @ \o SubSeq(rows, 1, once) \o SubSeq(rows, 1, again)]
  BY <1>2
<1>4. rows \in Seq(Rows) /\ \A row \in Range(rows) : IsOfRun(row)
  BY <1>1, PendingRows
<1> DEFINE a == SubSeq(rows, 1, once)
           b == SubSeq(rows, 1, again)
           f == files[proc.policy]
<1>5. /\ a \in Seq(Rows) /\ Range(a) \subseteq Range(rows)
      /\ b \in Seq(Rows) /\ Range(b) \subseteq Range(rows)
  BY <1>4, PartsOf
<1>6. /\ f \in Seq(Rows) /\ proc.policy \in Policies
      /\ files \in [Policies -> Seq(Rows)]
  BY <1>1, EvaluatorFacts
<1>7. files' = [files EXCEPT ![proc.policy] = (f \o a) \o b]
  BY <1>3, <1>6
<1> HIDE DEF a, b, f
<1>8. a \o b \in Seq(Rows) /\ Range(a \o b) = Range(a) \cup Range(b)
  BY <1>5, RangeOfJoined
<1>9. (f \o a) \o b = f \o (a \o b)
  BY <1>5, <1>6, SMTT(30)
<1>10. \A row \in Range(a \o b) : IsOfRun(row)
  BY <1>4, <1>5, <1>8
<1>11. files' = [files EXCEPT ![proc.policy] = @ \o (a \o b)]
  BY <1>6, <1>7, <1>9 DEF f
<1> QED
  BY <1>8, <1>10, <1>11

LEMMA AppendFailsKeeps ==
  ASSUME IInv, AppendFails
  PROVE  IInv'
<1>1. /\ Evaluating /\ proc.rewritten /\ run' = None /\ proc' = None
      /\ used' = Count("faults")
      /\ UNCHANGED <<tree, data, trained, marker, reported, watch>>
  BY DEF AppendFails, Fault
<1>2. files' \in [Policies -> Seq(Rows)] /\ RowsAreInPlace'
  BY <1>1, AppendFailsRows, AppendingRows
<1>3. marker = None
  BY <1>1, EvaluatorFacts, RunFacts
<1> QED
  BY <1>1, <1>2, <1>3, EndingKeeps

----------------------------------------------------------------------------
(* The steps of an evaluation.                                             *)

\* An evaluation is the one its run asks for, on the data the tree asks for.
LEMMA SignatureFacts ==
  ASSUME IInv, Doing("evaluate"), data = tree.data, HasModel(StepPolicy)
  PROVE  /\ StepPolicy \in Policies /\ StepPolicy \in Selected(run.request)
         /\ Head(run.todo) = Step("evaluate", StepPolicy)
         /\ RunSignature(StepPolicy, run.request) \in Runs
         /\ RunSignature(StepPolicy, run.request).policy = StepPolicy
<1> DEFINE policy == Head(run.todo).policy
<1>1. run # None /\ Head(run.todo).does = "evaluate"
  BY DoingFacts
<1>2. /\ run.request \in Requests /\ IsSound(run.todo, run.request)
      /\ Head(run.todo) = run.todo[1] /\ 1 \in 1..Len(run.todo)
      /\ Head(run.todo) \in AllSteps
  BY <1>1, RunFacts
<1>3. policy \in Selected(run.request) /\ policy \in Policies
      /\ (policy = BasePolicy \/ policy \in SpecialistPolicies)
  BY <1>1, <1>2, PolicyFacts DEF IsSound
<1>4. Head(run.todo) = Step("evaluate", policy)
  BY <1>1, <1>2 DEF AllSteps, Step
<1>5. Model(policy) \in Nat
  <2>1. CASE policy = BasePolicy
    BY <2>1 DEF Model
  <2>2. CASE policy # BasePolicy
    <3>1. trained[policy] # None
      BY <2>2 DEF HasModel, StepPolicy
    <3>2. trained[policy] \in Checkpoints
      BY <1>3, <2>2, <3>1 DEF IInv, TypeInv
    <3> QED
      BY <2>2, <3>2 DEF Model, Checkpoints
  <2> QED
    BY <2>1, <2>2
<1>6. Evaluation(run.request) \in Evals
  <2>1. tree.data \in 0..MaxEdits /\ tree.evaluator \in 0..MaxEdits
    BY DEF IInv, TypeInv
  <2>2. Min({run.request.limit, Len(Questions)}) \in Sizes
    BY <1>2, GridIsAsked DEF AskedOf
  <2> QED
    BY <2>1, <2>2 DEF Evaluation, Evals
<1>7. RunSignature(policy, run.request) \in Runs
      /\ RunSignature(policy, run.request).policy = policy
  BY <1>2, <1>3, <1>5, <1>6 DEF RunSignature, Runs
<1>8. policy = StepPolicy
  BY DEF StepPolicy
<1> QED
  BY <1>3, <1>4, <1>7, <1>8

\* What does not depend on the file of the policy that is evaluated.
LEMMA OtherFilesKept ==
  ASSUME IInv, run # None, run' = run, NEW policy \in Selected(run.request),
         InPlan(run.todo, Step("evaluate", policy)),
         files' \in [Policies -> Seq(Rows)],
         \A p \in Policies : p # policy => files'[p] = files[p],
         tree' = tree, data' = data, trained' = trained, marker' = marker
  PROVE  /\ PlanIsSound' /\ UnselectedAreAway' /\ EvaluatedAreWhole' /\ MarkerIsLast'
         /\ marker' = None
<1>1. run.request \in Requests /\ marker = None
  BY RunFacts
<1>2. PlanIsSound' /\ MarkerIsLast'
  BY <1>1 DEF IInv, PlanIsSound, MarkerIsLast
<1>3. UnselectedAreAway'
  BY DEF IInv, UnselectedAreAway
<1>4. EvaluatedAreWhole'
  <2>1. \A p, request, eval : Answers(p, request, eval)' = Answers(p, request, eval)
    BY DEF Answers, Model
  <2>2. \A p \in Selected(run.request) : p \in Policies
    BY <1>1, PolicyFacts
  <2>3. EvaluatedAreWhole
    BY DEF IInv
  <2> HIDE DEF Answers
  <2> QED
    BY <2>1, <2>2, <2>3 DEF EvaluatedAreWhole
<1> QED
  BY <1>1, <1>2, <1>3, <1>4

LEMMA StartEvaluationKeeps ==
  ASSUME IInv, StartEvaluation
  PROVE  IInv'
<1> DEFINE policy == StepPolicy
           id == RunSignature(policy, run.request)
           rows == files[policy]
           kept == Current(rows, id)
<1>1. /\ Doing("evaluate") /\ data = tree.data /\ HasModel(policy)
      /\ archive' = archive \cup Stale(rows, id)
      /\ proc' = Evaluator(policy, id, kept)
      /\ UNCHANGED <<tree, data, trained, files, marker, reported, run, watch, used>>
  BY DEF StartEvaluation
<1>2. /\ policy \in Policies /\ policy \in Selected(run.request)
      /\ Head(run.todo) = Step("evaluate", policy)
      /\ id \in Runs /\ id.policy = policy
  BY <1>1, SignatureFacts
<1>3. run # None /\ InPlan(run.todo, Head(run.todo))
  BY <1>1, DoingFacts, RunFacts
<1>4. /\ files \in [Policies -> Seq(Rows)] /\ data \in (0..MaxEdits) \cup {None}
      /\ run \in [request : Requests, todo : Seq(AllSteps)]
  BY <1>3 DEF IInv, TypeInv
<1>5. rows \in Seq(Rows)
  BY <1>2, <1>4
<1>6. \A p, request : RunSignature(p, request)' = RunSignature(p, request)
  BY <1>1 DEF RunSignature, Evaluation, Model
<1> HIDE DEF policy, rows, id
<1>7. /\ kept \in Seq(Rows)
      /\ \A row : row \in Range(kept) <=> row \in Range(rows) /\ Matches(row, id)
  BY <1>5, CurrentRows
<1> HIDE DEF kept
<1>8. /\ proc'.policy = policy /\ proc'.id = id /\ proc'.does = "evaluate"
      /\ proc'.done = {row.key : row \in Range(kept)}
      /\ proc'.rewritten = FALSE /\ proc'.buffer = <<>>
  BY <1>1 DEF Evaluator
<1>9. proc' \in Evaluators
  <2>1. {row.key : row \in Range(kept)} \subseteq Cells
    <3>1. \A row \in Range(kept) : row \in Rows
      BY <1>7 DEF Range
    <3> QED
      BY <3>1 DEF Rows
  <2>2. <<>> \in Seq(Rows)
    OBVIOUS
  <2> QED
    BY <1>1, <1>2, <2>1, <2>2 DEF Evaluator, Evaluators
<1>10. TypeInv'
  BY <1>1, <1>4, <1>9, TypesKept
<1>11. /\ PlanIsSound' /\ UnselectedAreAway' /\ EvaluatedAreWhole' /\ MarkerIsLast'
       /\ marker' = None
  BY <1>1, <1>2, <1>3, <1>4, OtherFilesKept
<1>12. TrainingIsNext'
  BY <1>8 DEF TrainingIsNext
<1>13. EvaluationIsNext'
  <2>1. id = RunSignature(policy, run.request)
    BY DEF id
  <2> HIDE DEF RunSignature
  <2>2. run' = run /\ proc'.policy = policy /\ proc'.id = id
    BY <1>1, <1>8
  <2> QED
    BY <1>2, <1>3, <1>6, <2>1, <2>2 DEF EvaluationIsNext
<1>14. CacheIsKept'
  <2>1. \A row : IsOfRun(row)' <=> Matches(row, id)
    BY <1>8 DEF IsOfRun, Matches, Jobs, GridOf
  <2>2. Stale(rows, id) \subseteq archive'
    BY <1>1
  <2>3. files'[proc'.policy] = rows /\ proc'.id = id
    BY <1>1, <1>8 DEF rows
  <2>4. \A row \in Range(rows) : IsOfRun(row)' => row.key \in proc'.done
    BY <1>7, <1>8, <2>1
  <2>5. \A key \in proc'.done : \E row \in Range(rows) : row.key = key /\ IsOfRun(row)'
    BY <1>7, <1>8, <2>1
  <2> HIDE DEF IsOfRun
  <2> QED
    BY <1>8, <2>2, <2>3, <2>4, <2>5 DEF CacheIsKept
<1>15. DoneIsKept'
  BY <1>8 DEF DoneIsKept
<1>16. CheckpointIsShort'
  BY <1>8, CheckpointHolds DEF CheckpointIsShort
<1> QED
  BY <1>1, <1>10, <1>11, <1>12, <1>13, <1>14, <1>15, <1>16, Framed DEF IInv

\* A step of an evaluator that goes on, its file rewritten.
LEMMA EvaluatorKeeps ==
  ASSUME IInv, Evaluating, proc' \in Evaluators, proc'.does = "evaluate",
         proc'.policy = proc.policy, proc'.id = proc.id, proc'.rewritten,
         files' \in [Policies -> Seq(Rows)],
         \A p \in Policies : p # proc.policy => files'[p] = files[p],
         UNCHANGED <<tree, data, trained, marker, reported, run, watch, used>>,
         RowsAreInPlace', DoneIsKept', CheckpointIsShort'
  PROVE  IInv'
<1>1. /\ run # None /\ proc.policy \in Selected(run.request)
      /\ InPlan(run.todo, Step("evaluate", proc.policy))
      /\ Head(run.todo) = Step("evaluate", proc.policy)
      /\ proc.id = RunSignature(proc.policy, run.request)
  BY EvaluatorFacts
<1>2. data \in (0..MaxEdits) \cup {None}
      /\ run \in [request : Requests, todo : Seq(AllSteps)]
  BY <1>1 DEF IInv, TypeInv
<1>3. TypeInv'
  BY <1>2, TypesKept
<1>4. /\ PlanIsSound' /\ UnselectedAreAway' /\ EvaluatedAreWhole' /\ MarkerIsLast'
      /\ marker' = None
  BY <1>1, OtherFilesKept
<1>5. TrainingIsNext' /\ CacheIsKept'
  BY DEF TrainingIsNext, CacheIsKept
<1>6. EvaluationIsNext'
  <2>1. \A p, request : RunSignature(p, request)' = RunSignature(p, request)
    BY DEF RunSignature, Evaluation, Model
  <2> HIDE DEF RunSignature
  <2> QED
    BY <1>1, <2>1 DEF EvaluationIsNext
<1> QED
  BY <1>3, <1>4, <1>5, <1>6, Framed DEF IInv

LEMMA RewriteCacheKeeps ==
  ASSUME IInv, RewriteCache
  PROVE  IInv'
<1> DEFINE policy == proc.policy
           kept == Current(files[policy], proc.id)
<1>1. /\ Evaluating /\ ~proc.rewritten
      /\ files' = [files EXCEPT ![policy] = kept]
      /\ proc' = [proc EXCEPT !.rewritten = TRUE]
      /\ UNCHANGED <<tree, data, trained, marker, reported, run, watch, used>>
  BY DEF RewriteCache
<1>2. /\ proc \in Evaluators /\ policy \in Policies
      /\ files \in [Policies -> Seq(Rows)] /\ files[policy] \in Seq(Rows)
  BY <1>1, EvaluatorFacts
<1>3. /\ kept \in Seq(Rows)
      /\ \A row : row \in Range(kept) <=> row \in Range(files[policy]) /\ IsOfRun(row)
  BY <1>2, CurrentRows DEF Matches, IsOfRun, Jobs
<1> HIDE DEF kept
<1>4. /\ files' \in [Policies -> Seq(Rows)] /\ files'[policy] = kept
      /\ \A p \in Policies : p # policy => files'[p] = files[p]
  BY <1>1, <1>2, <1>3
<1>5. /\ proc' \in Evaluators /\ proc'.does = "evaluate" /\ proc'.policy = policy
      /\ proc'.id = proc.id /\ proc'.rewritten /\ proc'.done = proc.done
      /\ proc'.buffer = proc.buffer
  BY <1>1, <1>2 DEF Evaluators
<1>6. /\ proc.buffer = <<>>
      /\ \A row \in Range(files[policy]) : IsOfRun(row) => row.key \in proc.done
      /\ \A key \in proc.done : \E row \in Range(files[policy]) :
           row.key = key /\ IsOfRun(row)
  BY <1>1 DEF IInv, CacheIsKept
<1>7. RowsAreInPlace'
  <2>1. RowsAreInPlace
    BY DEF IInv
  <2> QED
    BY <1>2, <1>3, <1>4, <2>1 DEF RowsAreInPlace
<1>8. DoneIsKept'
  <2>1. \A row : IsOfRun(row)' <=> IsOfRun(row)
    BY <1>5 DEF IsOfRun, Jobs, GridOf
  <2>2. Range(files'[policy]) \cup Range(proc'.buffer) = Range(kept)
    BY <1>4, <1>5, <1>6, NothingInAnEmptyFile
  <2>3. \A row \in Range(kept) : IsOfRun(row) /\ row.key \in proc.done
    BY <1>3, <1>6
  <2>4. \A key \in proc.done : \E row \in Range(kept) : row.key = key
    BY <1>3, <1>6
  <2> HIDE DEF IsOfRun
  <2> QED
    BY <1>5, <2>1, <2>2, <2>3, <2>4 DEF DoneIsKept
<1>9. CheckpointIsShort'
  BY <1>1, <1>5 DEF IInv, CheckpointIsShort
<1> QED
  BY <1>1, <1>4, <1>5, <1>7, <1>8, <1>9, EvaluatorKeeps

LEMMA FinishEpisodeKeeps ==
  ASSUME IInv, Evaluating, NEW key \in InFlight, FinishEpisode(key)
  PROVE  IInv'
<1> DEFINE policy == proc.policy
           rows == Answered(key)
           last == [key |-> key, run |-> proc.id]
           full == Len(rows) >= CheckpointSize
           buffer == IF full THEN <<>> ELSE rows
<1>1. /\ proc.rewritten
      /\ files' = IF full THEN [files EXCEPT ![policy] = @ \o rows] ELSE files
      /\ proc' = [proc EXCEPT !.done = @ \cup {key}, !.buffer = buffer]
      /\ UNCHANGED <<tree, data, trained, marker, reported, run, watch, used>>
  BY DEF FinishEpisode
<1>2. /\ proc \in Evaluators /\ policy \in Policies
      /\ files \in [Policies -> Seq(Rows)] /\ proc.buffer \in Seq(Rows)
      /\ proc.done \subseteq Cells
  BY EvaluatorFacts
<1>3. /\ last \in Rows /\ last.key = key /\ IsOfRun(last)
      /\ rows \in Seq(Rows) /\ Len(rows) = Len(proc.buffer) + 1
      /\ Range(rows) = Range(proc.buffer) \cup {last}
      /\ \A row \in Range(rows) : IsOfRun(row)
  BY <1>1, AnsweredRows
<1>4. CheckpointSize \in Nat /\ CheckpointSize > 0
  BY CheckpointHolds
<1>5. /\ \A row \in Range(files[policy]) \cup Range(proc.buffer) :
           IsOfRun(row) /\ row.key \in proc.done
      /\ \A k \in proc.done : \E row \in Range(files[policy]) \cup Range(proc.buffer) :
           row.key = k
  BY <1>1 DEF IInv, DoneIsKept
<1> HIDE DEF rows, last
<1>6. /\ files' \in [Policies -> Seq(Rows)] /\ RowsAreInPlace'
      /\ \A p \in Policies : p # policy => files'[p] = files[p]
      /\ Range(files'[policy]) \cup Range(buffer) =
           Range(files[policy]) \cup Range(proc.buffer) \cup {last}
  <2>1. CASE full
    <3>1. /\ files' \in [Policies -> Seq(Rows)] /\ RowsAreInPlace'
          /\ \A p \in Policies : p # policy => files'[p] = files[p]
          /\ Range(files'[policy]) = Range(files[policy]) \cup Range(rows)
      BY <1>1, <1>3, <2>1, AppendingRows
    <3>2. Range(buffer) = {}
      BY <2>1, NothingInAnEmptyFile
    <3> QED
      BY <1>3, <3>1, <3>2
  <2>2. CASE ~full
    <3>1. files' = files /\ buffer = rows
      BY <1>1, <2>2
    <3>2. RowsAreInPlace'
      BY <3>1, Framed
    <3> QED
      BY <1>2, <1>3, <3>1, <3>2
  <2> QED
    BY <2>1, <2>2
<1>7. buffer \in Seq(Rows) /\ Len(buffer) < CheckpointSize
  <2>1. CASE full
    <3>1. buffer = <<>>
      BY <2>1
    <3> HIDE DEF buffer
    <3> QED
      BY <1>4, <3>1
  <2>2. CASE ~full
    <3>1. Len(rows) \in Nat
      BY <1>3
    <3> QED
      BY <1>3, <1>4, <2>2, <3>1
  <2> QED
    BY <2>1, <2>2
<1> HIDE DEF buffer, full
<1>8. key \in Cells
  BY <1>3 DEF Rows
<1>9. /\ proc' \in Evaluators /\ proc'.does = "evaluate" /\ proc'.policy = policy
      /\ proc'.id = proc.id /\ proc'.rewritten /\ proc'.done = proc.done \cup {key}
      /\ proc'.buffer = buffer
  BY <1>1, <1>2, <1>7, <1>8 DEF Evaluators
<1>10. CheckpointIsShort'
  BY <1>7, <1>9 DEF CheckpointIsShort
<1>11. DoneIsKept'
  <2>1. \A row : IsOfRun(row)' <=> IsOfRun(row)
    BY <1>9 DEF IsOfRun, Jobs, GridOf
  <2>2. \A row \in Range(files'[policy]) \cup Range(buffer) :
          IsOfRun(row) /\ row.key \in proc'.done
    BY <1>3, <1>5, <1>6, <1>9
  <2>3. \A k \in proc'.done : \E row \in Range(files'[policy]) \cup Range(buffer) :
          row.key = k
    BY <1>3, <1>5, <1>6, <1>9
  <2> HIDE DEF IsOfRun
  <2> QED
    BY <1>9, <2>1, <2>2, <2>3 DEF DoneIsKept
<1> QED
  BY <1>1, <1>6, <1>9, <1>10, <1>11, EvaluatorKeeps

LEMMA FlushLastKeeps ==
  ASSUME IInv, FlushLast
  PROVE  IInv'
<1> DEFINE policy == proc.policy
<1>1. /\ Evaluating /\ proc.rewritten
      /\ files' = [files EXCEPT ![policy] = @ \o proc.buffer]
      /\ proc' = [proc EXCEPT !.buffer = <<>>]
      /\ UNCHANGED <<tree, data, trained, marker, reported, run, watch, used>>
  BY DEF FlushLast
<1>2. /\ proc \in Evaluators /\ policy \in Policies
      /\ files \in [Policies -> Seq(Rows)] /\ proc.buffer \in Seq(Rows)
  BY <1>1, EvaluatorFacts
<1>3. /\ \A row \in Range(files[policy]) \cup Range(proc.buffer) :
           IsOfRun(row) /\ row.key \in proc.done
      /\ \A k \in proc.done : \E row \in Range(files[policy]) \cup Range(proc.buffer) :
           row.key = k
  BY <1>1 DEF IInv, DoneIsKept
<1>4. /\ files' \in [Policies -> Seq(Rows)] /\ RowsAreInPlace'
      /\ \A p \in Policies : p # policy => files'[p] = files[p]
      /\ Range(files'[policy]) = Range(files[policy]) \cup Range(proc.buffer)
  BY <1>1, <1>2, <1>3, AppendingRows
<1>5. /\ proc' \in Evaluators /\ proc'.does = "evaluate" /\ proc'.policy = policy
      /\ proc'.id = proc.id /\ proc'.rewritten /\ proc'.done = proc.done
      /\ proc'.buffer = <<>>
  <2>1. <<>> \in Seq(Rows)
    OBVIOUS
  <2> QED
    BY <1>1, <1>2, <2>1 DEF Evaluators
<1>6. CheckpointIsShort'
  BY <1>5, CheckpointHolds DEF CheckpointIsShort
<1>7. DoneIsKept'
  <2>1. \A row : IsOfRun(row)' <=> IsOfRun(row)
    BY <1>5 DEF IsOfRun, Jobs, GridOf
  <2>2. Range(files'[policy]) \cup Range(proc'.buffer) =
          Range(files[policy]) \cup Range(proc.buffer)
    BY <1>4, <1>5, NothingInAnEmptyFile
  <2> HIDE DEF IsOfRun
  <2> QED
    BY <1>3, <1>5, <2>1, <2>2 DEF DoneIsKept
<1> QED
  BY <1>1, <1>4, <1>5, <1>6, <1>7, EvaluatorKeeps

\* A row is its key and its run.
LEMMA RowsAreRecords ==
  ASSUME NEW row \in Rows
  PROVE  row = [key |-> row.key, run |-> row.run]
BY DEF Rows

\* The file of an evaluation that ends holds the answers to its whole grid.
LEMMA FinishedFile ==
  ASSUME IInv, FinishEvaluation
  PROVE  /\ files'[proc.policy] = Answers(proc.policy, run.request, proc.id.eval)
         /\ files'[proc.policy] \in Seq(Rows)
         /\ \A row \in Range(files'[proc.policy]) : IsOfRun(row)
         /\ Range(files[proc.policy]) \subseteq Range(files'[proc.policy])
         /\ \A p \in Policies : p # proc.policy => files'[p] = files[p]
<1> DEFINE policy == proc.policy
           rows == Range(files[policy])
           row(i) == CHOOSE r \in rows : r.key = Jobs[i]
           whole == [i \in DOMAIN Jobs |-> row(i)]
<1>1. /\ Evaluating /\ proc.rewritten /\ Left = {} /\ proc.buffer = <<>>
      /\ files' = [files EXCEPT ![policy] = whole]
  BY DEF FinishEvaluation
<1>2. /\ policy \in Policies /\ files \in [Policies -> Seq(Rows)]
      /\ files[policy] \in Seq(Rows)
      /\ Jobs \in Seq(Cells) /\ Jobs = GridOf(proc.id.eval)
      /\ proc.id = RunSignature(policy, run.request)
  BY <1>1, EvaluatorFacts
<1>3. /\ \A r \in rows : IsOfRun(r) /\ r.key \in proc.done
      /\ \A k \in proc.done : \E r \in rows : r.key = k
  <2>1. Range(files[policy]) \cup Range(proc.buffer) = rows
    BY <1>1, NothingInAnEmptyFile
  <2> QED
    BY <1>1, <2>1 DEF IInv, DoneIsKept
<1>4. \A i \in DOMAIN Jobs : Jobs[i] \in proc.done
  BY <1>1 DEF Left
<1>5. \A r \in rows : r \in Rows
  BY <1>2 DEF Range
<1> HIDE DEF rows
<1>6. \A i \in DOMAIN Jobs : row(i) \in rows /\ row(i).key = Jobs[i]
  <2> HIDE DEF Jobs
  <2> QED
    BY <1>3, <1>4
<1> HIDE DEF row
<1>7. \A i \in DOMAIN Jobs : row(i) \in Rows /\ row(i) = [key |-> Jobs[i], run |-> proc.id]
  <2> SUFFICES ASSUME NEW i \in DOMAIN Jobs
               PROVE  row(i) \in Rows /\ row(i) = [key |-> Jobs[i], run |-> proc.id]
    OBVIOUS
  <2> HIDE DEF Jobs
  <2>1. row(i) \in Rows /\ row(i).key = Jobs[i] /\ row(i).run = proc.id
    BY <1>3, <1>5, <1>6 DEF IsOfRun
  <2>2. row(i) = [key |-> row(i).key, run |-> row(i).run]
    BY <2>1, RowsAreRecords
  <2> QED
    BY <2>1, <2>2
<1>8. whole = Answers(policy, run.request, proc.id.eval)
  <2>1. proc.id = [policy |-> policy, eval |-> proc.id.eval, model |-> Model(policy),
                   seeds |-> run.request.seeds]
    BY <1>2 DEF RunSignature
  <2>2. whole = [i \in DOMAIN Jobs |-> [key |-> Jobs[i], run |-> proc.id]]
    BY <1>7
  <2> QED
    BY <1>2, <2>1, <2>2 DEF Answers
<1>9. whole \in Seq(Rows)
  <2>1. whole = [i \in 1..Len(Jobs) |-> row(i)] /\ Len(Jobs) \in Nat
        /\ DOMAIN Jobs = 1..Len(Jobs)
    BY <1>2
  <2>2. \A i \in 1..Len(Jobs) : row(i) \in Rows
    BY <1>7, <2>1
  <2> HIDE DEF Jobs
  <2> QED
    BY <2>1, <2>2
<1>10. Range(whole) \subseteq rows
  BY <1>6 DEF Range
<1>11. rows \subseteq Range(whole)
  <2> SUFFICES ASSUME NEW r \in rows
               PROVE  r \in Range(whole)
    OBVIOUS
  <2>1. r.run = proc.id /\ r.key \in Range(Jobs)
    BY <1>3 DEF IsOfRun
  <2>2. PICK i \in DOMAIN Jobs : r.key = Jobs[i]
    BY <2>1 DEF Range
  <2>3. r = [key |-> r.key, run |-> r.run]
    BY <1>5, RowsAreRecords
  <2>4. r = row(i)
    BY <1>7, <2>1, <2>2, <2>3
  <2> QED
    BY <2>2, <2>4 DEF Range
<1> HIDE DEF whole
<1>12. files'[policy] = whole /\ \A p \in Policies : p # policy => files'[p] = files[p]
  BY <1>1, <1>2
<1> QED
  BY <1>3, <1>8, <1>9, <1>10, <1>11, <1>12 DEF rows

LEMMA FinishEvaluationKeeps ==
  ASSUME IInv, FinishEvaluation
  PROVE  IInv'
<1> DEFINE policy == proc.policy
<1>1. /\ Evaluating /\ proc' = None /\ run' = Advanced
      /\ UNCHANGED <<tree, data, trained, marker, reported, watch, used>>
      /\ DOMAIN files' = DOMAIN files
      /\ files' = [p \in DOMAIN files |-> files'[p]]
  BY DEF FinishEvaluation
<1>2. /\ run # None /\ policy \in Policies /\ policy \in Selected(run.request)
      /\ Head(run.todo) = Step("evaluate", policy) /\ Head(run.todo).does = "evaluate"
      /\ files \in [Policies -> Seq(Rows)]
      /\ Jobs = GridOf(proc.id.eval)
      /\ proc.id \in Runs /\ proc.id.policy = policy
      /\ proc.id = RunSignature(policy, run.request)
  BY <1>1, EvaluatorFacts
<1>3. /\ files'[policy] = Answers(policy, run.request, proc.id.eval)
      /\ files'[policy] \in Seq(Rows)
      /\ \A row \in Range(files'[policy]) : IsOfRun(row)
      /\ \A p \in Policies : p # policy => files'[p] = files[p]
  BY FinishedFile
<1>4. /\ run.request \in Requests /\ run.todo \in Seq(AllSteps) /\ run.todo # <<>>
      /\ IsSound(run.todo, run.request) /\ marker = None
      /\ run' = [request |-> run.request, todo |-> Tail(run.todo)]
  BY <1>1, <1>2, RunFacts
<1>5. Tail(run.todo) \in Seq(AllSteps) /\ IsSound(Tail(run.todo), run.request)
  BY <1>2, <1>4, SoundTail
<1>6. /\ run'.request = run.request /\ run'.todo = Tail(run.todo)
      /\ run' \in [request : Requests, todo : Seq(AllSteps)]
  BY <1>4, <1>5
<1>7. files' \in [Policies -> Seq(Rows)]
  <2>1. \A p \in Policies : files'[p] \in Seq(Rows)
    BY <1>2, <1>3
  <2>2. files' = [p \in Policies |-> files'[p]]
    BY <1>1, <1>2
  <2> QED
    BY <2>1, <2>2
<1>8. TypeInv'
  <2>1. data \in (0..MaxEdits) \cup {None}
    BY DEF IInv, TypeInv
  <2> QED
    BY <1>1, <1>6, <1>7, <2>1, TypesKept
<1>9. RowsAreInPlace'
  <2>1. RowsAreInPlace
    BY DEF IInv
  <2> QED
    BY <1>2, <1>3, <2>1 DEF RowsAreInPlace, IsOfRun
<1>10. PlanIsSound'
  BY <1>5, <1>6 DEF PlanIsSound
<1>11. UnselectedAreAway'
  <2>1. Step("unselected", None).does = "unselected"
    BY DEF Step
  <2>2. InPlan(run.todo, Step("unselected", None))
          => InPlan(Tail(run.todo), Step("unselected", None))
    BY <1>2, <1>4, <2>1, PlanTail
  <2>3. UnselectedAreAway
    BY DEF IInv
  <2> QED
    BY <1>2, <1>3, <1>6, <2>2, <2>3 DEF UnselectedAreAway
<1>12. EvaluatedAreWhole'
  <2>1. \A p, request, eval : Answers(p, request, eval)' = Answers(p, request, eval)
    BY <1>1 DEF Answers, Model
  <2>2. tree.evaluator \in 0..MaxEdits
    BY DEF IInv, TypeInv
  <2>3. proc.id.eval =
          [data |-> data, evaluator |-> tree.evaluator, asked |-> AskedOf(run.request)]
    BY <1>2 DEF RunSignature, Evaluation, AskedOf
  <2>4. \A p \in Selected(run.request) : p \in Policies
    BY <1>4, PolicyFacts
  <2>5. \A p : Step("evaluate", p) = Step("evaluate", policy) => p = policy
    <3>1. \A p : Step("evaluate", p).policy = p
      BY DEF Step
    <3> QED
      BY <3>1
  <2>6. \A p : p # policy /\ InPlan(run.todo, Step("evaluate", p))
          => InPlan(Tail(run.todo), Step("evaluate", p))
    BY <1>2, <1>4, <2>5, PlanTail
  <2>7. \A p \in Selected(run.request) :
          ~InPlan(run.todo, Step("evaluate", p)) =>
            \E e \in 0..MaxEdits :
              files[p] = Answers(p, run.request,
                [data |-> data, evaluator |-> e, asked |-> AskedOf(run.request)])
    BY <1>2 DEF IInv, EvaluatedAreWhole
  <2> HIDE DEF Answers
  <2>8. \A p \in Selected(run.request) :
          ~InPlan(Tail(run.todo), Step("evaluate", p)) =>
            \E e \in 0..MaxEdits :
              files'[p] = Answers(p, run.request,
                [data |-> data, evaluator |-> e, asked |-> AskedOf(run.request)])
    <3> SUFFICES ASSUME NEW p \in Selected(run.request),
                        ~InPlan(Tail(run.todo), Step("evaluate", p))
                 PROVE  \E e \in 0..MaxEdits :
                          files'[p] = Answers(p, run.request,
                            [data |-> data, evaluator |-> e, asked |-> AskedOf(run.request)])
      OBVIOUS
    <3>1. CASE p = policy
      BY <1>3, <2>2, <2>3, <3>1
    <3>2. CASE p # policy
      BY <1>3, <2>4, <2>6, <2>7, <3>2
    <3> QED
      BY <3>1, <3>2
  <2> QED
    BY <1>1, <1>6, <2>1, <2>8 DEF EvaluatedAreWhole
<1>13. MarkerIsLast'
  BY <1>1, <1>4 DEF MarkerIsLast
<1> QED
  BY <1>1, <1>4, <1>8, <1>9, <1>10, <1>11, <1>12, <1>13, Framed DEF IInv

----------------------------------------------------------------------------
(* The completion of a run.                                                *)

\* When only the completion is left, every selected policy is evaluated and
\* every other file is empty.
LEMMA NothingElseIsLeft ==
  ASSUME IInv, Doing("complete")
  PROVE  /\ \A p \in Selected(run.request) :
              \E e \in 0..MaxEdits :
                files[p] = Answers(p, run.request,
                  [data |-> data, evaluator |-> e, asked |-> AskedOf(run.request)])
         /\ \A p \in Policies \ Selected(run.request) : files[p] = <<>>
<1>1. run # None /\ Head(run.todo).does = "complete"
  BY DoingFacts
<1>2. /\ run.todo \in Seq(AllSteps) /\ IsSound(run.todo, run.request)
      /\ Head(run.todo) = run.todo[1] /\ 1 \in 1..Len(run.todo)
  BY <1>1, RunFacts
<1>3. Len(run.todo) = 1
  BY <1>1, <1>2 DEF IsSound
<1>4. \A i \in 1..Len(run.todo) : run.todo[i].does = "complete"
  <2>1. \A i \in 1..Len(run.todo) : i = 1
    BY <1>3
  <2> QED
    BY <1>1, <1>2, <2>1
<1>5. \A p : ~InPlan(run.todo, Step("evaluate", p))
  BY <1>4 DEF InPlan, Step
<1>6. ~InPlan(run.todo, Step("unselected", None))
  BY <1>4 DEF InPlan, Step
<1> HIDE DEF Answers
<1>7. EvaluatedAreWhole /\ UnselectedAreAway
  BY DEF IInv
<1> QED
  BY <1>1, <1>5, <1>6, <1>7 DEF EvaluatedAreWhole, UnselectedAreAway

\* The files of one evaluation are the ones the marker promises.
LEMMA ComparableFiles ==
  ASSUME IInv, Doing("complete"), Comparable(Selected(run.request))
  PROVE  LET eval == files[BasePolicy][1].run.eval
         IN /\ eval.data = data
            /\ \A p \in Selected(run.request) : files[p] = Answers(p, run.request, eval)
<1> DEFINE evalOf(p) == files[p][1].run.eval
           selected == Selected(run.request)
           asked(e) == [data |-> data, evaluator |-> e, asked |-> AskedOf(run.request)]
<1>1. BasePolicy \in selected
  BY DoingFacts, RunFacts, PolicyFacts
<1>2. \A p \in selected : files[p] # <<>>
  BY DEF Comparable
<1>3. \A p, request, e : DOMAIN Answers(p, request, e) = DOMAIN GridOf(e)
                         /\ \A i \in DOMAIN GridOf(e) : Answers(p, request, e)[i].run.eval = e
  BY DEF Answers
<1>4. ASSUME NEW p \in selected
      PROVE  /\ evalOf(p) \in {asked(e) : e \in 0..MaxEdits} /\ evalOf(p).data = data
             /\ files[p] = Answers(p, run.request, evalOf(p))
  <2>1. PICK e \in 0..MaxEdits : files[p] = Answers(p, run.request, asked(e))
    BY NothingElseIsLeft
  <2>2. files[p] \in Seq(Rows) /\ Len(files[p]) \in Nat /\ DOMAIN files[p] = 1..Len(files[p])
    <3>1. files \in [Policies -> Seq(Rows)] /\ p \in Policies
      BY DoingFacts, RunFacts, PolicyFacts DEF IInv, TypeInv
    <3> QED
      BY <3>1
  <2>3. Len(files[p]) # 0
    BY <1>2, <2>2
  <2>4. 1 \in DOMAIN files[p]
    BY <2>2, <2>3
  <2> HIDE DEF Answers, asked
  <2>5. evalOf(p) = asked(e)
    BY <1>3, <2>1, <2>4
  <2> QED
    BY <2>1, <2>5 DEF asked
<1> HIDE DEF Answers
<1>5. \A p \in selected : evalOf(p) \in {asked(e) : e \in 0..MaxEdits}
  BY <1>4
<1>6. \A p \in selected : evalOf(p) = evalOf(BasePolicy)
  <2> DEFINE S == {evalOf(p) : p \in selected}
  <2>1. Cardinality(S) = 1
    BY DEF Comparable
  <2> SUFFICES ASSUME NEW p \in selected
               PROVE  evalOf(p) = evalOf(BasePolicy)
    OBVIOUS
  <2>2. evalOf(p) \in S /\ evalOf(BasePolicy) \in S
    BY <1>1
  <2> HIDE DEF S, evalOf, selected
  <2>3. IsFiniteSet(S)
    <3> DEFINE all == {asked(e) : e \in 0..MaxEdits}
               list == [n \in 1..(MaxEdits + 1) |-> asked(n - 1)]
    <3>1. MaxEdits \in Nat
      BY ConstantFacts
    <3> HIDE DEF asked
    <3>2. list \in Seq(all) /\ Len(list) = MaxEdits + 1
      <4>1. \A n \in 1..(MaxEdits + 1) : n - 1 \in 0..MaxEdits
        BY <3>1
      <4>2. \A n \in 1..(MaxEdits + 1) : asked(n - 1) \in all
        BY <4>1
      <4> HIDE DEF all
      <4> QED
        BY <3>1, <4>2
    <3>3. \A e \in 0..MaxEdits : e + 1 \in 1..(MaxEdits + 1) /\ list[e + 1] = asked(e)
      <4>1. \A e \in 0..MaxEdits : e + 1 \in 1..(MaxEdits + 1) /\ (e + 1) - 1 = e
        BY <3>1
      <4> QED
        BY <4>1
    <3> HIDE DEF list
    <3>4. \A v \in all : \E n \in 1..Len(list) : list[n] = v
      BY <3>2, <3>3
    <3>5. IsFiniteSet(all)
      BY <3>2, <3>4 DEF IsFiniteSet
    <3>6. S \subseteq all
      BY <1>5 DEF S
    <3> HIDE DEF all
    <3> QED
      BY <3>5, <3>6, FS_Subset
  <2> QED
    BY <2>1, <2>2, <2>3, FS_Singleton
<1> QED
  BY <1>1, <1>4, <1>6

\* They asked what the request asks for.
LEMMA AskedAtCompletion ==
  ASSUME IInv, Doing("complete"), Comparable(Selected(run.request))
  PROVE  files[BasePolicy][1].run.eval.asked = AskedOf(run.request)
<1> DEFINE request == run.request
           selected == Selected(request)
<1>1. request \in Requests
  BY DoingFacts, RunFacts
<1>2. BasePolicy \in selected
  BY <1>1, PolicyFacts
<1>3. PICK e \in 0..MaxEdits : files[BasePolicy] = Answers(BasePolicy, request,
             [data |-> data, evaluator |-> e, asked |-> AskedOf(request)])
  BY <1>2, NothingElseIsLeft
<1>4. files[BasePolicy] # <<>>
  BY <1>2 DEF Comparable
<1>5. files[BasePolicy] \in Seq(Rows)
  BY <1>1, PolicyFacts DEF IInv, TypeInv
<1>6. 1 \in DOMAIN files[BasePolicy]
  <2>1. Len(files[BasePolicy]) # 0
    BY <1>4, <1>5
  <2> QED
    BY <1>5, <2>1
<1>7. files[BasePolicy][1].run.eval =
        [data |-> data, evaluator |-> e, asked |-> AskedOf(request)]
  BY <1>3, <1>6 DEF Answers
<1> QED
  BY <1>7

LEMMA CompleteKeeps ==
  ASSUME IInv, Complete
  PROVE  IInv'
<1> DEFINE request == run.request
           seeds == Range(request.seeds)
           selected == Selected(request)
           eval == files[BasePolicy][1].run.eval
<1>1. /\ Doing("complete") /\ Comparable(selected)
      /\ marker' = [request |-> request, eval |-> eval, inputs |-> Provenance(seeds),
                    results |-> [p \in selected |-> files[p]], report |-> reported]
      /\ run' = None /\ proc' = proc
      /\ UNCHANGED <<tree, data, trained, files, reported, watch, used>>
  BY DEF Complete
<1>2. proc = None /\ request \in Requests
  BY <1>1, DoingFacts, RunFacts
<1>3. /\ eval.data = data
      /\ \A p \in selected : files[p] = Answers(p, request, eval)
  BY <1>1, ComparableFiles
<1>4. \A p \in Policies \ selected : files[p] = <<>>
  BY <1>1, NothingElseIsLeft
<1> HIDE DEF eval
<1>5. /\ marker'.request = request /\ marker'.eval = eval /\ marker'.report = reported
      /\ marker'.inputs.data = data
      /\ marker'.inputs.specialists =
           [p \in [tag : Specialists, seed : seeds] |-> trained[p]]
      /\ marker'.results = [p \in selected |-> files[p]]
  BY <1>1 DEF Provenance
<1>6. TypeInv'
  <2>1. data \in (0..MaxEdits) \cup {None} /\ files \in [Policies -> Seq(Rows)]
    BY DEF IInv, TypeInv
  <2> QED
    BY <1>1, <1>2, <2>1, TypesKept
<1>7. MarkerIsTrue'
  <2>1. eval.asked = AskedOf(request)
    BY <1>1, AskedAtCompletion DEF eval
  <2>2. GridOf(eval) = Grid(Limited(request.limit))
    BY <1>2, <2>1, GridIsAsked DEF GridOf
  <2>3. ASSUME NEW p \in selected
        PROVE  Answers(p, request, eval) = ExpectedRows(marker', p)
    <3>1. Model(p) = IF p = BasePolicy THEN 0 ELSE marker'.inputs.specialists[p].model
      <4>1. CASE p = BasePolicy
        BY <4>1 DEF Model
      <4>2. CASE p # BasePolicy
        <5>1. p \in [tag : Specialists, seed : seeds]
          BY <2>3, <4>2 DEF Selected
        <5> QED
          BY <1>5, <4>2, <5>1 DEF Model
      <4> QED
        BY <4>1, <4>2
    <3>2. ExpectedRun(marker', p) =
            [policy |-> p, eval |-> eval, model |-> Model(p), seeds |-> request.seeds]
      BY <1>5, <3>1 DEF ExpectedRun
    <3> QED
      BY <1>5, <2>2, <3>2 DEF Answers, ExpectedRows
  <2>4. \A p \in selected : marker'.results[p] = ExpectedRows(marker', p)
    BY <1>3, <1>5, <2>3
  <2>5. marker'.eval.data = marker'.inputs.data
    BY <1>3, <1>5
  <2> HIDE DEF ExpectedRows
  <2> QED
    BY <1>5, <2>4, <2>5 DEF MarkerIsTrue
<1>8. MarkerDescribesDisk'
  <2>1. \A p \in Policies :
          files[p] = IF p \in selected THEN marker'.results[p] ELSE <<>>
    BY <1>4, <1>5
  <2> HIDE DEF selected
  <2>2. selected = Selected(marker'.request)
    BY <1>5 DEF selected
  <2> QED
    BY <1>1, <1>5, <2>1, <2>2 DEF MarkerDescribesDisk
<1>9. RowsAreInPlace' /\ WatchIsSound'
  BY <1>1, Framed
<1> QED
  BY <1>1, <1>2, <1>6, <1>7, <1>8, <1>9, Framed DEF IInv

----------------------------------------------------------------------------
(* The operator and node 2.                                                *)

LEMMA EditKeeps ==
  ASSUME IInv, NEW what \in DOMAIN tree, Edit(what)
  PROVE  IInv'
<1>1. /\ proc = None /\ proc' = None /\ used.edits < MaxEdits
      /\ tree' = [tree EXCEPT ![what] = @ + 1] /\ used' = Count("edits")
      /\ UNCHANGED <<data, trained, files, marker, reported, run, watch>>
  BY DEF Edit
<1>2. /\ tree \in [{"data", "evaluator", "training"} -> 0..MaxEdits]
      /\ \A w \in DOMAIN tree : tree[w] <= used.edits
      /\ used \in [runs : Nat, edits : 0..MaxEdits, faults : Nat, trainings : Nat]
      /\ MaxEdits \in Nat
  BY ConstantFacts DEF IInv, TypeInv
<1>3. used.edits \in Nat /\ used.edits + 1 \in 0..MaxEdits
  BY <1>1, <1>2
<1>4. /\ used' \in [runs : Nat, edits : 0..MaxEdits, faults : Nat, trainings : Nat]
      /\ used'.edits = used.edits + 1 /\ used'.trainings = used.trainings
  BY <1>1, <1>2, <1>3 DEF Count
<1>5. /\ tree' \in [{"data", "evaluator", "training"} -> 0..MaxEdits]
      /\ \A w \in DOMAIN tree' : tree'[w] <= used'.edits
  <2>1. tree[what] \in Nat /\ tree[what] + 1 <= used.edits + 1
        /\ tree[what] + 1 \in 0..MaxEdits
    BY <1>2, <1>3
  <2>2. DOMAIN tree' = DOMAIN tree /\ tree'[what] = tree[what] + 1
        /\ \A w \in DOMAIN tree : w # what => tree'[w] = tree[w]
    BY <1>1
  <2>3. \A w \in DOMAIN tree : tree[w] \in Nat
    BY <1>2
  <2>4. \A w \in DOMAIN tree' : tree'[w] <= used'.edits
    BY <1>2, <1>3, <1>4, <2>1, <2>2, <2>3
  <2> QED
    BY <1>1, <1>2, <2>1, <2>4
<1>6. TypeInv'
  <2>1. TypeInv
    BY DEF IInv
  <2> QED
    BY <1>1, <1>4, <1>5, <2>1 DEF TypeInv
<1>7. EvaluatedAreWhole'
  <2>1. \A p, request, eval : Answers(p, request, eval)' = Answers(p, request, eval)
    BY <1>1 DEF Answers, Model
  <2>2. EvaluatedAreWhole
    BY DEF IInv
  <2> HIDE DEF Answers
  <2> QED
    BY <1>1, <2>1, <2>2 DEF EvaluatedAreWhole
<1>8. PlanIsSound' /\ UnselectedAreAway' /\ MarkerIsLast'
  BY <1>1 DEF IInv, PlanIsSound, UnselectedAreAway, MarkerIsLast
<1> QED
  BY <1>1, <1>6, <1>7, <1>8, Framed DEF IInv

\* What node 2 does changes nothing but what it holds itself.
LEMMA WatchingKeeps ==
  ASSUME IInv, SoundWatch(watch'),
         watch' = [at |-> watch'.at, payload |-> watch'.payload, left |-> watch'.left],
         watch'.left \in Seq(SpecialistPolicies),
         UNCHANGED <<tree, data, trained, files, archive, marker, reported, run, proc, used>>
  PROVE  IInv'
<1>1. TypeInv'
  BY DEF IInv, TypeInv
<1>2. WatchIsSound'
  BY DEF WatchIsSound
<1>3. /\ RowsAreInPlace' /\ PlanIsSound' /\ UnselectedAreAway' /\ TrainingIsNext'
      /\ MarkerIsLast' /\ MarkerIsTrue' /\ MarkerDescribesDisk' /\ CheckpointIsShort'
  BY Framed DEF IInv, PlanIsSound, UnselectedAreAway, TrainingIsNext, MarkerIsLast,
                CheckpointIsShort, Evaluating
<1>4. EvaluationIsNext'
  <2>1. \A p, request : RunSignature(p, request)' = RunSignature(p, request)
    BY DEF RunSignature, Evaluation, Model
  <2> HIDE DEF RunSignature
  <2> QED
    BY <2>1 DEF IInv, EvaluationIsNext, Evaluating
<1>5. CacheIsKept' /\ DoneIsKept'
  <2>1. \A row : IsOfRun(row)' <=> IsOfRun(row)
    BY DEF IsOfRun, Jobs, GridOf
  <2> HIDE DEF IsOfRun
  <2> QED
    BY <2>1 DEF IInv, CacheIsKept, DoneIsKept, Evaluating
<1>6. EvaluatedAreWhole'
  <2>1. \A p, request, eval : Answers(p, request, eval)' = Answers(p, request, eval)
    BY DEF Answers, Model
  <2>2. EvaluatedAreWhole
    BY DEF IInv
  <2> HIDE DEF Answers
  <2> QED
    BY <2>1, <2>2 DEF EvaluatedAreWhole
<1> QED
  BY <1>1, <1>2, <1>3, <1>4, <1>5, <1>6 DEF IInv

LEMMA WatchKeeps ==
  ASSUME IInv, Watch
  PROVE  IInv'
<1>1. UNCHANGED <<tree, data, trained, files, archive, marker, reported, run, proc, used>>
  BY DEF Watch, WatchRead, WatchData, WatchSpecialist
<1>2. /\ watch = [at |-> watch.at, payload |-> watch.payload, left |-> watch.left]
      /\ watch.left \in Seq(SpecialistPolicies)
      /\ SoundWatch(watch)
  BY DEF IInv, TypeInv, WatchIsSound
<1>3. CASE watch' = Polling
  BY <1>1, <1>3, PollingIsSound, WatchingKeeps
<1>4. CASE WatchRead
  <2> DEFINE w == [at |-> "specialists", payload |-> marker, left |-> Watched]
  <2>1. /\ marker # None /\ Range(WatchSeeds) \subseteq Range(marker.request.seeds)
        /\ watch' = w
    BY <1>4 DEF WatchRead
  <2>2. w.at = "specialists" /\ w.payload = marker /\ w.left = Watched
        /\ w = [at |-> w.at, payload |-> w.payload, left |-> w.left]
    OBVIOUS
  <2>3. IsTrueMarker(marker)
    BY <2>1 DEF IInv, MarkerIsTrue, IsTrueMarker
  <2>4. /\ Watched \in Seq(SpecialistPolicies) /\ Watched # <<>>
        /\ Len(Watched) <= Len(Watched)
        /\ \A i \in 1..Len(Watched) : Watched[i] = Watched[Len(Watched) - Len(Watched) + i]
    BY WatchedFacts, PollingIsSound DEF SoundWatch, Polling
  <2> HIDE DEF w
  <2>5. SoundWatch(w)
    BY <2>1, <2>2, <2>3, <2>4 DEF SoundWatch
  <2> QED
    BY <1>1, <2>1, <2>2, <2>4, <2>5, WatchingKeeps
<1>5. CASE WatchData /\ watch' # Polling
  <2> DEFINE w == [watch EXCEPT !.at = "ready"]
  <2>1. watch.at = "data" /\ watch' = w
    BY <1>5 DEF WatchData
  <2>2. w = [at |-> "ready", payload |-> watch.payload, left |-> watch.left]
    BY <1>2
  <2> HIDE DEF w
  <2>3. /\ w = [at |-> w.at, payload |-> w.payload, left |-> w.left]
        /\ w.at = "ready" /\ w.payload = watch.payload /\ w.left = watch.left
    BY <2>2
  <2>4. SoundWatch(w)
    BY <1>2, <2>1, <2>3 DEF SoundWatch
  <2> QED
    BY <1>1, <1>2, <2>1, <2>3, <2>4, WatchingKeeps
<1>6. CASE WatchSpecialist /\ watch' # Polling
  <2> DEFINE rest == Tail(watch.left)
             at == IF rest = <<>> THEN "data" ELSE "specialists"
             w == [at |-> at, payload |-> watch.payload, left |-> rest]
  <2>1. watch.at = "specialists" /\ watch.left # <<>>
    BY <1>2, <1>6 DEF WatchSpecialist, SoundWatch
  <2>2. watch' = w
    <3>1. watch' = [watch EXCEPT !.left = Tail(@), !.at = IF rest = <<>> THEN "data" ELSE @]
      BY <1>6 DEF WatchSpecialist
    <3> QED
      BY <1>2, <2>1, <3>1
  <2>3. /\ w = [at |-> w.at, payload |-> w.payload, left |-> w.left]
        /\ w.at = at /\ w.payload = watch.payload /\ w.left = rest
    OBVIOUS
  <2>4. /\ rest \in Seq(SpecialistPolicies) /\ Len(rest) = Len(watch.left) - 1
        /\ Len(watch.left) \in Nat /\ Len(watch.left) > 0
        /\ \A i \in 1..Len(rest) : rest[i] = watch.left[i + 1]
    BY <1>2, <2>1
  <2>5. /\ Len(rest) <= Len(Watched)
        /\ \A i \in 1..Len(rest) : rest[i] = Watched[Len(Watched) - Len(rest) + i]
    <3> DEFINE n == Len(Watched)
               m == Len(watch.left)
    <3>1. n \in Nat /\ m \in Nat /\ m > 0 /\ Len(rest) = m - 1
      BY <2>4, WatchedFacts
    <3>2. m <= n /\ \A i \in 1..m : watch.left[i] = Watched[n - m + i]
      BY <1>2 DEF SoundWatch
    <3> HIDE DEF n, m, rest
    <3>3. \A i \in 1..(m - 1) : i + 1 \in 1..m /\ n - m + (i + 1) = n - (m - 1) + i
      BY <3>1
    <3>4. \A i \in 1..(m - 1) : rest[i] = Watched[n - (m - 1) + i]
      BY <2>4, <3>1, <3>2, <3>3
    <3>5. m - 1 <= n
      BY <3>1, <3>2
    <3> QED
      BY <3>1, <3>4, <3>5 DEF n
  <2>6. at \in {"specialists", "data"} /\ (at = "specialists" => rest # <<>>)
    OBVIOUS
  <2> HIDE DEF w, at, rest
  <2>7. SoundWatch(w)
    BY <1>2, <2>1, <2>3, <2>5, <2>6 DEF SoundWatch
  <2> QED
    BY <1>1, <2>2, <2>3, <2>4, <2>7, WatchingKeeps
<1> QED
  BY <1>3, <1>4, <1>5, <1>6 DEF Watch

----------------------------------------------------------------------------
(* The invariant, and what follows from it.                                *)

LEMMA StutterKeeps ==
  ASSUME IInv, UNCHANGED vars
  PROVE  IInv'
<1>1. /\ UNCHANGED <<tree, data, trained, files, archive, marker, reported, run, proc, used>>
      /\ watch' = watch
  BY DEF vars
<1>2. /\ watch = [at |-> watch.at, payload |-> watch.payload, left |-> watch.left]
      /\ watch.left \in Seq(SpecialistPolicies) /\ SoundWatch(watch)
  BY DEF IInv, TypeInv, WatchIsSound
<1> QED
  BY <1>1, <1>2, WatchingKeeps

LEMMA NextKeeps ==
  ASSUME IInv, Next
  PROVE  IInv'
<1>1. CASE Orchestrate
  <2>1. CASE ReuseTraining
    BY <2>1, PassingKeeps DEF ReuseTraining
  <2>2. CASE MakeReport
    BY <2>2, PassingKeeps DEF MakeReport
  <2> QED
    BY <1>1, <2>1, <2>2, StartRunKeeps, PrepareDataKeeps, ArchiveUnselectedKeeps,
       StartTrainingKeeps, FinishTrainingKeeps, CompleteKeeps, RefuseKeeps DEF Orchestrate
<1>2. CASE Evaluate
  <2>1. CASE \E key \in IF Evaluating THEN InFlight ELSE {} : FinishEpisode(key)
    <3>1. PICK key \in IF Evaluating THEN InFlight ELSE {} : FinishEpisode(key)
      BY <2>1
    <3>2. Evaluating /\ key \in InFlight
      BY <3>1
    <3> QED
      BY <3>1, <3>2, FinishEpisodeKeeps
  <2> QED
    BY <1>2, <2>1, StartEvaluationKeeps, RewriteCacheKeeps, FlushLastKeeps,
       FinishEvaluationKeeps DEF Evaluate
<1>3. CASE Environment
  BY <1>3, EpisodeFailsKeeps, AppendFailsKeeps, CrashKeeps, EditKeeps, ForceTrainingKeeps
     DEF Environment
<1> QED
  BY <1>1, <1>2, <1>3, WatchKeeps DEF Next

\* The inductive invariant holds throughout.
THEOREM Invariance == Spec => []IInv
<1>1. IInv /\ [Next]_vars => IInv'
  BY NextKeeps, StutterKeeps
<1> QED
  BY InitIInv, <1>1, PTL DEF Spec

\* What a watcher has left to compare are the last of the markers it compares.
LEMMA WatchedIsSuffix ==
  ASSUME IInv
  PROVE  IsSuffix(watch.left, Watched)
<1> DEFINE s == watch.left
           t == Watched
<1>1. /\ s \in Seq(SpecialistPolicies) /\ Len(s) \in Nat
      /\ t \in Seq(SpecialistPolicies) /\ Len(t) \in Nat
  BY WatchedFacts DEF IInv, TypeInv
<1>2. Len(s) <= Len(t) /\ \A i \in 1..Len(s) : s[i] = t[Len(t) - Len(s) + i]
  BY DEF IInv, WatchIsSound, SoundWatch
<1> HIDE DEF s, t
<1> DEFINE m == Len(s)
           n == Len(t)
<1>3. \A i \in 1..m : /\ (m - i) + 1 \in 1..m
                      /\ n - m + ((m - i) + 1) = (n - i) + 1
                      /\ i \in 1..n /\ (n - i) + 1 \in 1..n
  BY <1>1, <1>2
<1>4. \A i \in 1..m : s[(m - i) + 1] = t[(n - i) + 1]
  BY <1>2, <1>3
<1>5. /\ Reverse(s) \in Seq(SpecialistPolicies) /\ Len(Reverse(s)) = m
      /\ \A i \in 1..m : Reverse(s)[i] = s[(m - i) + 1]
  <2>1. Reverse(s) = [i \in 1..m |-> s[(m - i) + 1]]
    BY DEF Reverse
  <2>2. \A i \in 1..m : s[(m - i) + 1] \in SpecialistPolicies
    BY <1>1, <1>3
  <2> QED
    BY <1>1, <2>1, <2>2
<1>6. /\ Reverse(t) \in Seq(SpecialistPolicies) /\ Len(Reverse(t)) = n
      /\ \A i \in 1..n : Reverse(t)[i] = t[(n - i) + 1]
  <2>1. Reverse(t) = [i \in 1..n |-> t[(n - i) + 1]]
    BY DEF Reverse
  <2>2. \A i \in 1..n : t[(n - i) + 1] \in SpecialistPolicies
    <3>1. \A i \in 1..n : (n - i) + 1 \in 1..n
      BY <1>1
    <3> QED
      BY <1>1, <3>1
  <2> QED
    BY <1>1, <2>1, <2>2
<1> DEFINE a == Reverse(s)
           b == Reverse(t)
<1>7. \A i \in 1..m : a[i] = b[i]
  BY <1>3, <1>4, <1>5, <1>6
<1> HIDE DEF a, b
<1>8. SubSeq(a, 1, m) = SubSeq(b, 1, m)
  <2>1. SubSeq(a, 1, m) = [i \in 1..m |-> a[i]]
    BY <1>1, <1>5 DEF a
  <2>2. SubSeq(b, 1, m) = [i \in 1..m |-> b[i]]
    BY <1>1, <1>2, <1>6 DEF b
  <2> QED
    BY <1>7, <2>1, <2>2
<1>9. IsPrefix(a, b)
  BY <1>2, <1>5, <1>6, <1>8 DEF IsPrefix, a, b
<1> QED
  BY <1>9 DEF IsSuffix, a, b, s, t

\* Whoever reads the completion marker of node 1 may rely on all it says: every
\* policy it selects answered the whole grid of its request in one evaluation, on
\* the data and with the checkpoints it names, and that is what is on disk.
THEOREM MarkersStayTrue == Spec => []MarkersAreTrue
<1>1. ASSUME IInv
      PROVE  TypeOK
  <2>1. TypeInv /\ RowsAreInPlace
    BY <1>1 DEF IInv
  <2>2. \A p \in SpecialistPolicies :
          trained[p] = None \/ trained[p].model \in 1..used.trainings
    <3> SUFFICES ASSUME NEW p \in SpecialistPolicies, trained[p] # None
                 PROVE  trained[p].model \in 1..used.trainings
      OBVIOUS
    <3>1. trained[p] \in Checkpoints /\ trained[p].model <= used.trainings
      BY <2>1 DEF TypeInv
    <3>2. trained[p].model \in Nat \ {0} /\ used.trainings \in Nat
      BY <2>1, <3>1 DEF TypeInv, Checkpoints
    <3> QED
      BY <3>1, <3>2
  <2>3. Evaluating => Len(proc.buffer) < CheckpointSize
    BY <1>1 DEF IInv, CheckpointIsShort
  <2>4. \A p \in Policies : \A row \in Range(files[p]) : row.run.policy = p
    BY <2>1 DEF RowsAreInPlace
  <2> QED
    BY <1>1, <2>1, <2>2, <2>3, <2>4, WatchedIsSuffix DEF TypeInv, TypeOK
<1>2. IInv => MarkersAreTrue
  BY <1>1 DEF IInv, MarkersAreTrue
<1> QED
  BY Invariance, <1>2, PTL

\* An evaluator holds as done every episode whose answer is on disk for the very
\* run it is in, so none is asked again.
THEOREM EpisodesAreNotRepeated == Spec => []NoEpisodeIsRepeated
<1>1. IInv => NoEpisodeIsRepeated
  <2> SUFFICES ASSUME IInv, Evaluating, NEW row \in Range(files[proc.policy]),
                      row.run = proc.id
               PROVE  row.key \in proc.done
    BY DEF NoEpisodeIsRepeated
  <2>1. proc.policy \in Policies /\ proc.rewritten \in BOOLEAN
    BY EvaluatorFacts
  <2>2. IsOfRun(row)
    BY <2>1 DEF IInv, RowsAreInPlace, IsOfRun, Jobs
  <2>3. CASE proc.rewritten
    BY <2>3 DEF IInv, DoneIsKept
  <2>4. CASE ~proc.rewritten
    BY <2>2, <2>4 DEF IInv, CacheIsKept
  <2> QED
    BY <2>1, <2>3, <2>4
<1> QED
  BY Invariance, <1>1, PTL

----------------------------------------------------------------------------
(* What no step may do.                                                    *)

\* A step that touches one file keeps the rows that it leaves there or archives.
LEMMA RowsOfOneFile ==
  ASSUME archive \subseteq archive', NEW policy \in Policies,
         \A p \in Policies : p # policy => files'[p] = files[p],
         Range(files[policy]) \subseteq Range(files'[policy]) \cup archive'
  PROVE  OnDisk \subseteq OnDisk'
BY DEF OnDisk, RowsOf

LEMMA EvaluationsKeepRows ==
  ASSUME IInv, Evaluate
  PROVE  OnDisk \subseteq OnDisk'
<1>1. CASE StartEvaluation
  BY <1>1 DEF StartEvaluation, OnDisk, RowsOf
<1>2. CASE RewriteCache
  <2> DEFINE policy == proc.policy
             kept == Current(files[policy], proc.id)
  <2>1. /\ Evaluating /\ ~proc.rewritten /\ archive' = archive
        /\ files' = [files EXCEPT ![policy] = kept]
    BY <1>2 DEF RewriteCache
  <2>2. /\ policy \in Policies /\ files \in [Policies -> Seq(Rows)]
        /\ files[policy] \in Seq(Rows)
    BY <2>1, EvaluatorFacts
  <2>3. \A row \in Range(files[policy]) : Matches(row, proc.id) => row \in Range(kept)
    BY <2>2, CurrentRows
  <2>4. \A row \in Range(files[policy]) :
          ~Matches(row, proc.id) => row \in Stale(files[policy], proc.id)
    BY <2>2, DroppedRows
  <2>5. Stale(files[policy], proc.id) \subseteq archive
    BY <2>1 DEF IInv, CacheIsKept
  <2> HIDE DEF kept
  <2>6. files'[policy] = kept /\ \A p \in Policies : p # policy => files'[p] = files[p]
    BY <2>1, <2>2
  <2>7. Range(files[policy]) \subseteq Range(files'[policy]) \cup archive'
    BY <2>1, <2>3, <2>4, <2>5, <2>6
  <2> QED
    BY <2>1, <2>2, <2>6, <2>7, RowsOfOneFile
<1>3. CASE \E key \in IF Evaluating THEN InFlight ELSE {} : FinishEpisode(key)
  <2>1. PICK key \in IF Evaluating THEN InFlight ELSE {} : FinishEpisode(key)
    BY <1>3
  <2>2. Evaluating /\ key \in InFlight
    BY <2>1
  <2>3. proc.rewritten /\ archive' = archive
        /\ files' = (IF Len(Answered(key)) >= CheckpointSize
                     THEN [files EXCEPT ![proc.policy] = @ \o Answered(key)] ELSE files)
    BY <2>1 DEF FinishEpisode
  <2>4. CASE files' = files
    BY <2>3, <2>4 DEF OnDisk, RowsOf
  <2>5. CASE files' = [files EXCEPT ![proc.policy] = @ \o Answered(key)]
    <3>1. proc.policy \in Policies
      BY <2>2, EvaluatorFacts
    <3>2. Answered(key) \in Seq(Rows) /\ \A row \in Range(Answered(key)) : IsOfRun(row)
      BY <2>2, <2>3, AnsweredRows
    <3>3. /\ \A p \in Policies : p # proc.policy => files'[p] = files[p]
          /\ Range(files[proc.policy]) \subseteq Range(files'[proc.policy])
      BY <2>2, <2>5, <3>2, AppendingRows
    <3> QED
      BY <2>3, <3>1, <3>3, RowsOfOneFile
  <2> QED
    BY <2>3, <2>4, <2>5
<1>4. CASE FlushLast
  <2>1. /\ Evaluating /\ proc.rewritten /\ archive' = archive
        /\ files' = [files EXCEPT ![proc.policy] = @ \o proc.buffer]
    BY <1>4 DEF FlushLast
  <2>2. proc.policy \in Policies /\ proc.buffer \in Seq(Rows)
    BY <2>1, EvaluatorFacts
  <2>3. \A row \in Range(proc.buffer) : IsOfRun(row)
    BY <2>1 DEF IInv, DoneIsKept
  <2>4. /\ \A p \in Policies : p # proc.policy => files'[p] = files[p]
        /\ Range(files[proc.policy]) \subseteq Range(files'[proc.policy])
    BY <2>1, <2>2, <2>3, AppendingRows
  <2> QED
    BY <2>1, <2>2, <2>4, RowsOfOneFile
<1>5. CASE FinishEvaluation
  <2>1. Evaluating /\ archive' = archive
    BY <1>5 DEF FinishEvaluation
  <2>2. proc.policy \in Policies
    BY <2>1, EvaluatorFacts
  <2> QED
    BY <1>5, <2>1, <2>2, FinishedFile, RowsOfOneFile
<1> QED
  BY <1>1, <1>2, <1>3, <1>4, <1>5 DEF Evaluate

LEMMA FaultsKeepRows ==
  ASSUME IInv, EpisodeFails \/ AppendFails
  PROVE  OnDisk \subseteq OnDisk'
<1>1. Evaluating /\ archive' = archive /\ proc.rewritten
  BY DEF EpisodeFails, AppendFails
<1>2. proc.policy \in Policies /\ proc.buffer \in Seq(Rows)
  BY <1>1, EvaluatorFacts
<1>3. \E more \in Seq(Rows) :
        /\ \A row \in Range(more) : IsOfRun(row)
        /\ files' = [files EXCEPT ![proc.policy] = @ \o more]
  <2>1. CASE EpisodeFails
    <3>1. PICK written \in 0..Len(proc.buffer) :
            files' = [files EXCEPT ![proc.policy] = @ \o SubSeq(proc.buffer, 1, written)]
      BY <2>1 DEF EpisodeFails
    <3> DEFINE more == SubSeq(proc.buffer, 1, written)
    <3>2. more \in Seq(Rows) /\ Range(more) \subseteq Range(proc.buffer)
      BY <1>2, PartsOf
    <3>3. \A row \in Range(proc.buffer) : IsOfRun(row)
      BY <1>1 DEF IInv, DoneIsKept
    <3>4. files' = [files EXCEPT ![proc.policy] = @ \o more]
      BY <3>1
    <3> HIDE DEF more
    <3> QED
      BY <3>2, <3>3, <3>4
  <2>2. CASE AppendFails
    BY <2>2, AppendFailsRows
  <2> QED
    BY <2>1, <2>2
<1>4. /\ \A p \in Policies : p # proc.policy => files'[p] = files[p]
      /\ Range(files[proc.policy]) \subseteq Range(files'[proc.policy])
  BY <1>1, <1>3, AppendingRows
<1> QED
  BY <1>1, <1>2, <1>4, RowsOfOneFile

LEMMA RowsAreKept ==
  ASSUME IInv, Next
  PROVE  OnDisk \subseteq OnDisk'
<1>1. CASE ArchiveUnselected
  <2>1. /\ archive' = archive \cup RowsOf(Policies \ Selected(run.request))
        /\ files' = [p \in Policies |-> IF p \in Policies \ Selected(run.request)
                                        THEN <<>> ELSE files[p]]
    BY <1>1 DEF ArchiveUnselected
  <2>2. \A p \in Policies : p \in Policies \ Selected(run.request) \/ files'[p] = files[p]
    BY <2>1
  <2>3. \A p \in Policies \ Selected(run.request) : Range(files[p]) \subseteq archive'
    BY <2>1 DEF RowsOf
  <2> QED
    BY <2>1, <2>2, <2>3 DEF OnDisk, RowsOf
<1>2. CASE files' = files /\ archive' = archive
  BY <1>2 DEF OnDisk, RowsOf
<1>3. Orchestrate => ArchiveUnselected \/ (files' = files /\ archive' = archive)
  BY DEF Orchestrate, StartRun, PrepareData, ReuseTraining, StartTraining, FinishTraining,
         MakeReport, Complete, Refuse
<1>4. Environment => EpisodeFails \/ AppendFails \/ (files' = files /\ archive' = archive)
  BY DEF Environment, Crash, Edit, ForceTraining
<1>5. Watch => files' = files /\ archive' = archive
  BY DEF Watch, WatchRead, WatchData, WatchSpecialist
<1> QED
  BY <1>1, <1>2, <1>3, <1>4, <1>5, EvaluationsKeepRows, FaultsKeepRows DEF Next

\* An answer that reached the disk stays in the results or in the archive, through
\* resumes, kills between the archive and the rewrite, and failing appends.
THEOREM DurableRowsStay == Spec => DurableRowsAreKept
<1>1. IInv /\ [Next]_vars => [OnDisk \subseteq OnDisk']_<<files, archive>>
  BY RowsAreKept DEF vars
<1> QED
  BY Invariance, <1>1, PTL DEF Spec, DurableRowsAreKept

\* A specialist that node 2 requires is one the marker it holds selected, and all
\* of that specialist's results are those the marker expects.
LEMMA WatchedIsExpected ==
  ASSUME IInv, watch.at # "poll",
         NEW p \in [tag : Specialists, seed : Range(WatchSeeds)]
  PROVE  /\ p # BasePolicy
         /\ watch.payload.eval.data = watch.payload.inputs.data
         /\ watch.payload.results[p] = ExpectedRows(watch.payload, p)
<1>1. /\ IsTrueMarker(watch.payload)
      /\ Range(WatchSeeds) \subseteq Range(watch.payload.request.seeds)
  BY DEF IInv, WatchIsSound, SoundWatch
<1>2. p.tag \in Specialists
  OBVIOUS
<1>3. p # BasePolicy
  BY <1>2 DEF BasePolicy, BaseTag, Policy, Specialists
<1>4. p \in Selected(watch.payload.request)
  BY <1>1 DEF Selected
<1> QED
  BY <1>1, <1>3, <1>4 DEF IsTrueMarker

\* What node 2 finds in place when it reads it, each specialist's checkpoint and at
\* last the data, is what every result of the marker it holds was measured with.
THEOREM AcceptedStaysMeasured == Spec => AcceptedIsMeasured
<1> DEFINE m == watch.payload
           Compared == watch.at = "specialists" /\ watch'.at \in {"specialists", "data"}
           Accepted == watch.at = "data" /\ watch'.at = "ready"
           Measures ==
             LET p == Head(watch.left)
             IN /\ trained[p] # None
                /\ \A row \in Range(m.results[p]) : row.run.model = trained[p].model
           OnThisData ==
             \A p \in Range(Watched) : \A row \in Range(m.results[p]) :
               row.run.eval.data = data
<1>1. ASSUME Next, watch' # watch
      PROVE  Watch
  BY <1>1, Zenon
     DEF Next, Orchestrate, StartRun, PrepareData, ArchiveUnselected, ReuseTraining,
         StartTraining, FinishTraining, MakeReport, Complete, Refuse,
         Evaluate, StartEvaluation, RewriteCache, FinishEpisode, FlushLast,
         FinishEvaluation, Environment, EpisodeFails, AppendFails, Crash, Edit,
         ForceTraining
<1>2. Polling.at = "poll"
  BY DEF Polling
<1>3. ASSUME IInv, Next, watch' # watch, Compared
      PROVE  Measures
  <2> DEFINE p == Head(watch.left)
  <2>1. WatchSpecialist
    BY <1>1, <1>3 DEF Watch, WatchRead, WatchData
  <2>2. SameSpecialist(m.inputs.specialists[p], trained[p])
    BY <1>2, <1>3, <2>1 DEF WatchSpecialist
  <2>3. m.inputs.specialists[p] = trained[p] /\ trained[p] # None
    BY <2>2 DEF SameSpecialist
  <2>4. /\ watch.left # <<>> /\ Len(watch.left) <= Len(Watched)
        /\ \A i \in 1..Len(watch.left) :
             watch.left[i] = Watched[Len(Watched) - Len(watch.left) + i]
        /\ watch.left \in Seq(SpecialistPolicies)
    BY <1>3 DEF IInv, TypeInv, WatchIsSound, SoundWatch
  <2>5. p \in [tag : Specialists, seed : Range(WatchSeeds)]
    <3>1. /\ Len(watch.left) \in Nat /\ Len(watch.left) > 0 /\ Len(Watched) \in Nat
          /\ p = watch.left[1]
      BY <2>4, WatchedFacts
    <3>2. 1 \in 1..Len(watch.left)
          /\ Len(Watched) - Len(watch.left) + 1 \in 1..Len(Watched)
      BY <2>4, <3>1
    <3> QED
      BY <2>4, <3>1, <3>2, WatchedFacts
  <2>6. p # BasePolicy /\ m.results[p] = ExpectedRows(m, p)
    BY <1>3, <2>5, WatchedIsExpected
  <2>7. \A row \in Range(ExpectedRows(m, p)) : row.run = ExpectedRun(m, p)
    BY DEF ExpectedRows, Range
  <2>8. ExpectedRun(m, p).model = m.inputs.specialists[p].model
    BY <2>6 DEF ExpectedRun
  <2> QED
    BY <2>3, <2>6, <2>7, <2>8
<1>4. ASSUME IInv, Next, watch' # watch, Accepted
      PROVE  OnThisData
  <2>1. WatchData
    BY <1>1, <1>4 DEF Watch, WatchRead, WatchSpecialist
  <2>2. m.inputs.data = data
    BY <1>2, <1>4, <2>1 DEF WatchData
  <2>3. SUFFICES ASSUME NEW p \in Range(Watched), NEW row \in Range(m.results[p])
                 PROVE  row.run.eval.data = data
    OBVIOUS
  <2>4. p \in [tag : Specialists, seed : Range(WatchSeeds)]
    BY WatchedFacts DEF Range
  <2>5. m.eval.data = data /\ m.results[p] = ExpectedRows(m, p)
    BY <1>4, <2>2, <2>4, WatchedIsExpected
  <2>6. row.run = ExpectedRun(m, p)
    BY <2>5 DEF ExpectedRows, Range
  <2> QED
    BY <2>5, <2>6 DEF ExpectedRun
<1>5. IInv /\ [Next]_vars => [(Compared => Measures) /\ (Accepted => OnThisData)]_watch
  BY <1>3, <1>4 DEF vars
<1> QED
  BY Invariance, <1>5, PTL DEF Spec, AcceptedIsMeasured

----------------------------------------------------------------------------
(* Sums and products over finite sets.                                     *)

\* A set of numbers that is not empty has a least element.
LEMMA LeastNumber ==
  ASSUME NEW S \in SUBSET Nat, S # {}
  PROVE  \E n \in S : \A m \in S : n <= m
<1>1. PICK n \in S : \A m \in S : ~(<<m, n>> \in OpToRel(<, Nat))
  BY NatLessThanWellFounded, WFMin
<1>2. \A m \in S : ~(m < n)
  BY <1>1 DEF OpToRel
<1> QED
  BY <1>2

\* Of the finite sets in a collection that is not empty, one is smallest.
LEMMA SmallestSet ==
  ASSUME NEW C, C # {}, \A T \in C : IsFiniteSet(T)
  PROVE  \E T \in C : \A U \in C : Cardinality(T) <= Cardinality(U)
<1> DEFINE Counts == {Cardinality(T) : T \in C}
<1>1. Counts \in SUBSET Nat /\ Counts # {}
  BY FS_CardinalityType
<1>2. PICK n \in Counts : \A m \in Counts : n <= m
  BY <1>1, LeastNumber
<1> QED
  BY <1>2

\* What holds of the empty set, and of a set with one more element, holds of all
\* subsets of a finite set.
LEMMA SetInduction ==
  ASSUME NEW S, IsFiniteSet(S), NEW Good, {} \in Good,
         \A T \in SUBSET S : \A x \in S \ T : T \in Good => T \cup {x} \in Good
  PROVE  S \in Good
<1> DEFINE Bad == {T \in SUBSET S : T \notin Good}
<1>1. SUFFICES ASSUME Bad # {} PROVE FALSE
  OBVIOUS
<1>2. \A T \in SUBSET S : IsFiniteSet(T)
  BY FS_Subset
<1>3. PICK T \in Bad : \A U \in Bad : Cardinality(T) <= Cardinality(U)
  BY <1>1, <1>2, SmallestSet
<1>4. PICK x \in T : TRUE
  BY <1>3
<1>5. Cardinality(T \ {x}) = Cardinality(T) - 1 /\ Cardinality(T) \in Nat
  BY <1>2, <1>3, <1>4, FS_RemoveElement, FS_CardinalityType
<1>6. T \ {x} \in SUBSET S /\ T \ {x} \notin Bad /\ x \in S \ (T \ {x})
  BY <1>3, <1>4, <1>5
<1>7. (T \ {x}) \cup {x} \in Good
  BY <1>6
<1>8. (T \ {x}) \cup {x} = T
  BY <1>4
<1> QED
  BY <1>3, <1>7, <1>8

\* An operation on numbers can be folded over a finite set, whatever the order.
IsFold(g, op, e, f, S) ==
  /\ g \in [SUBSET S -> Int]
  /\ \A s \in SUBSET S :
       g[s] = IF s = {} THEN e
              ELSE op[<<f[CHOOSE x \in s : TRUE], g[s \ {CHOOSE x \in s : TRUE}]>>]

\* The fold of any numbers exists, by induction on the set.
LEMMA FoldExists ==
  ASSUME NEW S, IsFiniteSet(S), NEW op \in [Int \X Int -> Int], NEW e \in Int,
         NEW f, \A x \in S : f[x] \in Int
  PROVE  \E g : IsFold(g, op, e, f, S)
<1> DEFINE c(s) == CHOOSE x \in s : TRUE
           Upto(g, n) == \A s \in SUBSET S : Cardinality(s) <= n =>
                           g[s] = IF s = {} THEN e ELSE op[<<f[c(s)], g[s \ {c(s)}]>>]
           Bad == {n \in Nat : ~\E g \in [SUBSET S -> Int] : Upto(g, n)}
<1>1. \A s \in SUBSET S : Cardinality(s) \in Nat /\ IsFiniteSet(s) /\ Cardinality(s) <= Cardinality(S)
  BY FS_Subset, FS_CardinalityType
<1>2. \A s \in SUBSET S : s # {} => /\ c(s) \in s /\ s \ {c(s)} \in SUBSET S
                                    /\ Cardinality(s \ {c(s)}) = Cardinality(s) - 1
                                    /\ Cardinality(s) # 0
  BY <1>1, FS_RemoveElement, FS_EmptySet
<1>3. Cardinality({}) = 0 /\ \A s \in SUBSET S : Cardinality(s) = 0 <=> s = {}
  BY <1>1, FS_EmptySet
<1> HIDE DEF c
<1>4. Bad = {}
  <2>1. SUFFICES ASSUME Bad # {} PROVE FALSE
    OBVIOUS
  <2>2. PICK n \in Bad : \A m \in Bad : n <= m
    <3>1. Bad \in SUBSET Nat
      OBVIOUS
    <3> QED
      BY <2>1, <3>1, LeastNumber
  <2>3. CASE n = 0
    <3> DEFINE g == [s \in SUBSET S |-> e]
    <3>1. g \in [SUBSET S -> Int]
      OBVIOUS
    <3>2. Upto(g, 0)
      BY <1>1, <1>3
    <3> QED
      BY <2>2, <2>3, <3>1, <3>2
  <2>4. CASE n # 0
    <3>1. n \in Nat /\ n - 1 \in Nat /\ n - 1 \notin Bad
      <4>1. n \in Nat /\ n - 1 \in Nat
        BY <2>2, <2>4
      <4> HIDE DEF Bad
      <4> QED
        BY <2>2, <4>1
    <3>2. PICK g \in [SUBSET S -> Int] : Upto(g, n - 1)
      BY <3>1
    <3> DEFINE h == [s \in SUBSET S |-> IF Cardinality(s) <= n - 1 \/ s = {} THEN g[s]
                                        ELSE op[<<f[c(s)], g[s \ {c(s)}]>>]]
    <3>3. h \in [SUBSET S -> Int]
      <4>1. ASSUME NEW s \in SUBSET S, s # {} PROVE op[<<f[c(s)], g[s \ {c(s)}]>>] \in Int
        <5>1. f[c(s)] \in Int /\ g[s \ {c(s)}] \in Int
          BY <1>2, <4>1
        <5> QED
          BY <5>1
      <4> QED
        BY <4>1
    <3>4. ASSUME NEW s \in SUBSET S, Cardinality(s) <= n
          PROVE  h[s] = IF s = {} THEN e ELSE op[<<f[c(s)], h[s \ {c(s)}]>>]
      <4>1. CASE s = {}
        <5>1. Cardinality(s) = 0 /\ Cardinality(s) <= n - 1
          BY <1>3, <3>1, <4>1
        <5>2. g[s] = e /\ h[s] = g[s]
          BY <3>2, <3>4, <4>1, <5>1
        <5> QED
          BY <4>1, <5>2
      <4>2. CASE s # {}
        <5>1. /\ s \ {c(s)} \in SUBSET S /\ Cardinality(s \ {c(s)}) <= n - 1
          BY <1>1, <1>2, <3>1, <3>4, <4>2
        <5>2. h[s \ {c(s)}] = g[s \ {c(s)}]
          BY <5>1
        <5>3. h[s] = op[<<f[c(s)], g[s \ {c(s)}]>>]
          BY <3>1, <3>2, <3>4, <4>2
        <5> QED
          BY <4>2, <5>2, <5>3
      <4> QED
        BY <4>1, <4>2
    <3>5. Upto(h, n)
      BY <3>4
    <3> QED
      BY <2>2, <3>3, <3>5
  <2> QED
    BY <2>3, <2>4
<1>5. PICK g \in [SUBSET S -> Int] : Upto(g, Cardinality(S))
  BY <1>1, <1>4, FS_CardinalityType
<1>6. \A s \in SUBSET S : g[s] = IF s = {} THEN e ELSE op[<<f[c(s)], g[s \ {c(s)}]>>]
  BY <1>1, <1>5
<1> QED
  BY <1>6 DEF c, IsFold

\* The partial sums that a fold picks, over the subsets of a set.
Partial(g, f, S) ==
  g = [s \in SUBSET S |-> IF s = {} THEN 0
                          ELSE f[CHOOSE x \in s : TRUE] + g[s \ {CHOOSE x \in s : TRUE}]]

PartialSums(f, S) == CHOOSE g : Partial(g, f, S)

\* A sum is the last of the partial sums.
LEMMA SumIsPartial ==
  ASSUME NEW f, NEW S
  PROVE  SumFunctionOnSet(f, S) = PartialSums(f, S)[S]
BY DEF SumFunctionOnSet, FoldFunctionOnSet, MapThenFoldSet, PartialSums, Partial

\* They do exist: nothing is chosen from nothing.
LEMMA PartialSumsExist ==
  ASSUME NEW S, IsFiniteSet(S), NEW f, \A x \in S : f[x] \in Int
  PROVE  Partial(PartialSums(f, S), f, S)
<1> DEFINE op == [p \in Int \X Int |-> p[1] + p[2]]
           c(s) == CHOOSE x \in s : TRUE
<1>1. op \in [Int \X Int -> Int]
  OBVIOUS
<1>2. \A a, b \in Int : op[<<a, b>>] = a + b
  OBVIOUS
<1> HIDE DEF op
<1>3. \E g : IsFold(g, op, 0, f, S)
  BY <1>1, FoldExists
<1>4. PICK g \in [SUBSET S -> Int] : \A s \in SUBSET S :
        g[s] = IF s = {} THEN 0 ELSE op[<<f[c(s)], g[s \ {c(s)}]>>]
  BY <1>3 DEF IsFold
<1>5. \A s \in SUBSET S : s # {} => f[c(s)] \in Int /\ g[s \ {c(s)}] \in Int
  BY <1>4
<1> HIDE DEF c
<1>6. \A s \in SUBSET S : g[s] = IF s = {} THEN 0 ELSE f[c(s)] + g[s \ {c(s)}]
  BY <1>2, <1>4, <1>5
<1>7. g = [s \in SUBSET S |-> IF s = {} THEN 0 ELSE f[c(s)] + g[s \ {c(s)}]]
  BY <1>4, <1>6
<1>8. Partial(g, f, S)
  BY <1>7 DEF Partial, c
<1> QED
  BY <1>8 DEF PartialSums

\* The same for products.
PartialProduct(g, f, S) ==
  g = [s \in SUBSET S |-> IF s = {} THEN 1
                          ELSE f[CHOOSE x \in s : TRUE] * g[s \ {CHOOSE x \in s : TRUE}]]

PartialProducts(f, S) == CHOOSE g : PartialProduct(g, f, S)

\* A product is the last of the partial products.
LEMMA ProductIsPartial ==
  ASSUME NEW f
  PROVE  Product(f) = PartialProducts(f, DOMAIN f)[DOMAIN f]
BY DEF Product, FoldFunction, FoldFunctionOnSet, MapThenFoldSet, PartialProducts, PartialProduct

\* A product of numbers is a number.
LEMMA ProductIs ==
  ASSUME NEW f, IsFiniteSet(DOMAIN f), \A x \in DOMAIN f : f[x] \in Int
  PROVE  Product(f) \in Int
<1> DEFINE op == [p \in Int \X Int |-> p[1] * p[2]]
           c(s) == CHOOSE x \in s : TRUE
           S == DOMAIN f
<1>1. op \in [Int \X Int -> Int]
  OBVIOUS
<1>2. \A a, b \in Int : op[<<a, b>>] = a * b
  OBVIOUS
<1> HIDE DEF op
<1>3. \E g : IsFold(g, op, 1, f, S)
  BY <1>1, FoldExists
<1>4. PICK g \in [SUBSET S -> Int] : \A s \in SUBSET S :
        g[s] = IF s = {} THEN 1 ELSE op[<<f[c(s)], g[s \ {c(s)}]>>]
  BY <1>3 DEF IsFold
<1>5. \A s \in SUBSET S : s # {} => f[c(s)] \in Int /\ g[s \ {c(s)}] \in Int
  BY <1>4
<1> HIDE DEF c
<1>6. \A s \in SUBSET S : g[s] = IF s = {} THEN 1 ELSE f[c(s)] * g[s \ {c(s)}]
  BY <1>2, <1>4, <1>5
<1>7. g = [s \in SUBSET S |-> IF s = {} THEN 1 ELSE f[c(s)] * g[s \ {c(s)}]]
  BY <1>4, <1>6
<1>8. PartialProduct(g, f, S)
  BY <1>7 DEF PartialProduct, c
<1>9. PartialProduct(PartialProducts(f, S), f, S)
  BY <1>8 DEF PartialProducts
<1> DEFINE h == PartialProducts(f, S)
           Bad == {s \in SUBSET S : h[s] \notin Int}
<1>10. \A s \in SUBSET S : h[s] = IF s = {} THEN 1 ELSE f[c(s)] * h[s \ {c(s)}]
  BY <1>9 DEF PartialProduct, c
<1>11. \A s \in SUBSET S : IsFiniteSet(s) /\ Cardinality(s) \in Nat
  BY FS_Subset, FS_CardinalityType
<1>12. \A s \in SUBSET S : s # {} => c(s) \in s
  BY DEF c
<1>13. \A s \in SUBSET S : s # {} => /\ s \ {c(s)} \in SUBSET S
                                     /\ Cardinality(s \ {c(s)}) = Cardinality(s) - 1
  BY <1>11, <1>12, FS_RemoveElement
<1> HIDE DEF h
<1>14. Bad = {}
  <2>1. SUFFICES ASSUME Bad # {} PROVE FALSE
    OBVIOUS
  <2>2. PICK s \in Bad : \A u \in Bad : Cardinality(s) <= Cardinality(u)
    BY <1>11, <2>1, SmallestSet
  <2>3. s # {}
    <3>1. s \in SUBSET S /\ h[s] \notin Int
      BY <2>2
    <3>2. s = {} => h[s] = 1
      BY <1>10, <3>1
    <3> QED
      BY <3>1, <3>2
  <2>4. s \ {c(s)} \notin Bad
    BY <1>11, <1>13, <2>2, <2>3
  <2>5. h[s \ {c(s)}] \in Int /\ f[c(s)] \in Int
    BY <1>12, <1>13, <2>2, <2>3, <2>4
  <2>6. h[s] = f[c(s)] * h[s \ {c(s)}]
    BY <1>10, <2>2, <2>3
  <2> QED
    BY <2>2, <2>5, <2>6
<1> QED
  BY <1>14, ProductIsPartial DEF h

\* A partial sum is the same, whatever it is a part of.
LEMMA PartialsAgree ==
  ASSUME NEW f, NEW S, IsFiniteSet(S), NEW T \in SUBSET S,
         NEW g, Partial(g, f, S), NEW h, Partial(h, f, T)
  PROVE  g[T] = h[T]
<1> DEFINE c(s) == CHOOSE x \in s : TRUE
           Bad == {s \in SUBSET T : g[s] # h[s]}
<1>1. \A s \in SUBSET T : /\ IsFiniteSet(s) /\ Cardinality(s) \in Nat
                          /\ g[s] = IF s = {} THEN 0 ELSE f[c(s)] + g[s \ {c(s)}]
                          /\ h[s] = IF s = {} THEN 0 ELSE f[c(s)] + h[s \ {c(s)}]
  BY FS_Subset, FS_CardinalityType DEF Partial
<1>2. SUFFICES ASSUME Bad # {} PROVE FALSE
  OBVIOUS
<1>3. PICK s \in Bad : \A u \in Bad : Cardinality(s) <= Cardinality(u)
  BY <1>1, <1>2, SmallestSet
<1>4. s # {}
  BY <1>1, <1>3
<1>5. c(s) \in s
  BY <1>4
<1> HIDE DEF c
<1>6. s \ {c(s)} \in SUBSET T /\ Cardinality(s \ {c(s)}) = Cardinality(s) - 1
  BY <1>1, <1>3, <1>5, FS_RemoveElement
<1>7. s \ {c(s)} \notin Bad
  <2>1. s \in SUBSET T
    BY <1>3
  <2>2. Cardinality(s) \in Nat
    BY <1>1, <2>1
  <2>3. Cardinality(s \ {c(s)}) < Cardinality(s)
    BY <1>6, <2>2
  <2>4. Cardinality(s \ {c(s)}) \in Nat
    BY <1>1, <1>6
  <2> HIDE DEF Bad
  <2> QED
    BY <1>3, <1>6, <2>2, <2>3, <2>4
<1>8. g[s \ {c(s)}] = h[s \ {c(s)}]
  BY <1>6, <1>7
<1> QED
  BY <1>1, <1>3, <1>4, <1>8

Total(f, S) == SumFunctionOnSet(f, S)

\* A sum over numbers is a number, and any element may be taken out of it.
LEMMA TotalIs ==
  ASSUME NEW S, IsFiniteSet(S), NEW f, \A x \in S : f[x] \in Int
  PROVE  /\ Total(f, S) \in Int
         /\ Total(f, {}) = 0
         /\ \A x \in S : Total(f, S) = f[x] + Total(f, S \ {x})
<1> DEFINE c(s) == CHOOSE x \in s : TRUE
<1>1. \A s \in SUBSET S : IsFiniteSet(s) /\ Cardinality(s) \in Nat
  BY FS_Subset, FS_CardinalityType
<1>2. Total(f, {}) = 0
  <2>1. Partial(PartialSums(f, {}), f, {})
    BY FS_EmptySet, PartialSumsExist
  <2>2. PartialSums(f, {})[{}] = 0
    BY <2>1 DEF Partial
  <2> QED
    BY <2>2, SumIsPartial DEF Total
<1>3. ASSUME NEW s \in SUBSET S, s # {}
      PROVE  Total(f, s) = f[c(s)] + Total(f, s \ {c(s)})
  <2>1. c(s) \in s
    BY <1>3
  <2> HIDE DEF c
  <2>2. Partial(PartialSums(f, s), f, s)
    <3>1. \A x \in s : f[x] \in Int
      OBVIOUS
    <3> QED
      BY <1>1, <3>1, PartialSumsExist
  <2>3. Partial(PartialSums(f, s \ {c(s)}), f, s \ {c(s)})
    <3> DEFINE t == s \ {c(s)}
    <3>1. t \in SUBSET S /\ \A x \in t : f[x] \in Int
      OBVIOUS
    <3> QED
      BY <1>1, <3>1, PartialSumsExist
  <2>4. PartialSums(f, s)[s \ {c(s)}] = PartialSums(f, s \ {c(s)})[s \ {c(s)}]
    BY <1>1, <2>2, <2>3, PartialsAgree
  <2>5. PartialSums(f, s)[s] = f[c(s)] + PartialSums(f, s)[s \ {c(s)}]
    BY <1>3, <2>2 DEF Partial, c
  <2> QED
    BY <2>4, <2>5, SumIsPartial DEF Total
<1>4. \A s \in SUBSET S : s # {} => c(s) \in s
  OBVIOUS
<1> HIDE DEF c
<1>5. \A s \in SUBSET S : s # {} => /\ s \ {c(s)} \in SUBSET S
                                    /\ Cardinality(s \ {c(s)}) = Cardinality(s) - 1
  BY <1>1, <1>4, FS_RemoveElement
<1>6. \A s \in SUBSET S : Total(f, s) \in Int
  <2> DEFINE Bad == {s \in SUBSET S : Total(f, s) \notin Int}
  <2>1. SUFFICES ASSUME Bad # {} PROVE FALSE
    OBVIOUS
  <2>2. PICK s \in Bad : \A u \in Bad : Cardinality(s) <= Cardinality(u)
    BY <1>1, <2>1, SmallestSet
  <2>3. s # {}
    BY <1>2, <2>2
  <2>4. s \ {c(s)} \notin Bad
    BY <1>1, <1>5, <2>2, <2>3
  <2>5. Total(f, s \ {c(s)}) \in Int /\ f[c(s)] \in Int
    BY <1>4, <1>5, <2>2, <2>3, <2>4
  <2> QED
    BY <1>3, <2>2, <2>3, <2>5
<1>7. \A s \in SUBSET S : \A x \in s : Total(f, s) = f[x] + Total(f, s \ {x})
  <2> DEFINE Bad == {s \in SUBSET S : ~\A x \in s : Total(f, s) = f[x] + Total(f, s \ {x})}
  <2>1. SUFFICES ASSUME Bad # {} PROVE FALSE
    OBVIOUS
  <2>2. PICK s \in Bad : \A u \in Bad : Cardinality(s) <= Cardinality(u)
    BY <1>1, <2>1, SmallestSet
  <2>3. PICK x \in s : Total(f, s) # f[x] + Total(f, s \ {x})
    BY <2>2
  <2>4. PICK y : y = c(s)
    OBVIOUS
  <2>5. y \in s /\ y # x /\ Total(f, s) = f[y] + Total(f, s \ {y})
    BY <1>3, <1>4, <2>2, <2>3, <2>4
  <2> DEFINE sx == s \ {x}
             sy == s \ {y}
             sxy == s \ {x, y}
  <2>6. /\ sx \in SUBSET S /\ sy \in SUBSET S /\ x \in sy /\ y \in sx /\ sxy \in SUBSET S
        /\ sx \ {y} = sxy /\ sy \ {x} = sxy
    BY <2>2, <2>3, <2>5
  <2>7. Cardinality(sx) = Cardinality(s) - 1 /\ Cardinality(sy) = Cardinality(s) - 1
    BY <1>1, <2>2, <2>3, <2>5, FS_RemoveElement
  <2>8. sx \notin Bad /\ sy \notin Bad
    BY <1>1, <2>2, <2>6, <2>7
  <2>9. Total(f, sx) = f[y] + Total(f, sxy) /\ Total(f, sy) = f[x] + Total(f, sxy)
    <3> HIDE DEF sxy
    <3> QED
      BY <2>6, <2>8
  <2>10. Total(f, s) = f[y] + Total(f, sy) /\ Total(f, s) # f[x] + Total(f, sx)
    BY <2>3, <2>5
  <2>11. f[x] \in Int /\ f[y] \in Int /\ Total(f, sxy) \in Int
    BY <1>6, <2>2, <2>3, <2>5, <2>6
  <2> QED
    BY <2>9, <2>10, <2>11
<1> QED
  BY <1>2, <1>6, <1>7

\* A sum with one more summand.
LEMMA TotalGrows ==
  ASSUME NEW S, IsFiniteSet(S), NEW f, \A x \in S : f[x] \in Int,
         NEW T \in SUBSET S, NEW x \in S \ T
  PROVE  /\ Total(f, T \cup {x}) = f[x] + Total(f, T)
         /\ Total(f, T) \in Int
<1>1. IsFiniteSet(T \cup {x}) /\ IsFiniteSet(T) /\ (T \cup {x}) \ {x} = T
  BY FS_Subset
<1> QED
  BY <1>1, TotalIs

\* The sum of a single value.
LEMMA TotalOfOne ==
  ASSUME NEW f, NEW x, f[x] \in Int
  PROVE  Total(f, {x}) = f[x]
<1>1. IsFiniteSet({x}) /\ {x} \ {x} = {}
  BY FS_Singleton
<1>2. Total(f, {x}) = f[x] + Total(f, {}) /\ Total(f, {}) = 0
  BY <1>1, TotalIs
<1> QED
  BY <1>2

\* A common factor.
LEMMA TotalScaled ==
  ASSUME NEW S, IsFiniteSet(S), NEW f, NEW g, NEW c \in Int,
         \A x \in S : f[x] \in Int /\ g[x] = f[x] * c
  PROVE  Total(g, S) = Total(f, S) * c
<1> DEFINE Good == {T \in SUBSET S : Total(g, T) = Total(f, T) * c}
<1>1. \A x \in S : g[x] \in Int
  OBVIOUS
<1>2. {} \in Good
  <2>1. Total(f, {}) = 0 /\ Total(g, {}) = 0
    BY TotalIs, FS_EmptySet
  <2> QED
    BY <2>1
<1>3. ASSUME NEW T \in SUBSET S, NEW x \in S \ T, T \in Good PROVE T \cup {x} \in Good
  <2>1. \A y \in S : f[y] \in Int
    OBVIOUS
  <2>2. Total(f, T \cup {x}) = f[x] + Total(f, T) /\ Total(f, T) \in Int
    BY <2>1, TotalGrows
  <2>3. Total(g, T \cup {x}) = g[x] + Total(g, T)
    BY <1>1, TotalGrows
  <2>4. PICK a \in Int, b \in Int : a = f[x] /\ b = Total(f, T)
    BY <2>1, <2>2
  <2>5. (a + b) * c = a * c + b * c
    OBVIOUS
  <2>6. Total(g, T) = b * c /\ g[x] = a * c
    BY <1>3, <2>4
  <2>7. Total(g, T \cup {x}) = Total(f, T \cup {x}) * c
    BY <2>2, <2>4, <2>5, <2>6, <2>3
  <2> QED
    BY <1>3, <2>7
<1> HIDE DEF Good
<1>4. S \in Good
  BY <1>2, <1>3, SetInduction
<1> QED
  BY <1>4 DEF Good

\* The sum over two sets without a common element.
LEMMA TotalJoined ==
  ASSUME NEW S, IsFiniteSet(S), NEW f, \A x \in S : f[x] \in Int,
         NEW A \in SUBSET S, NEW B \in SUBSET S, A \cap B = {}
  PROVE  Total(f, A \cup B) = Total(f, A) + Total(f, B)
<1> DEFINE Good == {T \in SUBSET B : Total(f, A \cup T) = Total(f, A) + Total(f, T)}
<1>1. IsFiniteSet(A) /\ IsFiniteSet(B)
  BY FS_Subset
<1>2. Total(f, A) \in Int
  <2>1. \A x \in A : f[x] \in Int
    OBVIOUS
  <2> QED
    BY <1>1, <2>1, TotalIs
<1>3. {} \in Good
  <2>1. Total(f, {}) = 0
    BY TotalIs
  <2>2. A \cup {} = A
    OBVIOUS
  <2> QED
    BY <1>2, <2>1, <2>2
<1>4. ASSUME NEW T \in SUBSET B, NEW x \in B \ T, T \in Good PROVE T \cup {x} \in Good
  <2>1. /\ T \in SUBSET S /\ x \in S \ T
        /\ A \cup T \in SUBSET S /\ x \in S \ (A \cup T)
        /\ A \cup (T \cup {x}) = (A \cup T) \cup {x}
    OBVIOUS
  <2>2. Total(f, T \cup {x}) = f[x] + Total(f, T) /\ Total(f, T) \in Int
    BY <2>1, TotalGrows
  <2>3. Total(f, (A \cup T) \cup {x}) = f[x] + Total(f, A \cup T)
    BY <2>1, TotalGrows
  <2>4. Total(f, A \cup T) = Total(f, A) + Total(f, T)
    BY <1>4
  <2>5. Total(f, A \cup (T \cup {x})) = Total(f, A) + Total(f, T \cup {x})
    <3>1. PICK a \in Int, b \in Int, c \in Int :
            a = Total(f, A) /\ b = Total(f, T) /\ c = f[x]
      BY <1>2, <2>2
    <3>2. Total(f, A \cup (T \cup {x})) = c + (a + b)
      BY <2>1, <2>3, <2>4, <3>1
    <3>3. Total(f, A) + Total(f, T \cup {x}) = a + (c + b)
      BY <2>2, <3>1
    <3>4. c + (a + b) = a + (c + b)
      OBVIOUS
    <3> QED
      BY <3>2, <3>3, <3>4
  <2> QED
    BY <1>4, <2>5
<1> HIDE DEF Good
<1>5. B \in Good
  BY <1>1, <1>3, <1>4, SetInduction
<1> QED
  BY <1>5 DEF Good

\* The group that a function gives the value d.
GroupOf(S, i, d) == {x \in S : i[x] = d}

\* The sum of the sums of the groups that a function makes of a set.
LEMMA TotalGrouped ==
  ASSUME NEW S, IsFiniteSet(S), NEW f, \A x \in S : f[x] \in Int,
         NEW D, IsFiniteSet(D), NEW i, \A x \in S : i[x] \in D,
         NEW g, \A d \in D : g[d] = Total(f, GroupOf(S, i, d))
  PROVE  Total(g, D) = Total(f, S)
<1> DEFINE part(T) == {x \in S : i[x] \in T}
           Good == {T \in SUBSET D : Total(g, T) = Total(f, part(T))}
<1>1. \A d \in D : g[d] \in Int
  <2>1. ASSUME NEW d \in D PROVE g[d] \in Int
    <3> DEFINE P == {x \in S : i[x] = d}
    <3>1. IsFiniteSet(P) /\ \A x \in P : f[x] \in Int
      BY FS_Subset
    <3> HIDE DEF P
    <3>2. Total(f, P) \in Int
      BY <3>1, TotalIs
    <3> QED
      BY <3>2 DEF P, GroupOf
  <2> QED
    BY <2>1
<1>2. {} \in Good
  <2>1. Total(f, {}) = 0 /\ part({}) = {}
    BY TotalIs
  <2>2. Total(g, {}) = 0
    BY <1>1, TotalIs
  <2> QED
    BY <2>1, <2>2
<1>3. ASSUME NEW T \in SUBSET D, NEW d \in D \ T, T \in Good PROVE T \cup {d} \in Good
  <2> DEFINE P == {x \in S : i[x] = d}
  <2>1. Total(g, T \cup {d}) = g[d] + Total(g, T) /\ Total(g, T) \in Int
    BY <1>1, TotalGrows
  <2>2. /\ part(T \cup {d}) = P \cup part(T) /\ P \cap part(T) = {}
        /\ P \in SUBSET S /\ part(T) \in SUBSET S
    OBVIOUS
  <2>3. g[d] = Total(f, P) /\ Total(g, T) = Total(f, part(T))
    BY <1>3 DEF GroupOf
  <2> HIDE DEF P, part
  <2>4. Total(f, P \cup part(T)) = Total(f, P) + Total(f, part(T))
    BY <2>2, TotalJoined
  <2>5. Total(g, T \cup {d}) = Total(f, part(T \cup {d}))
    <3>1. Total(g, T \cup {d}) = Total(f, P) + Total(f, part(T))
      BY <2>1, <2>3
    <3>2. Total(f, part(T \cup {d})) = Total(f, P \cup part(T))
      BY <2>2
    <3> QED
      BY <2>4, <3>1, <3>2
  <2> QED
    BY <1>3, <2>5
<1> HIDE DEF Good
<1>4. D \in Good
  BY <1>2, <1>3, SetInduction
<1>5. part(D) = S
  OBVIOUS
<1> QED
  BY <1>4, <1>5 DEF Good

\* What a function makes of a finite set is finite.
LEMMA ImageIsFinite ==
  ASSUME NEW S, IsFiniteSet(S), NEW i
  PROVE  IsFiniteSet({i[x] : x \in S})
<1>1. [x \in S |-> i[x]] \in Surjection(S, {i[x] : x \in S})
  BY DEF Surjection
<1> QED
  BY <1>1, FS_Surjection

\* A sum over other names of the same elements.
LEMMA TotalRenamed ==
  ASSUME NEW S, IsFiniteSet(S), NEW i, \A x, y \in S : i[x] = i[y] => x = y,
         NEW f, NEW g, \A x \in S : g[i[x]] \in Int /\ f[x] = g[i[x]]
  PROVE  Total(g, {i[x] : x \in S}) = Total(f, S)
<1> DEFINE image(T) == {i[x] : x \in T}
           Good == {T \in SUBSET S : Total(g, image(T)) = Total(f, T)}
<1>1. /\ \A x \in S : f[x] \in Int
      /\ \A y \in image(S) : g[y] \in Int
      /\ \A T \in SUBSET S : image(T) \in SUBSET image(S)
  OBVIOUS
<1>2. IsFiniteSet(image(S))
  BY ImageIsFinite
<1>3. {} \in Good
  <2>1. Total(f, {}) = 0 /\ image({}) = {}
    BY <1>1, TotalIs
  <2>2. Total(g, {}) = 0
    BY <1>1, <1>2, TotalIs
  <2> QED
    BY <2>1, <2>2
<1>4. ASSUME NEW T \in SUBSET S, NEW x \in S \ T, T \in Good PROVE T \cup {x} \in Good
  <2>1. Total(f, T \cup {x}) = f[x] + Total(f, T)
    BY <1>1, TotalGrows
  <2>2. /\ image(T \cup {x}) = image(T) \cup {i[x]} /\ i[x] \in image(S) \ image(T)
        /\ image(T) \in SUBSET image(S)
    OBVIOUS
  <2>3. f[x] = g[i[x]] /\ Total(g, image(T)) = Total(f, T)
    BY <1>4
  <2> HIDE DEF image
  <2>4. Total(g, image(T) \cup {i[x]}) = g[i[x]] + Total(g, image(T))
    BY <1>1, <1>2, <2>2, TotalGrows
  <2>5. Total(g, image(T \cup {x})) = Total(f, T \cup {x})
    BY <2>1, <2>2, <2>3, <2>4
  <2> QED
    BY <1>4, <2>5
<1> HIDE DEF Good
<1>5. S \in Good
  BY <1>3, <1>4, SetInduction
<1> QED
  BY <1>5 DEF Good

\* Flipping the signs of some summands takes each of them away twice.
LEMMA TotalFlipped ==
  ASSUME NEW S, IsFiniteSet(S), NEW f, NEW g, NEW flipped \in SUBSET S,
         \A x \in S : f[x] \in Int /\ g[x] = IF x \in flipped THEN (-1) * f[x] ELSE 1 * f[x]
  PROVE  Total(g, S) = Total(f, S) - 2 * Total(f, flipped)
<1> DEFINE Good == {T \in SUBSET S : Total(g, T) = Total(f, T) - 2 * Total(f, T \cap flipped)}
<1>1. \A x \in S : f[x] \in Int
  OBVIOUS
<1>2. \A x \in S : g[x] \in Int
  OBVIOUS
<1>3. {} \in Good
  <2>1. Total(f, {}) = 0 /\ {} \cap flipped = {}
    BY <1>1, TotalIs
  <2>2. Total(g, {}) = 0
    BY <1>2, TotalIs
  <2> QED
    BY <2>1, <2>2
<1>4. ASSUME NEW T \in SUBSET S, NEW x \in S \ T, T \in Good PROVE T \cup {x} \in Good
  <2>1. Total(f, T \cup {x}) = f[x] + Total(f, T) /\ Total(f, T) \in Int
    BY <1>1, TotalGrows
  <2>2. Total(g, T \cup {x}) = g[x] + Total(g, T) /\ Total(g, T) \in Int
    BY <1>2, TotalGrows
  <2> DEFINE F == T \cap flipped
  <2>3. F \in SUBSET S /\ x \in S \ F
    OBVIOUS
  <2>4. Total(g, T) = Total(f, T) - 2 * Total(f, F)
    BY <1>4
  <2>5. (T \cup {x}) \cap flipped = IF x \in flipped THEN F \cup {x} ELSE F
    OBVIOUS
  <2> HIDE DEF F
  <2>6. Total(f, F \cup {x}) = f[x] + Total(f, F) /\ Total(f, F) \in Int
    BY <1>1, <2>3, TotalGrows
  <2>7. f[x] \in Int /\ g[x] = IF x \in flipped THEN (-1) * f[x] ELSE 1 * f[x]
    OBVIOUS
  <2>8. Total(g, T \cup {x}) = Total(f, T \cup {x}) - 2 * Total(f, (T \cup {x}) \cap flipped)
    <3>1. CASE x \in flipped
      <4>1. Total(f, (T \cup {x}) \cap flipped) = f[x] + Total(f, F)
        BY <2>5, <2>6, <3>1
      <4>2. g[x] = (-1) * f[x]
        BY <2>7, <3>1
      <4> QED
        BY <2>1, <2>2, <2>4, <2>6, <2>7, <4>1, <4>2
    <3>2. CASE x \notin flipped
      <4>1. Total(f, (T \cup {x}) \cap flipped) = Total(f, F)
        BY <2>5, <3>2
      <4>2. g[x] = 1 * f[x]
        BY <2>7, <3>2
      <4> QED
        BY <2>1, <2>2, <2>4, <2>6, <2>7, <4>1, <4>2
    <3> QED
      BY <3>1, <3>2
  <2> QED
    BY <1>4, <2>8
<1> HIDE DEF Good
<1>5. S \in Good
  BY <1>3, <1>4, SetInduction
<1>6. S \cap flipped = flipped
  OBVIOUS
<1> QED
  BY <1>5, <1>6 DEF Good

\* A finite set of numbers that is not empty has a largest element, its Max.
LEMMA MaxIs ==
  ASSUME NEW S \in SUBSET Int, IsFiniteSet(S), S # {}
  PROVE  Max(S) \in S /\ \A x \in S : x <= Max(S)
<1> DEFINE Good == {T \in SUBSET S : T = {} \/ \E x \in T : \A y \in T : y <= x}
<1>1. {} \in Good
  OBVIOUS
<1>2. ASSUME NEW T \in SUBSET S, NEW x \in S \ T, T \in Good PROVE T \cup {x} \in Good
  <2>1. CASE T = {}
    <3>1. x <= x
      OBVIOUS
    <3> QED
      BY <2>1, <3>1
  <2>2. CASE T # {}
    <3>1. PICK y \in T : \A z \in T : z <= y
      BY <1>2, <2>2
    <3>2. CASE x <= y
      BY <3>1, <3>2
    <3>3. CASE ~(x <= y)
      <4>1. \A z \in T : z <= x
        BY <3>1, <3>3
      <4>2. x <= x
        OBVIOUS
      <4> QED
        BY <4>1, <4>2
    <3> QED
      BY <3>2, <3>3
  <2> QED
    BY <2>1, <2>2
<1> HIDE DEF Good
<1>3. S \in Good
  BY <1>1, <1>2, SetInduction
<1>4. \E x \in S : \A y \in S : x >= y
  BY <1>3 DEF Good
<1> QED
  BY <1>4 DEF Max

\* The Max of two sets, each of which stays below the other, is the same.
LEMMA MaxAlike ==
  ASSUME NEW S \in SUBSET Int, IsFiniteSet(S), S # {},
         NEW T \in SUBSET Int, IsFiniteSet(T), T # {},
         \A x \in S : \E y \in T : x <= y, \A y \in T : \E x \in S : y <= x
  PROVE  Max(S) = Max(T)
<1>1. Max(S) \in S /\ \A x \in S : x <= Max(S)
  BY MaxIs
<1>2. Max(T) \in T /\ \A x \in T : x <= Max(T)
  BY MaxIs
<1>3. PICK y \in T : Max(S) <= y
  BY <1>1
<1>4. PICK x \in S : Max(T) <= x
  BY <1>2
<1>5. Max(S) \in Int /\ Max(T) \in Int /\ x \in Int /\ y \in Int
  BY <1>1, <1>2
<1>6. y <= Max(T) /\ x <= Max(S)
  BY <1>1, <1>2
<1> QED
  BY <1>3, <1>4, <1>5, <1>6

\* A sum over a function is the one over its domain.
LEMMA SumIsTotal ==
  ASSUME NEW f
  PROVE  SumFunction(f) = Total(f, DOMAIN f)
BY DEF SumFunction, Total

\* Two sets whose elements correspond have the same size.
LEMMA SameSize ==
  ASSUME NEW S, IsFiniteSet(S), NEW T, NEW i,
         \A x \in S : i[x] \in T,
         \A x, y \in S : i[x] = i[y] => x = y,
         \A y \in T : \E x \in S : i[x] = y
  PROVE  IsFiniteSet(T) /\ Cardinality(T) = Cardinality(S)
<1> DEFINE h == [x \in S |-> i[x]]
<1>1. h \in Bijection(S, T)
  BY DEF Bijection, Injection, Surjection, IsInjective
<1> QED
  BY <1>1, FS_Bijection DEF ExistsBijection

----------------------------------------------------------------------------
(* The sign-flip test.                                                     *)

\* A vector of signs whose sum is no less is a set of flipped seeds that did not
\* gain in all.
LEMMA SignFlipIs ==
  ASSUME NEW v, IsFiniteSet(DOMAIN v), \A s \in DOMAIN v : v[s] \in Int
  PROVE  SignFlip(v) = TrueSignFlip(v) /\ SignFlip(v) \in Nat
<1> DEFINE S == DOMAIN v
           signed(signs) == [s \in S |-> signs[s] * v[s]]
           signsOf(F) == [s \in S |-> IF s \in F THEN -1 ELSE 1]
           flips == [F \in SUBSET S |-> signsOf(F)]
           FV == {F \in SUBSET S : SumFunctionOnSet(v, F) <= 0}
           SV == {signs \in [S -> {-1, 1}] : SumFunction(signed(signs)) >= SumFunction(v)}
<1>1. ASSUME NEW F \in SUBSET S
      PROVE  /\ signsOf(F) \in [S -> {-1, 1}]
             /\ F \in FV <=> signsOf(F) \in SV
  <2>1. signsOf(F) \in [S -> {-1, 1}]
    OBVIOUS
  <2>2. \A s \in S : signed(signsOf(F))[s] = IF s \in F THEN (-1) * v[s] ELSE 1 * v[s]
    OBVIOUS
  <2>3. DOMAIN signed(signsOf(F)) = S
    OBVIOUS
  <2> DEFINE g == signed(signsOf(F))
  <2> HIDE DEF g
  <2>4. Total(g, S) = Total(v, S) - 2 * Total(v, F)
    BY <2>2, TotalFlipped DEF g
  <2>5. Total(v, S) \in Int
    BY TotalIs
  <2>6. Total(v, F) \in Int
    <3>1. IsFiniteSet(F) /\ \A s \in F : v[s] \in Int
      BY FS_Subset
    <3> QED
      BY <3>1, TotalIs
  <2>7. SumFunction(g) = Total(g, S) /\ SumFunction(v) = Total(v, S)
    BY <2>3, SumIsTotal DEF g
  <2>8. SumFunctionOnSet(v, F) = Total(v, F)
    BY DEF Total
  <2>9. Total(v, F) <= 0 <=> SumFunction(g) >= SumFunction(v)
    BY <2>4, <2>5, <2>6, <2>7
  <2>10. signsOf(F) \in SV <=> SumFunction(g) >= SumFunction(v)
    BY <2>1 DEF g
  <2>11. F \in FV <=> Total(v, F) <= 0
    BY <2>8
  <2> QED
    BY <2>1, <2>9, <2>10, <2>11
<1>2. \A F \in FV : flips[F] \in SV
  BY <1>1
<1>3. \A F, G \in FV : flips[F] = flips[G] => F = G
  <2>1. SUFFICES ASSUME NEW F \in SUBSET S, NEW G \in SUBSET S, signsOf(F) = signsOf(G)
                 PROVE  F = G
    OBVIOUS
  <2>2. \A s \in S : signsOf(F)[s] = signsOf(G)[s]
    BY <2>1
  <2>3. \A s \in S : s \in F <=> s \in G
    BY <2>2
  <2> QED
    BY <2>3
<1>4. \A signs \in SV : \E F \in FV : flips[F] = signs
  <2> SUFFICES ASSUME NEW signs \in SV
               PROVE  \E F \in FV : flips[F] = signs
    OBVIOUS
  <2> DEFINE F == {s \in S : signs[s] = -1}
  <2>1. signs \in [S -> {-1, 1}]
    OBVIOUS
  <2>2. \A s \in S : signs[s] = IF s \in F THEN -1 ELSE 1
    BY <2>1
  <2>3. signs = signsOf(F)
    BY <2>1, <2>2
  <2>4. F \in SUBSET S
    OBVIOUS
  <2> HIDE DEF F
  <2>5. F \in FV
    BY <1>1, <2>3, <2>4
  <2> QED
    BY <2>3, <2>4, <2>5
<1>5. IsFiniteSet(FV)
  BY FS_SUBSET, FS_Subset
<1> HIDE DEF flips
<1>6. Cardinality(SV) = Cardinality(FV)
  <2> HIDE DEF SV, FV
  <2> QED
    BY <1>2, <1>3, <1>4, <1>5, SameSize
<1>7. Cardinality(FV) \in Nat
  BY <1>5, FS_CardinalityType
<1> QED
  BY <1>6, <1>7 DEF SignFlip, TrueSignFlip

----------------------------------------------------------------------------
(* The adjustment of the p-values.                                         *)

\* Tests are [group, p]; no two have the same group.
AreTests(tests) ==
  /\ IsFiniteSet(tests)
  /\ \A t \in tests : t.group \in Nat /\ t.p \in Nat
  /\ \A t, u \in tests : t.group = u.group => t = u

UpTo(u, t) == u.p < t.p \/ (u.p = t.p /\ u.group <= t.group)

PlaceOf(tests, t) == Cardinality({u \in tests : UpTo(u, t)})

FromOn(tests, t) == Cardinality({u \in tests : UpTo(t, u)})

\* A place is that of no more tests, and the tests from it on are the rest.
LEMMA PlaceIs ==
  ASSUME NEW tests, AreTests(tests), NEW t \in tests
  PROVE  /\ PlaceOf(tests, t) \in Nat /\ FromOn(tests, t) \in Nat
         /\ Cardinality(tests) - PlaceOf(tests, t) + 1 = FromOn(tests, t)
         /\ \A u \in tests : UpTo(u, t) <=> PlaceOf(tests, u) <= PlaceOf(tests, t)
<1> DEFINE below(u) == {w \in tests : UpTo(w, u)}
           above(u) == {w \in tests : UpTo(u, w)}
<1>1. \A u \in tests : IsFiniteSet(below(u)) /\ IsFiniteSet(above(u))
  BY FS_Subset DEF AreTests
<1>2. \A u \in tests : Cardinality(below(u)) \in Nat /\ Cardinality(above(u)) \in Nat
  BY <1>1, FS_CardinalityType
<1>3. \A u, w \in tests : UpTo(u, w) \/ UpTo(w, u)
  BY DEF AreTests, UpTo
<1>4. \A u, w \in tests : UpTo(u, w) /\ UpTo(w, u) => u = w
  BY DEF AreTests, UpTo
<1>5. \A u, w, x \in tests : UpTo(u, w) /\ UpTo(w, x) => UpTo(u, x)
  BY DEF AreTests, UpTo
<1>6. Cardinality(tests) = Cardinality(below(t)) + Cardinality(above(t)) - 1
  <2>1. below(t) \cup above(t) = tests
    BY <1>3
  <2>2. below(t) \cap above(t) = {t}
    <3>1. UpTo(t, t)
      BY <1>3
    <3>2. \A u \in below(t) \cap above(t) : u = t
      BY <1>4
    <3>3. t \in below(t) \cap above(t)
      BY <3>1
    <3> QED
      BY <3>2, <3>3
  <2> HIDE DEF below, above
  <2>3. Cardinality(below(t) \cup above(t)) =
          Cardinality(below(t)) + Cardinality(above(t)) - Cardinality(below(t) \cap above(t))
    BY <1>1, FS_Union
  <2>4. Cardinality({t}) = 1
    BY FS_Singleton
  <2> QED
    BY <2>1, <2>2, <2>3, <2>4
<1>7. ASSUME NEW u \in tests, UpTo(u, t)
      PROVE  Cardinality(below(u)) <= Cardinality(below(t))
  <2>1. below(u) \subseteq below(t)
    BY <1>5, <1>7
  <2> HIDE DEF below
  <2> QED
    BY <1>1, <2>1, FS_Subset
<1>8. ASSUME NEW u \in tests, ~UpTo(u, t)
      PROVE  ~(Cardinality(below(u)) <= Cardinality(below(t)))
  <2>1. UpTo(t, u)
    BY <1>3, <1>8
  <2>2. below(t) \subseteq below(u)
    BY <1>5, <2>1
  <2>3. u \in below(u) /\ u \notin below(t)
    BY <1>3, <1>8
  <2>4. Cardinality(below(u)) \in Nat /\ Cardinality(below(t)) \in Nat
    BY <1>2
  <2> HIDE DEF below
  <2>5. Cardinality(below(t)) <= Cardinality(below(u)) /\ Cardinality(below(t)) # Cardinality(below(u))
    BY <1>1, <2>2, <2>3, FS_Subset
  <2> QED
    BY <2>5, <2>4
<1> QED
  BY <1>2, <1>6, <1>7, <1>8 DEF PlaceOf, FromOn

\* A larger number of hypotheses gives a larger product.
LEMMA ProductGrows ==
  ASSUME NEW a \in Nat, NEW b \in Nat, NEW p \in Nat, a <= b
  PROVE  a * p <= b * p /\ a * p \in Nat /\ b * p = p * b
<1>1. (b - a) * p >= 0
  OBVIOUS
<1>2. (b - a) * p = b * p - a * p
  OBVIOUS
<1>3. a * p \in Int /\ b * p \in Int /\ a * p >= 0
  OBVIOUS
<1>4. b * p = p * b
  OBVIOUS
<1> QED
  BY <1>1, <1>2, <1>3, <1>4

\* Of the tests with one p-value, the first meets all that are no smaller.
LEMMA FirstOfEquals ==
  ASSUME NEW tests, AreTests(tests), NEW t \in tests
  PROVE  \E u \in tests : /\ u.p = t.p
                          /\ \A w \in tests : w.p = u.p => u.group <= w.group
                          /\ FromOn(tests, u) = Cardinality({w \in tests : w.p >= t.p})
<1> DEFINE Equals == {w \in tests : w.p = t.p}
           Groups == {w.group : w \in Equals}
<1>1. Groups \in SUBSET Nat /\ Groups # {}
  BY DEF AreTests
<1>2. PICK n \in Groups : \A m \in Groups : n <= m
  BY <1>1, LeastNumber
<1>3. PICK u \in Equals : u.group = n
  BY <1>2
<1>4. u \in tests /\ u.p = t.p /\ \A w \in tests : w.p = u.p => u.group <= w.group
  BY <1>2, <1>3
<1>5. {w \in tests : UpTo(u, w)} = {w \in tests : w.p >= t.p}
  <2>1. \A w \in tests : UpTo(u, w) <=> w.p >= t.p
    BY <1>4 DEF UpTo, AreTests
  <2> QED
    BY <2>1
<1> QED
  BY <1>4, <1>5 DEF FromOn

\* The largest product up to a test, in the order of the tests and without one.
HolmProduct(tests, t) == t.p * Cardinality({u \in tests : u.p >= t.p})

HolmAdjusted(tests, one, t) ==
  Min({one, Max({HolmProduct(tests, u) : u \in {v \in tests : v.p <= t.p}})})

\* The adjusted p-value of a test is the largest of the products of the p-values up
\* to its own, whatever the order among equal ones.
LEMMA HolmIs ==
  ASSUME NEW tests, AreTests(tests), NEW one, NEW t \in tests
  PROVE  HolmAdjust(tests, one)[t] = HolmAdjusted(tests, one, t)
<1> DEFINE product(u) == (Cardinality(tests) - PlaceOf(tests, u) + 1) * u.p
           passed == {u \in tests : PlaceOf(tests, u) <= PlaceOf(tests, t)}
           smaller == {v \in tests : v.p <= t.p}
           A == {product(u) : u \in passed}
           B == {HolmProduct(tests, u) : u \in smaller}
<1>1. HolmAdjust(tests, one)[t] = Min({one, Max(A)})
  BY DEF HolmAdjust, PlaceOf, UpTo
<1>2. \A u \in tests : u.group \in Nat /\ u.p \in Nat
  BY DEF AreTests
<1>3. \A u \in tests : product(u) = FromOn(tests, u) * u.p /\ FromOn(tests, u) \in Nat
  BY PlaceIs
<1>4. passed = {u \in tests : UpTo(u, t)}
  BY PlaceIs
<1> DEFINE size(u) == Cardinality({w \in tests : w.p >= u.p})
<1>5. ASSUME NEW u \in tests PROVE size(u) \in Nat /\ FromOn(tests, u) <= size(u)
  <2> DEFINE S == {w \in tests : w.p >= u.p}
             T == {w \in tests : UpTo(u, w)}
  <2>1. T \in SUBSET S
    BY <1>2 DEF UpTo
  <2>2. IsFiniteSet(S)
    BY FS_Subset DEF AreTests
  <2> HIDE DEF S, T
  <2>3. Cardinality(T) <= Cardinality(S) /\ Cardinality(S) \in Nat
    BY <2>1, <2>2, FS_Subset, FS_CardinalityType
  <2> QED
    BY <2>3 DEF S, T, FromOn
<1>6. \A u \in tests : HolmProduct(tests, u) = u.p * size(u)
  BY DEF HolmProduct
<1> HIDE DEF size, product
<1>7. \A u \in tests : /\ product(u) \in Nat /\ HolmProduct(tests, u) \in Nat
                       /\ product(u) <= HolmProduct(tests, u)
  <2> SUFFICES ASSUME NEW u \in tests
               PROVE  /\ product(u) \in Nat /\ HolmProduct(tests, u) \in Nat
                      /\ product(u) <= HolmProduct(tests, u)
    OBVIOUS
  <2>1. /\ FromOn(tests, u) * u.p <= size(u) * u.p /\ FromOn(tests, u) * u.p \in Nat
        /\ size(u) * u.p = u.p * size(u)
    BY <1>2, <1>3, <1>5, ProductGrows
  <2>2. u.p * size(u) \in Nat
    BY <1>2, <1>5
  <2> QED
    BY <1>3, <1>6, <2>1, <2>2
<1>8. A \in SUBSET Int /\ B \in SUBSET Int
  BY <1>7
<1>9. t \in passed /\ t \in smaller
  <2>1. UpTo(t, t)
    BY <1>2 DEF UpTo
  <2> QED
    BY <1>2, <1>4, <2>1
<1>10. A # {} /\ B # {}
  BY <1>9
<1>11. IsFiniteSet(A) /\ IsFiniteSet(B)
  <2>1. IsFiniteSet(passed) /\ IsFiniteSet(smaller)
    BY FS_Subset DEF AreTests
  <2> DEFINE f == [u \in tests |-> product(u)]
             g == [u \in tests |-> HolmProduct(tests, u)]
  <2>2. A = {f[u] : u \in passed} /\ B = {g[u] : u \in smaller}
    OBVIOUS
  <2> HIDE DEF f, g, passed, smaller, A, B
  <2> QED
    BY <2>1, <2>2, ImageIsFinite
<1>12. \A x \in A : \E y \in B : x <= y
  <2> SUFFICES ASSUME NEW u \in passed PROVE \E y \in B : product(u) <= y
    OBVIOUS
  <2>1. u \in smaller
    BY <1>2, <1>4 DEF UpTo
  <2>2. HolmProduct(tests, u) \in B /\ product(u) <= HolmProduct(tests, u)
    BY <1>7, <2>1
  <2> QED
    BY <2>2
<1>13. \A y \in B : \E x \in A : y <= x
  <2> SUFFICES ASSUME NEW u \in smaller PROVE \E x \in A : HolmProduct(tests, u) <= x
    OBVIOUS
  <2>1. PICK w \in tests : /\ w.p = u.p
                           /\ \A x \in tests : x.p = w.p => w.group <= x.group
                           /\ FromOn(tests, w) = Cardinality({x \in tests : x.p >= u.p})
    BY FirstOfEquals
  <2>2. FromOn(tests, w) = size(u)
    BY <2>1 DEF size
  <2>3. w \in passed
    <3>1. UpTo(w, t)
      BY <1>2, <2>1 DEF UpTo
    <3> QED
      BY <1>4, <3>1
  <2>4. product(w) = HolmProduct(tests, u)
    <3>1. FromOn(tests, w) * w.p = size(u) * u.p
      BY <2>1, <2>2
    <3>2. size(u) * u.p = u.p * size(u)
      BY <1>2, <1>5
    <3> QED
      BY <1>3, <1>6, <3>1, <3>2
  <2>5. product(w) \in A /\ product(w) <= product(w)
    BY <1>7, <2>3
  <2> QED
    BY <2>4, <2>5
<1> HIDE DEF A, B
<1>14. Max(A) = Max(B)
  BY <1>8, <1>10, <1>11, <1>12, <1>13, MaxAlike
<1> QED
  BY <1>1, <1>14 DEF B, HolmAdjusted

----------------------------------------------------------------------------
(* The cells of the summary.                                               *)

\* The quotient and the rest of a place in a list of pairs.
LEMMA PlaceOfPair ==
  ASSUME NEW n \in Nat \ {0}, NEW i \in Nat, NEW j \in 0..(n - 1)
  PROVE  (i * n + j) \div n = i /\ (i * n + j) % n = j
<1> DEFINE k == i * n + j
           q == k \div n
           r == k % n
<1>0. k = i * n + j
  OBVIOUS
<1>1. k \in Nat /\ q \in Nat /\ r \in 0..(n - 1) /\ k = n * q + r
  <2>1. k \in Nat
    OBVIOUS
  <2> HIDE DEF k
  <2> QED
    BY <2>1
<1> HIDE DEF k, q, r
<1>2. n * q - n * i = j - r
  BY <1>0, <1>1
<1>3. n * q - n * i = n * (q - i)
  BY <1>1
<1>4. j - r < n /\ r - j < n
  BY <1>1
<1>5. q = i
  <2>1. CASE q - i >= 1
    <3>1. n * (q - i) >= n
      BY <1>1, <2>1
    <3> QED
      BY <1>1, <1>2, <1>3, <1>4, <3>1
  <2>2. CASE i - q >= 1
    <3>1. n * (i - q) >= n
      BY <1>1, <2>2
    <3>2. n * (i - q) = r - j
      <4>1. n * (q - i) = j - r
        BY <1>2, <1>3
      <4>2. n * (i - q) = 0 - n * (q - i)
        BY <1>1
      <4> QED
        BY <1>1, <4>1, <4>2
    <3> QED
      BY <1>1, <1>4, <3>1, <3>2
  <2> QED
    BY <1>1, <2>1, <2>2
<1>6. r = j
  <2>1. n * q - n * i = 0
    BY <1>1, <1>5
  <2> QED
    BY <1>1, <1>2, <2>1
<1> QED
  BY <1>5, <1>6 DEF k, q, r

\* The pairs of two lists are the pairs of their values, each once.
LEMMA PairsAre ==
  ASSUME NEW S, NEW T, NEW a \in Seq(S), NEW b \in Seq(T)
  PROVE  /\ Pairs(a, b) \in Seq(S \X T)
         /\ Range(Pairs(a, b)) = Range(a) \X Range(b)
         /\ IsInjective(a) /\ IsInjective(b) => IsInjective(Pairs(a, b))
<1> DEFINE n == Len(b)
           N == Len(a) * n
           pair(k) == <<a[((k - 1) \div n) + 1], b[((k - 1) % n) + 1]>>
           list == Pairs(a, b)
<1>1. Len(a) \in Nat /\ n \in Nat /\ N \in Nat
  OBVIOUS
<1>2. list = [k \in 1..N |-> pair(k)]
  BY DEF Pairs
<1>3. \A k \in 1..N : /\ n # 0
                      /\ ((k - 1) \div n) + 1 \in 1..Len(a)
                      /\ ((k - 1) % n) + 1 \in 1..n
                      /\ (k - 1) \div n \in Nat /\ (k - 1) % n \in Nat
                      /\ k - 1 = n * ((k - 1) \div n) + ((k - 1) % n)
  <2> SUFFICES ASSUME NEW k \in 1..N
               PROVE  /\ n # 0
                      /\ ((k - 1) \div n) + 1 \in 1..Len(a)
                      /\ ((k - 1) % n) + 1 \in 1..n
                      /\ (k - 1) \div n \in Nat /\ (k - 1) % n \in Nat
                      /\ k - 1 = n * ((k - 1) \div n) + ((k - 1) % n)
    OBVIOUS
  <2>1. n # 0
    <3>1. n = 0 => N = 0
      BY <1>1
    <3>2. 1 <= k /\ k <= N
      BY <1>1
    <3> QED
      BY <1>1, <3>1, <3>2
  <2> DEFINE q == (k - 1) \div n
             r == (k - 1) % n
  <2>2. k - 1 \in Nat /\ k - 1 < N /\ n \in Nat \ {0}
    BY <1>1, <2>1
  <2> HIDE DEF n
  <2>3. q \in Nat /\ r \in 0..(n - 1) /\ k - 1 = n * q + r
    BY <2>2
  <2> HIDE DEF q, r
  <2>4. q < Len(a)
    <3>1. SUFFICES ASSUME q >= Len(a) PROVE FALSE
      BY <1>1, <2>3
    <3>2. n * q >= n * Len(a)
      BY <1>1, <2>2, <2>3, <3>1
    <3>3. n * Len(a) = Len(a) * n
      BY <1>1
    <3> QED
      BY <1>1, <2>2, <2>3, <3>2, <3>3
  <2>5. q + 1 \in 1..Len(a) /\ r + 1 \in 1..n /\ r \in Nat
    BY <1>1, <2>2, <2>3, <2>4
  <2> QED
    BY <2>1, <2>3, <2>5 DEF q, r
<1>4. \A i \in 1..Len(a), j \in 1..n : \E k \in 1..N : pair(k) = <<a[i], b[j]>>
  <2> SUFFICES ASSUME NEW i \in 1..Len(a), NEW j \in 1..n
               PROVE  \E k \in 1..N : pair(k) = <<a[i], b[j]>>
    OBVIOUS
  <2> DEFINE x == i - 1
             y == j - 1
             k == (x * n + y) + 1
  <2>1. x \in Nat /\ n \in Nat \ {0} /\ y \in 0..(n - 1) /\ x + 1 = i /\ y + 1 = j
        /\ x + 1 <= Len(a) /\ x * n \in Nat
    <3>1. x \in Nat /\ n \in Nat \ {0} /\ y \in 0..(n - 1) /\ x + 1 = i /\ y + 1 = j
          /\ x + 1 <= Len(a)
      BY <1>1
    <3> HIDE DEF x, n
    <3> QED
      BY <3>1
  <2> HIDE DEF x, y, n
  <2>2. (x * n + y) \div n = x /\ (x * n + y) % n = y
    BY <2>1, PlaceOfPair
  <2>3. k - 1 = x * n + y /\ k \in Nat /\ k >= 1
    BY <2>1
  <2>4. k <= N
    <3>1. (x + 1) * n <= Len(a) * n
      BY <1>1, <2>1, ProductGrows
    <3>2. (x + 1) * n = x * n + n
      BY <2>1
    <3> QED
      BY <1>1, <2>1, <2>3, <3>1, <3>2
  <2>5. k \in 1..N
    BY <1>1, <2>3, <2>4
  <2>6. pair(k) = <<a[x + 1], b[y + 1]>>
    BY <2>2, <2>3
  <2> HIDE DEF pair, k
  <2> QED
    BY <2>1, <2>5, <2>6
<1>5. \A k \in 1..N : pair(k) \in Range(a) \X Range(b) /\ pair(k) \in S \X T
  <2>1. /\ \A i \in 1..Len(a) : a[i] \in Range(a) /\ a[i] \in S
        /\ \A j \in 1..n : b[j] \in Range(b) /\ b[j] \in T
    BY DEF Range
  <2> HIDE DEF n, N
  <2> QED
    BY <1>3, <2>1
<1>6. list \in Seq(S \X T)
  <2> HIDE DEF pair, N, list
  <2> QED
    BY <1>1, <1>2, <1>5
<1>7. Range(list) = Range(a) \X Range(b)
  <2>1. Range(list) = {pair(k) : k \in 1..N}
    BY <1>2 DEF Range
  <2>2. \A p \in Range(a) \X Range(b) : \E i \in 1..Len(a), j \in 1..n : p = <<a[i], b[j]>>
    BY DEF Range
  <2> HIDE DEF pair, N, list, n
  <2>3. Range(list) \subseteq Range(a) \X Range(b)
    BY <1>5, <2>1
  <2>4. \A i \in 1..Len(a), j \in 1..n : <<a[i], b[j]>> \in Range(list)
    BY <1>4, <2>1
  <2>5. \A p \in Range(a) \X Range(b) : p \in Range(list)
    BY <2>2, <2>4
  <2> QED
    BY <2>3, <2>5
<1>8. ASSUME IsInjective(a), IsInjective(b) PROVE IsInjective(list)
  <2> SUFFICES ASSUME NEW k \in 1..N, NEW l \in 1..N, pair(k) = pair(l) PROVE k = l
    <3>1. DOMAIN list = 1..N /\ \A k \in 1..N : list[k] = pair(k)
      BY <1>2
    <3> HIDE DEF pair, N, list
    <3> QED
      BY <3>1 DEF IsInjective
  <2>1. /\ a[((k - 1) \div n) + 1] = a[((l - 1) \div n) + 1]
        /\ b[((k - 1) % n) + 1] = b[((l - 1) % n) + 1]
    OBVIOUS
  <2>2. DOMAIN a = 1..Len(a) /\ DOMAIN b = 1..n
    OBVIOUS
  <2>3. /\ ((k - 1) \div n) + 1 \in 1..Len(a) /\ ((l - 1) \div n) + 1 \in 1..Len(a)
        /\ ((k - 1) % n) + 1 \in 1..n /\ ((l - 1) % n) + 1 \in 1..n
    BY <1>3
  <2>4. /\ ((k - 1) \div n) + 1 = ((l - 1) \div n) + 1
        /\ ((k - 1) % n) + 1 = ((l - 1) % n) + 1
    BY <1>8, <2>1, <2>2, <2>3 DEF IsInjective
  <2>5. (k - 1) \div n = (l - 1) \div n /\ (k - 1) % n = (l - 1) % n
    <3> DEFINE q(x) == (x - 1) \div n
               m(x) == (x - 1) % n
    <3>1. q(k) \in Nat /\ q(l) \in Nat /\ m(k) \in Nat /\ m(l) \in Nat
      BY <1>3
    <3>2. q(k) + 1 = q(l) + 1 /\ m(k) + 1 = m(l) + 1
      BY <2>4
    <3> HIDE DEF q, m
    <3>3. q(k) = q(l) /\ m(k) = m(l)
      BY <3>1, <3>2
    <3> QED
      BY <3>3 DEF q, m
  <2>6. k - 1 = l - 1
    BY <1>3, <2>5
  <2>7. k \in Nat /\ l \in Nat
    BY <1>1
  <2> QED
    BY <2>6, <2>7
<1> QED
  BY <1>6, <1>7, <1>8

\* The elements of a finite set, in some order.
LEMMA SetToSeqIs ==
  ASSUME NEW S, IsFiniteSet(S)
  PROVE  SetToSeq(S) \in Seq(S) /\ Range(SetToSeq(S)) = S /\ IsInjective(SetToSeq(S))
<1> DEFINE n == Cardinality(S)
<1>1. n \in Nat /\ IsFiniteSet(1..n) /\ Cardinality(1..n) = n
  BY FS_CardinalityType, FS_Interval
<1>2. ExistsBijection(1..n, S)
  BY <1>1, FS_SameCardinalityBij
<1>3. \E f \in [1..n -> S] : IsInjective(f)
  BY <1>2 DEF ExistsBijection, Bijection, Injection
<1>4. SetToSeq(S) \in [1..n -> S] /\ IsInjective(SetToSeq(S))
  BY <1>3 DEF SetToSeq
<1> DEFINE f == SetToSeq(S)
<1> HIDE DEF f
<1>5. f \in Injection(1..n, S)
  BY <1>4 DEF Injection, f
<1>6. f \in Surjection(1..n, S)
  BY <1>1, <1>5, FS_Injection
<1>7. Range(f) = S
  BY <1>6 DEF Surjection, Range
<1>8. f \in Seq(S)
  BY <1>1, <1>4 DEF f
<1> QED
  BY <1>4, <1>7, <1>8 DEF f

\* There are finitely many datasets and values of top-k.
LEMMA DatasetsAreFinite == IsFiniteSet(Datasets) /\ IsFiniteSet(Range(Topks))
<1>1. /\ Questions \in Seq(STRING \X STRING) /\ Topks \in Seq(Nat \ {0})
  BY TableAssumption
<1> DEFINE f == [i \in DOMAIN Questions |-> DatasetOf(Questions[i])]
<1>2. IsFiniteSet(DOMAIN Questions) /\ IsFiniteSet(DOMAIN Topks)
  <2>1. DOMAIN Questions = 1..Len(Questions) /\ DOMAIN Topks = 1..Len(Topks)
        /\ Len(Questions) \in Nat /\ Len(Topks) \in Nat
    BY <1>1
  <2> QED
    BY <2>1, FS_Interval
<1>3. Datasets = {f[i] : i \in DOMAIN Questions}
  BY DEF Datasets
<1>4. Range(Topks) = {Topks[i] : i \in DOMAIN Topks}
  BY DEF Range
<1> HIDE DEF f
<1> QED
  BY <1>2, <1>3, <1>4, ImageIsFinite

SummaryCells == ({"all", "matched-hard"} \X Specialists) \X (Datasets \X Range(Topks))

\* The cells of the summary are listed, each once.
LEMMA AllCellsAre ==
  /\ AllCells \in Seq(SummaryCells)
  /\ Range(AllCells) = SummaryCells
  /\ IsInjective(AllCells)
<1> DEFINE subsets == <<"all", "matched-hard">>
           a == Pairs(subsets, SetToSeq(Specialists))
           b == Pairs(SetToSeq(Datasets), SetToSeq(Range(Topks)))
<1>1. /\ subsets \in Seq({"all", "matched-hard"})
      /\ Range(subsets) = {"all", "matched-hard"} /\ IsInjective(subsets)
  <2>1. DOMAIN subsets = {1, 2}
    OBVIOUS
  <2> QED
    BY <2>1 DEF Range, IsInjective
<1>2. IsFiniteSet(Specialists)
  <2>1. IsFiniteSet({"bm25-specialist"})
    BY FS_Singleton
  <2>2. IsFiniteSet({"bm25-specialist"} \cup {"e5-specialist"})
    BY <2>1, FS_AddElement
  <2>3. Specialists = {"bm25-specialist"} \cup {"e5-specialist"}
    BY DEF Specialists
  <2> QED
    BY <2>2, <2>3
<1>3. /\ a \in Seq({"all", "matched-hard"} \X Specialists)
      /\ Range(a) = {"all", "matched-hard"} \X Specialists /\ IsInjective(a)
  <2>1. /\ SetToSeq(Specialists) \in Seq(Specialists)
        /\ Range(SetToSeq(Specialists)) = Specialists /\ IsInjective(SetToSeq(Specialists))
    BY <1>2, SetToSeqIs
  <2> DEFINE S == {"all", "matched-hard"}
             tags == SetToSeq(Specialists)
  <2>2. subsets \in Seq(S) /\ tags \in Seq(Specialists)
    BY <1>1, <2>1
  <2>3. Range(subsets) = S /\ Range(tags) = Specialists /\ IsInjective(subsets) /\ IsInjective(tags)
    BY <1>1, <2>1
  <2> HIDE DEF subsets, S, tags
  <2>4. /\ Pairs(subsets, tags) \in Seq(S \X Specialists)
        /\ Range(Pairs(subsets, tags)) = Range(subsets) \X Range(tags)
        /\ IsInjective(subsets) /\ IsInjective(tags) => IsInjective(Pairs(subsets, tags))
    BY <2>2, PairsAre
  <2> QED
    BY <2>3, <2>4 DEF S, tags
<1>4. b \in Seq(Datasets \X Range(Topks)) /\ Range(b) = Datasets \X Range(Topks) /\ IsInjective(b)
  <2>1. /\ SetToSeq(Datasets) \in Seq(Datasets)
        /\ Range(SetToSeq(Datasets)) = Datasets /\ IsInjective(SetToSeq(Datasets))
    BY DatasetsAreFinite, SetToSeqIs
  <2>2. /\ SetToSeq(Range(Topks)) \in Seq(Range(Topks))
        /\ Range(SetToSeq(Range(Topks))) = Range(Topks) /\ IsInjective(SetToSeq(Range(Topks)))
    BY DatasetsAreFinite, SetToSeqIs
  <2> DEFINE names == SetToSeq(Datasets)
             topks == SetToSeq(Range(Topks))
  <2> HIDE DEF names, topks
  <2>3. /\ Pairs(names, topks) \in Seq(Datasets \X Range(Topks))
        /\ Range(Pairs(names, topks)) = Range(names) \X Range(topks)
        /\ IsInjective(names) /\ IsInjective(topks) => IsInjective(Pairs(names, topks))
    <3>1. names \in Seq(Datasets) /\ topks \in Seq(Range(Topks))
      BY <2>1, <2>2 DEF names, topks
    <3> QED
      BY <3>1, PairsAre
  <2> QED
    BY <2>1, <2>2, <2>3 DEF names, topks
<1>5. AllCells = Pairs(a, b)
  BY DEF AllCells
<1> HIDE DEF a, b
<1> DEFINE S == {"all", "matched-hard"} \X Specialists
           T == Datasets \X Range(Topks)
<1>6. /\ Range(a) = S /\ Range(b) = T /\ IsInjective(a) /\ IsInjective(b)
      /\ a \in Seq(S) /\ b \in Seq(T)
  BY <1>3, <1>4
<1> HIDE DEF S, T
<1>7. /\ Pairs(a, b) \in Seq(S \X T)
      /\ Range(Pairs(a, b)) = Range(a) \X Range(b)
      /\ IsInjective(a) /\ IsInjective(b) => IsInjective(Pairs(a, b))
  <2>1. a \in Seq(S) /\ b \in Seq(T)
    BY <1>6
  <2> QED
    BY <2>1, PairsAre
<1> QED
  BY <1>5, <1>6, <1>7 DEF SummaryCells, S, T

\* The tests of some cells, as the code and as the definition name them.
TestsOf(C, P) ==
  {[group |-> i, p |-> P[AllCells[i]]] : i \in {j \in DOMAIN AllCells : AllCells[j] \in C}}

TestsByCell(C, P) == {[cell |-> c, p |-> P[c]] : c \in C}

SummaryOf(tests, one) ==
  {<<AllCells[t.group], t.p, HolmAdjust(tests, one)[t]>> : t \in tests}

SummaryByCell(cells, one) ==
  {<<t.cell, t.p, HolmAdjusted(cells, one, t)>> : t \in cells}

\* The adjusted p-values do not depend on the order of the cells.
LEMMA HolmOfCells ==
  ASSUME NEW C \in SUBSET SummaryCells, NEW P, \A c \in C : P[c] \in Nat, NEW one
  PROVE  SummaryOf(TestsOf(C, P), one) = SummaryByCell(TestsByCell(C, P), one)
<1> DEFINE tests == {[group |-> i, p |-> P[AllCells[i]]] :
                       i \in {j \in DOMAIN AllCells : AllCells[j] \in C}}
           cells == {[cell |-> c, p |-> P[c]] : c \in C}
           J == {j \in DOMAIN AllCells : AllCells[j] \in C}
           cellOf(t) == [cell |-> AllCells[t.group], p |-> t.p]
           move == [t \in tests |-> cellOf(t)]
<1>1. /\ AllCells \in Seq(SummaryCells) /\ Range(AllCells) = SummaryCells
      /\ \A i, j \in DOMAIN AllCells : AllCells[i] = AllCells[j] => i = j
  BY AllCellsAre DEF IsInjective
<1>2. DOMAIN AllCells = 1..Len(AllCells) /\ Len(AllCells) \in Nat
  BY <1>1
<1>3. \A c \in C : \E j \in J : AllCells[j] = c
  BY <1>1 DEF Range
<1>4. IsFiniteSet(J)
  <2>1. IsFiniteSet(1..Len(AllCells))
    BY <1>2, FS_Interval
  <2>2. J \in SUBSET (1..Len(AllCells))
    BY <1>2
  <2> QED
    BY <2>1, <2>2, FS_Subset
<1>5. \A t \in tests : /\ t.group \in J /\ t.p = P[AllCells[t.group]]
                       /\ t = [group |-> t.group, p |-> t.p]
  OBVIOUS
<1>6. \A j \in J : [group |-> j, p |-> P[AllCells[j]]] \in tests
  OBVIOUS
<1>7. AreTests(tests)
  <2>1. IsFiniteSet(tests)
    <3> DEFINE f == [j \in J |-> [group |-> j, p |-> P[AllCells[j]]]]
    <3>1. tests = {f[j] : j \in J}
      OBVIOUS
    <3> HIDE DEF f, J
    <3> QED
      BY <1>4, <3>1, ImageIsFinite
  <2>2. \A t \in tests : t.group \in Nat /\ t.p \in Nat
    <3>1. \A j \in J : j \in Nat /\ P[AllCells[j]] \in Nat
      BY <1>2
    <3> HIDE DEF J
    <3> QED
      BY <1>5, <3>1
  <2>3. \A t, u \in tests : t.group = u.group => t = u
    <3> SUFFICES ASSUME NEW t \in tests, NEW u \in tests, t.group = u.group
                 PROVE  t = u
      OBVIOUS
    <3>1. t.p = u.p
      BY <1>5
    <3> QED
      BY <1>5, <3>1
  <2> QED
    BY <2>1, <2>2, <2>3 DEF AreTests
<1>8. \A t \in tests : cellOf(t) \in cells /\ cellOf(t).p = t.p /\ cellOf(t).cell = AllCells[t.group]
  <2> SUFFICES ASSUME NEW t \in tests
               PROVE  cellOf(t) \in cells /\ cellOf(t).p = t.p /\ cellOf(t).cell = AllCells[t.group]
    OBVIOUS
  <2>1. AllCells[t.group] \in C /\ t.p = P[AllCells[t.group]]
    BY <1>5
  <2>2. cellOf(t) \in cells
    BY <2>1
  <2> QED
    BY <2>2
<1>9. \A x \in cells : \E t \in tests : cellOf(t) = x
  <2> SUFFICES ASSUME NEW c \in C
               PROVE  \E t \in tests : cellOf(t) = [cell |-> c, p |-> P[c]]
    <3> HIDE DEF cellOf
    <3> QED
      OBVIOUS
  <2>1. PICK j \in J : AllCells[j] = c
    BY <1>3
  <2> DEFINE t == [group |-> j, p |-> P[AllCells[j]]]
  <2>2. t \in tests
    BY <1>6
  <2>3. cellOf(t) = [cell |-> c, p |-> P[c]]
    BY <2>1
  <2> QED
    BY <2>2, <2>3
<1>10. \A t, u \in tests : cellOf(t) = cellOf(u) => t = u
  <2> SUFFICES ASSUME NEW t \in tests, NEW u \in tests, cellOf(t) = cellOf(u)
               PROVE  t = u
    OBVIOUS
  <2>1. AllCells[t.group] = AllCells[u.group]
    BY <1>8
  <2>2. t.group \in DOMAIN AllCells /\ u.group \in DOMAIN AllCells
    BY <1>5
  <2>3. t.group = u.group
    BY <1>1, <2>1, <2>2
  <2> QED
    BY <1>7, <2>3 DEF AreTests
<1>11. tests = TestsOf(C, P) /\ cells = TestsByCell(C, P)
  BY DEF TestsOf, TestsByCell
<1> HIDE DEF J, cellOf, tests, cells
<1>12. ASSUME NEW n \in Nat
       PROVE  Cardinality({x \in cells : x.p >= n}) = Cardinality({t \in tests : t.p >= n})
  <2> DEFINE S == {t \in tests : t.p >= n}
             T == {x \in cells : x.p >= n}
  <2>1. \A t \in S : move[t] \in T
    BY <1>8
  <2>2. \A t, u \in S : move[t] = move[u] => t = u
    BY <1>10
  <2>3. \A x \in T : \E t \in S : move[t] = x
    BY <1>8, <1>9
  <2>4. IsFiniteSet(S)
    BY <1>7, FS_Subset DEF AreTests
  <2> HIDE DEF S, T, move
  <2> QED
    BY <2>1, <2>2, <2>3, <2>4, SameSize DEF S, T
<1>13. \A t \in tests : t.p \in Nat
  BY <1>7 DEF AreTests
<1>14. \A t \in tests : HolmProduct(cells, cellOf(t)) = HolmProduct(tests, t)
  BY <1>8, <1>12, <1>13 DEF HolmProduct
<1>15. ASSUME NEW t \in tests
       PROVE  HolmAdjust(tests, one)[t] = HolmAdjusted(cells, one, cellOf(t))
  <2> DEFINE A == {HolmProduct(tests, u) : u \in {v \in tests : v.p <= t.p}}
             B == {HolmProduct(cells, u) : u \in {v \in cells : v.p <= cellOf(t).p}}
  <2>1. \A x \in A : x \in B
    BY <1>8, <1>14
  <2>2. \A x \in B : x \in A
    <3> SUFFICES ASSUME NEW u \in cells, u.p <= cellOf(t).p
                 PROVE  HolmProduct(cells, u) \in A
      OBVIOUS
    <3>1. PICK w \in tests : cellOf(w) = u
      BY <1>9
    <3>2. w.p <= t.p /\ HolmProduct(cells, u) = HolmProduct(tests, w)
      BY <1>8, <1>14, <3>1
    <3> QED
      BY <3>2
  <2>3. A = B
    BY <2>1, <2>2
  <2> HIDE DEF A, B
  <2>4. HolmAdjust(tests, one)[t] = HolmAdjusted(tests, one, t)
    BY <1>7, HolmIs
  <2>5. HolmAdjusted(tests, one, t) = Min({one, Max(A)})
    BY DEF HolmAdjusted, A
  <2>6. HolmAdjusted(cells, one, cellOf(t)) = Min({one, Max(B)})
    BY DEF HolmAdjusted, B
  <2> QED
    BY <2>3, <2>4, <2>5, <2>6
<1> DEFINE row(t) == <<AllCells[t.group], t.p, HolmAdjust(tests, one)[t]>>
           cell(x) == <<x.cell, x.p, HolmAdjusted(cells, one, x)>>
<1>16. \A t \in tests : row(t) = cell(cellOf(t))
  BY <1>8, <1>15
<1> HIDE DEF row, cell
<1>17. {row(t) : t \in tests} = {cell(x) : x \in cells}
  BY <1>8, <1>9, <1>16
<1> QED
  BY <1>11, <1>17 DEF row, cell, SummaryOf, SummaryByCell

----------------------------------------------------------------------------
(* The table and the marker.                                               *)

AskedBy(m) == Range(Limited(m.eval.asked))
SeedsBy(m) == Range(m.request.seeds)
UnitsBy(m) == AskedBy(m) \X Range(Topks)

Value(m, p, q, b, k) == Measured([key |-> <<q, b, k>>, run |-> ExpectedRun(m, p)])

\* A table holds the measurements of a marker's evaluations, in numbers.
Tabulates(rows, m) ==
  /\ Units(rows) = UnitsBy(m)
  /\ SpecialistSeeds(rows) = SeedsBy(m)
  /\ \A p \in Selected(m.request), q \in AskedBy(m), b \in Range(Backends), k \in Range(Topks) :
       /\ Cell(rows, p, <<q, b, k>>) = Value(m, p, q, b, k)
       /\ Value(m, p, q, b, k).turn1 \in Nat
       /\ Value(m, p, q, b, k).turn3 \in Nat
       /\ Value(m, p, q, b, k).score \in Nat
  /\ IsFiniteSet(AskedBy(m)) /\ IsFiniteSet(SeedsBy(m))
  /\ \A q \in AskedBy(m) : DatasetOf(q) \in Datasets
  /\ Cardinality(SeedsBy(m)) = Len(m.request.seeds)
  /\ PrimaryTopk \in Range(Topks)

\* The names of the backends and of the specialists.
LEMMA BackendFacts ==
  /\ Range(Backends) = {"bm25", "e5"}
  /\ Away("bm25") = "e5" /\ Away("e5") = "bm25"
  /\ HomeOf["bm25-specialist"] = "bm25" /\ HomeOf["e5-specialist"] = "e5"
  /\ Specialists = {"bm25-specialist", "e5-specialist"}
<1>1. DOMAIN Backends = {1, 2} /\ Backends[1] = "bm25" /\ Backends[2] = "e5"
  BY DEF Backends
<1>2. Range(Backends) = {"bm25", "e5"}
  BY <1>1 DEF Range
<1>3. Away("bm25") = "e5" /\ Away("e5") = "bm25"
  BY DEF Away
<1>4. HomeOf["bm25-specialist"] = "bm25" /\ HomeOf["e5-specialist"] = "e5"
  BY DEF HomeOf, Specialists
<1> QED
  BY <1>2, <1>3, <1>4 DEF Specialists

\* The policies a marker selects.
LEMMA PoliciesBy ==
  ASSUME NEW m
  PROVE  /\ BasePolicy \in Selected(m.request)
         /\ \A tag \in Specialists, s \in SeedsBy(m) : Policy(tag, s) \in Selected(m.request)
         /\ BasePolicy = Policy(BaseTag, 0)
BY DEF Selected, SeedsBy, Policy, BasePolicy

\* The subset is chosen as its definition says.
LEMMA MatchedIsTrue ==
  ASSUME NEW rows, NEW m, Tabulates(rows, m)
  PROVE  MatchedHard(rows) = TrueMatched(m)
<1> DEFINE B == Range(Backends)
           x1(u, b) == TrueBase(m, u, b).turn1
           x3(u, b) == TrueBase(m, u, b).turn3
           U == UnitsBy(m)
<1>1. \A u \in U, b \in B : /\ BaseCell(rows, u, b) = TrueBase(m, u, b)
                            /\ x1(u, b) \in Nat /\ x3(u, b) \in Nat
  <2> SUFFICES ASSUME NEW q \in AskedBy(m), NEW k \in Range(Topks), NEW b \in B
               PROVE  /\ BaseCell(rows, <<q, k>>, b) = TrueBase(m, <<q, k>>, b)
                      /\ x1(<<q, k>>, b) \in Nat /\ x3(<<q, k>>, b) \in Nat
    BY DEF UnitsBy
  <2>1. TrueBase(m, <<q, k>>, b) = Value(m, BasePolicy, q, b, k)
    BY DEF TrueBase, Value
  <2>2. BaseCell(rows, <<q, k>>, b) = Cell(rows, BasePolicy, <<q, b, k>>)
    BY DEF BaseCell
  <2>3. /\ Cell(rows, BasePolicy, <<q, b, k>>) = Value(m, BasePolicy, q, b, k)
        /\ Value(m, BasePolicy, q, b, k).turn1 \in Nat
        /\ Value(m, BasePolicy, q, b, k).turn3 \in Nat
    BY PoliciesBy DEF Tabulates
  <2> QED
    BY <2>1, <2>2, <2>3
<1>2. \A u \in U : /\ BestOf(rows, u, "turn1") = Max({x1(u, b) : b \in B})
                   /\ BestOf(rows, u, "turn3") = Max({x3(u, b) : b \in B})
  <2> SUFFICES ASSUME NEW u \in U
               PROVE  /\ BestOf(rows, u, "turn1") = Max({x1(u, b) : b \in B})
                      /\ BestOf(rows, u, "turn3") = Max({x3(u, b) : b \in B})
    OBVIOUS
  <2>1. {BaseCell(rows, u, b).turn1 : b \in B} = {x1(u, b) : b \in B}
    BY <1>1
  <2>2. {BaseCell(rows, u, b).turn3 : b \in B} = {x3(u, b) : b \in B}
    BY <1>1
  <2> HIDE DEF x1, x3
  <2> QED
    BY <2>1, <2>2 DEF BestOf
<1> HIDE DEF x1, x3, B
<1>3. IsFiniteSet(B) /\ B # {}
  <2>1. IsFiniteSet({"bm25"})
    BY FS_Singleton
  <2>2. IsFiniteSet({"bm25"} \cup {"e5"})
    BY <2>1, FS_AddElement
  <2>3. B = {"bm25"} \cup {"e5"}
    BY BackendFacts DEF B
  <2> QED
    BY <2>2, <2>3
<1>4. ASSUME NEW u \in U
      PROVE  /\ 2 * BestOf(rows, u, "turn1") <= Unit <=> \A b \in B : 2 * x1(u, b) <= Unit
             /\ BestOf(rows, u, "turn3") > BestOf(rows, u, "turn1") <=>
                  \E b \in B : \A c \in B : x3(u, b) > x1(u, c)
  <2> DEFINE S1 == {x1(u, b) : b \in B}
             S3 == {x3(u, b) : b \in B}
             f1 == [b \in B |-> x1(u, b)]
             f3 == [b \in B |-> x3(u, b)]
  <2>1. S1 = {f1[b] : b \in B} /\ S3 = {f3[b] : b \in B}
    OBVIOUS
  <2>2. S1 \in SUBSET Int /\ S3 \in SUBSET Int /\ S1 # {} /\ S3 # {}
    BY <1>1, <1>3
  <2>3. \A b \in B : x1(u, b) \in Nat /\ x3(u, b) \in Nat
    BY <1>1
  <2>4. \A b \in B : x1(u, b) \in S1 /\ x3(u, b) \in S3
    OBVIOUS
  <2>5. (\A n \in S1 : \E b \in B : n = x1(u, b)) /\ (\A n \in S3 : \E b \in B : n = x3(u, b))
    OBVIOUS
  <2> HIDE DEF S1, S3, f1, f3
  <2>6. IsFiniteSet(S1) /\ IsFiniteSet(S3)
    BY <1>3, <2>1, ImageIsFinite
  <2>7. Max(S1) \in S1 /\ \A n \in S1 : n <= Max(S1)
    BY <2>2, <2>6, MaxIs
  <2>8. Max(S3) \in S3 /\ \A n \in S3 : n <= Max(S3)
    BY <2>2, <2>6, MaxIs
  <2>9. PICK b1 \in B, b3 \in B : Max(S1) = x1(u, b1) /\ Max(S3) = x3(u, b3)
    BY <2>5, <2>7, <2>8
  <2>10. \A b \in B : x1(u, b) <= x1(u, b1) /\ x3(u, b) <= x3(u, b3)
    BY <2>4, <2>7, <2>8, <2>9
  <2>11. /\ BestOf(rows, u, "turn1") = x1(u, b1)
         /\ BestOf(rows, u, "turn3") = x3(u, b3)
    BY <1>2, <2>9 DEF S1, S3
  <2>12. Unit \in Nat
    BY TableAssumption
  <2>13. 2 * x1(u, b1) <= Unit <=> \A b \in B : 2 * x1(u, b) <= Unit
    BY <2>3, <2>10, <2>12
  <2>14. x3(u, b3) > x1(u, b1) <=> \E b \in B : \A c \in B : x3(u, b) > x1(u, c)
    BY <2>3, <2>10
  <2> QED
    BY <2>11, <2>13, <2>14
<1>5. Units(rows) = U
  BY DEF Tabulates
<1>6. TrueMatched(m) = {u \in U : /\ \A b \in B : 2 * x1(u, b) <= Unit
                                  /\ \E b \in B : \A c \in B : x3(u, b) > x1(u, c)}
  BY DEF TrueMatched, UnitsBy, AskedBy, B, x1, x3
<1> HIDE DEF U
<1> QED
  BY <1>4, <1>5, <1>6 DEF MatchedHard

\* The excess of a seed is what its definition says, and a number.
ExcessOf(m, tag, seed, u) ==
  IF tag = "bm25-specialist"
  THEN TrueGain(m, tag, seed, u[1], "bm25", u[2]) - TrueGain(m, tag, seed, u[1], "e5", u[2])
  ELSE TrueGain(m, tag, seed, u[1], "e5", u[2]) - TrueGain(m, tag, seed, u[1], "bm25", u[2])

\* A gain over the base policy is the one measured.
LEMMA ScoresAre ==
  ASSUME NEW rows, NEW m, Tabulates(rows, m), NEW tag \in Specialists, NEW seed \in SeedsBy(m),
         NEW q \in AskedBy(m), NEW k \in Range(Topks), NEW b \in Range(Backends)
  PROVE  /\ TrueScore(m, tag, seed, q, b, k) \in Nat
         /\ TrueScore(m, BaseTag, 0, q, b, k) \in Nat
         /\ GainOverBase(rows, Policy(tag, seed), <<q, b, k>>) = TrueGain(m, tag, seed, q, b, k)
<1>1. /\ TrueScore(m, tag, seed, q, b, k) = Value(m, Policy(tag, seed), q, b, k).score
      /\ TrueScore(m, BaseTag, 0, q, b, k) = Value(m, BasePolicy, q, b, k).score
  BY DEF TrueScore, Value, Policy, BasePolicy
<1>2. Policy(tag, seed) \in Selected(m.request) /\ BasePolicy \in Selected(m.request)
  BY PoliciesBy
<1>3. /\ Cell(rows, Policy(tag, seed), <<q, b, k>>) = Value(m, Policy(tag, seed), q, b, k)
      /\ Cell(rows, BasePolicy, <<q, b, k>>) = Value(m, BasePolicy, q, b, k)
      /\ Value(m, Policy(tag, seed), q, b, k).score \in Nat
      /\ Value(m, BasePolicy, q, b, k).score \in Nat
  BY <1>2 DEF Tabulates
<1> QED
  BY <1>1, <1>3 DEF GainOverBase, TrueGain

\* So is the excess of a policy on a unit.
LEMMA ExcessIs ==
  ASSUME NEW rows, NEW m, Tabulates(rows, m), NEW tag \in Specialists, NEW seed \in SeedsBy(m),
         NEW u \in UnitsBy(m)
  PROVE  /\ HomeExcess(rows, Policy(tag, seed), u) = ExcessOf(m, tag, seed, u)
         /\ ExcessOf(m, tag, seed, u) \in Int
<1>1. u[1] \in AskedBy(m) /\ u[2] \in Range(Topks)
  BY DEF UnitsBy
<1>2. "bm25" \in Range(Backends) /\ "e5" \in Range(Backends)
  BY BackendFacts
<1> DEFINE gain(b) == GainOverBase(rows, Policy(tag, seed), <<u[1], b, u[2]>>)
           true(b) == TrueGain(m, tag, seed, u[1], b, u[2])
<1>3. \A b \in Range(Backends) : gain(b) = true(b) /\ true(b) \in Int
  <2> SUFFICES ASSUME NEW b \in Range(Backends) PROVE gain(b) = true(b) /\ true(b) \in Int
    OBVIOUS
  <2>1. /\ TrueScore(m, tag, seed, u[1], b, u[2]) \in Nat
        /\ TrueScore(m, BaseTag, 0, u[1], b, u[2]) \in Nat
        /\ gain(b) = true(b)
    BY <1>1, ScoresAre
  <2> QED
    BY <2>1 DEF TrueGain
<1>4. Policy(tag, seed).tag = tag
  BY DEF Policy
<1>5. HomeExcess(rows, Policy(tag, seed), u) = gain(HomeOf[tag]) - gain(Away(HomeOf[tag]))
  BY <1>4 DEF HomeExcess
<1>6. ExcessOf(m, tag, seed, u) = IF tag = "bm25-specialist" THEN true("bm25") - true("e5")
                                  ELSE true("e5") - true("bm25")
  BY DEF ExcessOf
<1> HIDE DEF gain, true
<1>7. CASE tag = "bm25-specialist"
  BY <1>2, <1>3, <1>5, <1>6, <1>7, BackendFacts
<1>8. CASE tag # "bm25-specialist"
  <2>1. tag = "e5-specialist"
    BY <1>8, BackendFacts
  <2> QED
    BY <1>2, <1>3, <1>5, <1>6, <1>8, <2>1, BackendFacts
<1> QED
  BY <1>7, <1>8

\* A marker has finitely many units.
LEMMA UnitsAreFinite ==
  ASSUME NEW rows, NEW m, Tabulates(rows, m), NEW units \in SUBSET UnitsBy(m)
  PROVE  IsFiniteSet(units)
<1>1. IsFiniteSet(AskedBy(m)) /\ IsFiniteSet(Range(Topks))
  BY DatasetsAreFinite DEF Tabulates
<1>2. IsFiniteSet(UnitsBy(m))
  BY <1>1, FS_Product DEF UnitsBy
<1> QED
  BY <1>2, FS_Subset

\* The excess of a seed is the sum of what was measured, whatever is selected.
LEMMA SeedExcessIs ==
  ASSUME NEW rows, NEW m, Tabulates(rows, m), NEW tag \in Specialists, NEW seed \in SeedsBy(m),
         NEW units \in SUBSET UnitsBy(m)
  PROVE  /\ SeedExcess(rows, tag, seed, units) =
              Total([u \in units |-> ExcessOf(m, tag, seed, u)], units)
         /\ TrueExcess(m, tag, seed, units) =
              Total([u \in units |-> ExcessOf(m, tag, seed, u)], units)
         /\ TrueExcess(m, tag, seed, units) \in Int
<1> DEFINE f == [u \in units |-> HomeExcess(rows, Policy(tag, seed), u)]
           g == [u \in units |-> ExcessOf(m, tag, seed, u)]
<1>1. \A u \in units : /\ HomeExcess(rows, Policy(tag, seed), u) = ExcessOf(m, tag, seed, u)
                       /\ ExcessOf(m, tag, seed, u) \in Int
  BY ExcessIs
<1>2. f = g
  BY <1>1
<1>3. SeedExcess(rows, tag, seed, units) = SumFunction(f)
  BY DEF SeedExcess
<1>4. TrueExcess(m, tag, seed, units) = SumFunction(g)
  BY DEF TrueExcess, ExcessOf
<1>5. DOMAIN g = units /\ \A u \in units : g[u] \in Int
  BY <1>1
<1> HIDE DEF f, g
<1>6. SumFunction(g) = Total(g, units)
  BY <1>5, SumIsTotal
<1>7. IsFiniteSet(units)
  BY UnitsAreFinite
<1>8. Total(g, units) \in Int
  BY <1>5, <1>7, TotalIs
<1> QED
  BY <1>2, <1>3, <1>4, <1>6, <1>8 DEF g

\* It is the one of the report's own text.
LEMMA SeedExcessIsTrue ==
  ASSUME NEW rows, NEW m, Tabulates(rows, m), NEW tag \in Specialists, NEW seed \in SeedsBy(m),
         NEW units \in SUBSET UnitsBy(m)
  PROVE  SeedExcess(rows, tag, seed, units) = TrueExcess(m, tag, seed, units)
<1> DEFINE x == Total([u \in units |-> ExcessOf(m, tag, seed, u)], units)
<1>1. SeedExcess(rows, tag, seed, units) = x
  BY SeedExcessIs
<1>2. TrueExcess(m, tag, seed, units) = x
  BY SeedExcessIs
<1> HIDE DEF x
<1> QED
  BY <1>1, <1>2

\* The units of a cell of the summary.
UnitsOfCell(m, c) ==
  {u \in IF c[1][1] = "all" THEN UnitsBy(m) ELSE TrueMatched(m) :
     DatasetOf(u[1]) = c[2][1] /\ u[2] = c[2][2]}

PValueOf(m, c) == TrueSignFlip([s \in SeedsBy(m) |-> TrueExcess(m, c[1][2], s, UnitsOfCell(m, c))])

\* The p-value of a cell is the one of the report's own text: a sign vector is the
\* set of the seeds it flips.
LEMMA PValueIs ==
  ASSUME NEW rows, NEW m, Tabulates(rows, m), NEW c \in SummaryCells
  PROVE  /\ SignFlip([s \in SeedsBy(m) |-> SeedExcess(rows, c[1][2], s, UnitsOfCell(m, c))])
              = PValueOf(m, c)
         /\ PValueOf(m, c) \in Nat
<1> DEFINE units == UnitsOfCell(m, c)
           S == SeedsBy(m)
           f == [s \in S |-> SeedExcess(rows, c[1][2], s, units)]
           g == [s \in S |-> TrueExcess(m, c[1][2], s, units)]
<1>1. units \in SUBSET UnitsBy(m)
  BY DEF UnitsOfCell, TrueMatched, UnitsBy, AskedBy
<1>2. c[1][2] \in Specialists
  BY DEF SummaryCells
<1>3. \A s \in S : /\ SeedExcess(rows, c[1][2], s, units) = TrueExcess(m, c[1][2], s, units)
                   /\ TrueExcess(m, c[1][2], s, units) \in Int
  <2> DEFINE tag == c[1][2]
  <2> SUFFICES ASSUME NEW s \in S
               PROVE  /\ SeedExcess(rows, tag, s, units) = TrueExcess(m, tag, s, units)
                      /\ TrueExcess(m, tag, s, units) \in Int
    OBVIOUS
  <2>1. tag \in Specialists
    BY <1>2
  <2> HIDE DEF units, tag
  <2>2. SeedExcess(rows, tag, s, units) = TrueExcess(m, tag, s, units)
    BY <1>1, <2>1, SeedExcessIsTrue
  <2>3. TrueExcess(m, tag, s, units) \in Int
    BY <1>1, <2>1, SeedExcessIs
  <2> QED
    BY <2>2, <2>3
<1>4. f = g
  BY <1>3
<1>5. DOMAIN g = S /\ \A s \in S : g[s] \in Int
  BY <1>3
<1>6. IsFiniteSet(S)
  BY DEF Tabulates
<1>7. PValueOf(m, c) = TrueSignFlip(g)
  BY DEF PValueOf
<1> HIDE DEF g, f
<1>8. SignFlip(g) = TrueSignFlip(g) /\ SignFlip(g) \in Nat
  BY <1>5, <1>6, SignFlipIs
<1> QED
  BY <1>4, <1>7, <1>8 DEF f

\* The summary is what its definition says.
LEMMA HolmIsTrue ==
  ASSUME NEW rows, NEW m, Tabulates(rows, m)
  PROVE  HomeExcessSummary(rows) = TrueHolm(m)
<1> DEFINE C == {c \in SummaryCells : UnitsOfCell(m, c) # {}}
           P == [c \in SummaryCells |-> PValueOf(m, c)]
           one == 2^Cardinality(SeedsBy(m))
           tests == {[group |-> i, p |-> P[AllCells[i]]] :
                       i \in {j \in DOMAIN AllCells : AllCells[j] \in C}}
           cells == {[cell |-> c, p |-> P[c]] : c \in C}
<1>1. SpecialistSeeds(rows) = SeedsBy(m) /\ Units(rows) = UnitsBy(m)
  BY DEF Tabulates
<1>2. MatchedHard(rows) = TrueMatched(m)
  BY MatchedIsTrue
<1> DEFINE unitsIn(c) == UnitsIn(IF c[1][1] = "all" THEN Units(rows) ELSE MatchedHard(rows),
                                 c[2][1], c[2][2])
           testOf(i) == [group |-> i,
                         p |-> SignFlip([s \in SpecialistSeeds(rows) |->
                                 SeedExcess(rows, AllCells[i][1][2], s, unitsIn(AllCells[i]))])]
           asWritten == {testOf(i) : i \in {j \in DOMAIN AllCells : unitsIn(AllCells[j]) # {}}}
<1>3. \A c : unitsIn(c) = UnitsOfCell(m, c)
  BY <1>1, <1>2 DEF UnitsIn, UnitsOfCell
<1>4. \A i \in DOMAIN AllCells : AllCells[i] \in SummaryCells
  BY AllCellsAre
<1>5. \A i \in DOMAIN AllCells : testOf(i) = [group |-> i, p |-> P[AllCells[i]]]
  <2> SUFFICES ASSUME NEW i \in DOMAIN AllCells
               PROVE  testOf(i) = [group |-> i, p |-> P[AllCells[i]]]
    OBVIOUS
  <2> DEFINE c == AllCells[i]
  <2>1. c \in SummaryCells
    BY <1>4
  <2>2. SignFlip([s \in SeedsBy(m) |-> SeedExcess(rows, c[1][2], s, UnitsOfCell(m, c))])
          = P[c]
    BY <2>1, PValueIs
  <2>3. unitsIn(c) = UnitsOfCell(m, c)
    BY <1>3
  <2> HIDE DEF P, unitsIn
  <2> QED
    BY <1>1, <2>2, <2>3
<1>6. asWritten = tests
  <2>1. \A i \in DOMAIN AllCells : unitsIn(AllCells[i]) # {} <=> AllCells[i] \in C
    BY <1>3, <1>4
  <2> HIDE DEF unitsIn, testOf, P, C
  <2> QED
    BY <1>5, <2>1
<1>7. HomeExcessSummary(rows) =
        {<<AllCells[t.group], t.p, HolmAdjust(asWritten, 2^Cardinality(SpecialistSeeds(rows)))[t]>> :
           t \in asWritten}
  BY DEF HomeExcessSummary
<1>8. HomeExcessSummary(rows) =
        {<<AllCells[t.group], t.p, HolmAdjust(tests, one)[t]>> : t \in tests}
  <2> HIDE DEF asWritten, tests
  <2> QED
    BY <1>1, <1>6, <1>7
<1>9. \A c \in C : P[c] \in Nat
  BY PValueIs
<1>10. C \in SUBSET SummaryCells
  OBVIOUS
<1> DEFINE trueCells == {c \in ({"all", "matched-hard"} \X Specialists) \X (Datasets \X Range(Topks)) :
                           UnitsOfCell(m, c) # {}}
           trueTests == {[cell |-> c, p |-> PValueOf(m, c)] : c \in trueCells}
<1>11. TrueHolm(m) =
         {<<t.cell, t.p, HolmAdjusted(trueTests, one, t)>> : t \in trueTests}
  BY DEF TrueHolm, HolmAdjusted, HolmProduct, UnitsOfCell, PValueOf, SeedsBy, UnitsBy, AskedBy
<1>12. trueTests = cells
  BY DEF SummaryCells
<1>13. {<<AllCells[t.group], t.p, HolmAdjust(tests, one)[t]>> : t \in tests}
         = {<<t.cell, t.p, HolmAdjusted(cells, one, t)>> : t \in cells}
  <2>2. tests = TestsOf(C, P) /\ cells = TestsByCell(C, P)
    BY DEF TestsOf, TestsByCell
  <2> HIDE DEF one, C, P, tests, cells
  <2>3. SummaryOf(TestsOf(C, P), one) = SummaryByCell(TestsByCell(C, P), one)
    BY <1>9, <1>10, HolmOfCells
  <2> QED
    BY <2>2, <2>3 DEF SummaryOf, SummaryByCell
<1> HIDE DEF one, tests, cells, trueTests
<1> QED
  BY <1>8, <1>11, <1>12, <1>13

----------------------------------------------------------------------------
(* The primary decision.                                                   *)

AskedIn(m, d) == {q \in AskedBy(m) : DatasetOf(q) = d}

PrimaryUnits(m, d) == {u \in UnitsBy(m) : DatasetOf(u[1]) = d /\ u[2] = PrimaryTopk}

WeightBy(m, d) == Product([e \in Datasets \ {d} |-> Cardinality(AskedIn(m, e))])

ScaleBy(m) == Product([d \in Datasets |-> Cardinality(AskedIn(m, d))])

\* There are as many units of a dataset as questions.
LEMMA CountIs ==
  ASSUME NEW rows, NEW m, Tabulates(rows, m), NEW d
  PROVE  /\ CountIn(rows, d) = Cardinality(AskedIn(m, d))
         /\ Cardinality(AskedIn(m, d)) \in Nat
<1> DEFINE S == AskedIn(m, d)
           T == PrimaryUnits(m, d)
           i == [q \in AskedBy(m) |-> <<q, PrimaryTopk>>]
<1>1. IsFiniteSet(S)
  BY FS_Subset DEF AskedIn, Tabulates
<1>2. CountIn(rows, d) = Cardinality(T)
  BY DEF CountIn, UnitsIn, Tabulates, PrimaryUnits
<1>3. PrimaryTopk \in Range(Topks)
  BY DEF Tabulates
<1>4. \A q \in S : i[q] \in T
  BY <1>3 DEF AskedIn, PrimaryUnits, UnitsBy
<1>5. \A q, r \in S : i[q] = i[r] => q = r
  BY DEF AskedIn
<1>6. \A u \in T : \E q \in S : i[q] = u
  <2> SUFFICES ASSUME NEW u \in T PROVE \E q \in S : i[q] = u
    OBVIOUS
  <2>1. u[1] \in AskedBy(m) /\ u = <<u[1], u[2]>> /\ u[2] = PrimaryTopk /\ DatasetOf(u[1]) = d
    BY DEF PrimaryUnits, UnitsBy
  <2>2. u[1] \in S /\ i[u[1]] = u
    BY <2>1 DEF AskedIn
  <2> QED
    BY <2>2
<1> HIDE DEF S, T, i
<1>7. Cardinality(T) = Cardinality(S)
  BY <1>1, <1>4, <1>5, <1>6, SameSize
<1>8. Cardinality(S) \in Nat
  BY <1>1, FS_CardinalityType
<1> QED
  BY <1>2, <1>7, <1>8 DEF S

\* The weight of a stratum is the product of the sizes of the other ones.
LEMMA WeightIs ==
  ASSUME NEW rows, NEW m, Tabulates(rows, m), NEW d
  PROVE  /\ Weight(rows, d) = WeightBy(m, d)
         /\ WeightBy(m, d) \in Int
<1> DEFINE f == [e \in Datasets \ {d} |-> CountIn(rows, e)]
           g == [e \in Datasets \ {d} |-> Cardinality(AskedIn(m, e))]
<1>1. \A e : CountIn(rows, e) = Cardinality(AskedIn(m, e)) /\ Cardinality(AskedIn(m, e)) \in Nat
  BY CountIs
<1>2. f = g
  BY <1>1
<1>3. DOMAIN g = Datasets \ {d} /\ \A e \in DOMAIN g : g[e] \in Int
  BY <1>1
<1>4. Weight(rows, d) = Product(f) /\ WeightBy(m, d) = Product(g)
  BY DEF Weight, WeightBy
<1> HIDE DEF f, g
<1>5. IsFiniteSet(DOMAIN g)
  BY <1>3, DatasetsAreFinite, FS_Subset
<1>6. Product(g) \in Int
  BY <1>3, <1>5, ProductIs
<1> QED
  BY <1>2, <1>4, <1>6

\* The common denominator is the product of all sizes.
LEMMA ScaleIs ==
  ASSUME NEW rows, NEW m, Tabulates(rows, m)
  PROVE  Scale(rows) = ScaleBy(m)
<1> DEFINE f == [d \in Datasets |-> CountIn(rows, d)]
           g == [d \in Datasets |-> Cardinality(AskedIn(m, d))]
<1>1. f = g
  BY CountIs
<1>2. Scale(rows) = Product(f) /\ ScaleBy(m) = Product(g)
  BY DEF Scale, ScaleBy
<1> HIDE DEF f, g
<1> QED
  BY <1>1, <1>2

\* What a question adds to the decision, for a specialist and for both.
Part(m, s, tag, q) == ExcessOf(m, tag, s, <<q, PrimaryTopk>>) * WeightBy(m, DatasetOf(q))

HomeOfBoth(m, s, q) ==
  TrueScore(m, "bm25-specialist", s, q, "bm25", PrimaryTopk)
    - TrueScore(m, "bm25-specialist", s, q, "e5", PrimaryTopk)
    + TrueScore(m, "e5-specialist", s, q, "e5", PrimaryTopk)
    - TrueScore(m, "e5-specialist", s, q, "bm25", PrimaryTopk)

\* What a question adds to the excess of a seed.
LEMMA PartIs ==
  ASSUME NEW rows, NEW m, Tabulates(rows, m), NEW s \in SeedsBy(m), NEW tag \in Specialists,
         NEW q \in AskedBy(m)
  PROVE  /\ Part(m, s, tag, q) \in Int
         /\ <<q, PrimaryTopk>> \in UnitsBy(m)
<1>1. <<q, PrimaryTopk>> \in UnitsBy(m)
  BY DEF Tabulates, UnitsBy
<1>2. ExcessOf(m, tag, s, <<q, PrimaryTopk>>) \in Int
  BY <1>1, ExcessIs
<1>3. WeightBy(m, DatasetOf(q)) \in Int
  BY WeightIs
<1> QED
  BY <1>1, <1>2, <1>3 DEF Part

\* The base policy cancels from the parts of the two specialists.
LEMMA BaseCancels ==
  ASSUME NEW rows, NEW m, Tabulates(rows, m), NEW s \in SeedsBy(m), NEW q \in AskedBy(m)
  PROVE  Part(m, s, "bm25-specialist", q) + Part(m, s, "e5-specialist", q)
           = WeightBy(m, DatasetOf(q)) * HomeOfBoth(m, s, q)
<1> DEFINE a == "bm25-specialist"
           b == "e5-specialist"
           k == PrimaryTopk
           score(t, e) == TrueScore(m, t, s, q, e, k)
           base(e) == TrueScore(m, BaseTag, 0, q, e, k)
           w == WeightBy(m, DatasetOf(q))
<1>1. a \in Specialists /\ b \in Specialists /\ a # b
  BY DEF Specialists
<1>2. "bm25" \in Range(Backends) /\ "e5" \in Range(Backends)
  BY BackendFacts
<1>3. k \in Range(Topks)
  BY DEF Tabulates
<1>4. \A t \in Specialists, e \in Range(Backends) : score(t, e) \in Nat /\ base(e) \in Nat
  BY <1>3, ScoresAre
<1>5. w \in Int
  BY WeightIs
<1>6. ExcessOf(m, a, s, <<q, k>>) = (score(a, "bm25") - base("bm25")) - (score(a, "e5") - base("e5"))
  BY DEF ExcessOf, TrueGain
<1>7. ExcessOf(m, b, s, <<q, k>>) = (score(b, "e5") - base("e5")) - (score(b, "bm25") - base("bm25"))
  BY <1>1 DEF ExcessOf, TrueGain
<1>8. HomeOfBoth(m, s, q) = score(a, "bm25") - score(a, "e5") + score(b, "e5") - score(b, "bm25")
  BY DEF HomeOfBoth
<1> DEFINE x == ExcessOf(m, a, s, <<q, k>>)
           y == ExcessOf(m, b, s, <<q, k>>)
<1>9. /\ score(a, "bm25") \in Int /\ score(a, "e5") \in Int
      /\ score(b, "bm25") \in Int /\ score(b, "e5") \in Int
      /\ base("bm25") \in Int /\ base("e5") \in Int
  BY <1>1, <1>2, <1>4
<1>10. Part(m, s, a, q) = x * w /\ Part(m, s, b, q) = y * w
  BY DEF Part
<1> HIDE DEF score, base, w, x, y
<1>11. x \in Int /\ y \in Int /\ x + y = HomeOfBoth(m, s, q)
  BY <1>6, <1>7, <1>8, <1>9 DEF x, y
<1>12. x * w + y * w = w * (x + y)
  BY <1>5, <1>11
<1> QED
  BY <1>10, <1>11, <1>12 DEF w

Parts(m, s) == [x \in Specialists \X AskedBy(m) |-> Part(m, s, x[1], x[2])]

\* A stratum is the sum of its questions' parts.
LEMMA StratumIs ==
  ASSUME NEW rows, NEW m, Tabulates(rows, m), NEW s \in SeedsBy(m), NEW tag \in Specialists,
         NEW d \in Datasets
  PROVE  SeedExcess(rows, tag, s, UnitsIn(Units(rows), d, PrimaryTopk)) * Weight(rows, d)
           = Total(Parts(m, s), {x \in Specialists \X AskedBy(m) :
                                   <<x[1], DatasetOf(x[2])>> = <<tag, d>>})
<1> DEFINE units == PrimaryUnits(m, d)
           w == WeightBy(m, d)
           g == [u \in units |-> ExcessOf(m, tag, s, u)]
           h == [u \in units |-> g[u] * w]
           j == [u \in units |-> <<tag, u[1]>>]
           f == Parts(m, s)
           fibre == {x \in Specialists \X AskedBy(m) : <<x[1], DatasetOf(x[2])>> = <<tag, d>>}
<1>1. units \in SUBSET UnitsBy(m)
  BY DEF PrimaryUnits
<1>2. UnitsIn(Units(rows), d, PrimaryTopk) = units
  BY DEF Tabulates, UnitsIn, PrimaryUnits
<1>3. Weight(rows, d) = w /\ w \in Int
  BY WeightIs
<1>4. SeedExcess(rows, tag, s, units) = Total(g, units)
  BY <1>1, SeedExcessIs
<1>5. IsFiniteSet(units)
  BY <1>1, UnitsAreFinite
<1>6. \A u \in units : /\ u[1] \in AskedBy(m) /\ u = <<u[1], PrimaryTopk>>
                       /\ DatasetOf(u[1]) = d
  BY DEF PrimaryUnits, UnitsBy
<1>7. \A u \in units : g[u] \in Int
  <2> SUFFICES ASSUME NEW u \in units PROVE ExcessOf(m, tag, s, u) \in Int
    OBVIOUS
  <2>1. u \in UnitsBy(m)
    BY <1>1
  <2> QED
    BY <2>1, ExcessIs
<1>8. \A u \in units : h[u] = g[u] * w /\ h[u] \in Int
  <2>1. \A u \in units : h[u] = g[u] * w
    OBVIOUS
  <2> HIDE DEF g, h, w
  <2> QED
    BY <1>3, <1>7, <2>1
<1>9. \A u \in units : f[j[u]] = h[u]
  <2> SUFFICES ASSUME NEW u \in units PROVE f[j[u]] = h[u]
    OBVIOUS
  <2>1. j[u] = <<tag, u[1]>> /\ j[u] \in Specialists \X AskedBy(m)
    BY <1>6
  <2>2. f[j[u]] = Part(m, s, tag, u[1])
    BY <2>1 DEF Parts
  <2>3. Part(m, s, tag, u[1]) = ExcessOf(m, tag, s, u) * w
    BY <1>6 DEF Part
  <2> QED
    BY <2>2, <2>3
<1>10. fibre = {j[u] : u \in units}
  <2>1. \A u \in units : j[u] \in fibre
    BY <1>6
  <2>2. \A x \in fibre : \E u \in units : j[u] = x
    <3> SUFFICES ASSUME NEW x \in fibre PROVE \E u \in units : j[u] = x
      OBVIOUS
    <3>1. x[1] = tag /\ x[2] \in AskedBy(m) /\ DatasetOf(x[2]) = d /\ x = <<x[1], x[2]>>
      OBVIOUS
    <3> DEFINE u == <<x[2], PrimaryTopk>>
    <3>2. u \in units
      BY <3>1 DEF PrimaryUnits, UnitsBy, Tabulates
    <3>3. j[u] = x
      BY <3>1, <3>2
    <3> QED
      BY <3>2, <3>3
  <2> HIDE DEF j, fibre
  <2> QED
    BY <2>1, <2>2
<1>11. \A u, v \in units : j[u] = j[v] => u = v
  <2> SUFFICES ASSUME NEW u \in units, NEW v \in units, j[u] = j[v] PROVE u = v
    OBVIOUS
  <2>1. u[1] = v[1]
    OBVIOUS
  <2> QED
    BY <1>6, <2>1
<1> HIDE DEF units, w, g, h, j, f, fibre
<1>12. Total(h, units) = Total(g, units) * w
  BY <1>3, <1>5, <1>7, <1>8, TotalScaled
<1>13. Total(f, {j[u] : u \in units}) = Total(h, units)
  BY <1>5, <1>8, <1>9, <1>11, TotalRenamed
<1> QED
  BY <1>2, <1>3, <1>4, <1>10, <1>12, <1>13 DEF f, fibre

\* A question's parts are those of the two specialists.
LEMMA QuestionIs ==
  ASSUME NEW rows, NEW m, Tabulates(rows, m), NEW s \in SeedsBy(m), NEW q \in AskedBy(m)
  PROVE  WeightBy(m, DatasetOf(q)) * HomeOfBoth(m, s, q)
           = Total(Parts(m, s), {x \in Specialists \X AskedBy(m) : x[2] = q})
<1> DEFINE a == <<"bm25-specialist", q>>
           b == <<"e5-specialist", q>>
           f == Parts(m, s)
<1>1. {x \in Specialists \X AskedBy(m) : x[2] = q} = {a} \cup {b} /\ a # b
  BY DEF Specialists
<1>2. f[a] = Part(m, s, "bm25-specialist", q) /\ f[b] = Part(m, s, "e5-specialist", q)
  BY DEF Parts, Specialists
<1>3. f[a] \in Int /\ f[b] \in Int
  <2>1. "bm25-specialist" \in Specialists /\ "e5-specialist" \in Specialists
    BY DEF Specialists
  <2> HIDE DEF f
  <2> QED
    BY <1>2, <2>1, PartIs
<1>4. f[a] + f[b] = WeightBy(m, DatasetOf(q)) * HomeOfBoth(m, s, q)
  BY <1>2, BaseCancels
<1> HIDE DEF a, b, f
<1>5. Total(f, {a} \cup {b}) = f[b] + Total(f, {a})
  <2>1. IsFiniteSet({a})
    BY FS_Singleton
  <2>2. IsFiniteSet({a} \cup {b})
    BY <2>1, FS_AddElement
  <2>3. \A x \in {a} \cup {b} : f[x] \in Int
    BY <1>3
  <2> DEFINE P == {a} \cup {b}
  <2>4. b \in P /\ P \ {b} = {a}
    BY <1>1
  <2> HIDE DEF P
  <2>5. Total(f, P) = f[b] + Total(f, P \ {b})
    <3>1. IsFiniteSet(P) /\ \A x \in P : f[x] \in Int
      BY <2>2, <2>3 DEF P
    <3> QED
      BY <2>4, <3>1, TotalIs
  <2> QED
    BY <2>4, <2>5 DEF P
<1>6. Total(f, {a}) = f[a]
  BY <1>3, TotalOfOne
<1>7. Total(f, {a} \cup {b}) = f[a] + f[b]
  <2>1. Total(f, {a} \cup {b}) = f[b] + f[a]
    BY <1>5, <1>6
  <2>2. f[b] + f[a] = f[a] + f[b]
    BY <1>3
  <2> QED
    BY <2>1, <2>2
<1> QED
  BY <1>1, <1>4, <1>7 DEF f

\* What a seed contributes is what the definition says.
LEMMA PerSeedIs ==
  ASSUME NEW rows, NEW m, Tabulates(rows, m), NEW s \in SeedsBy(m)
  PROVE  PerSeed(rows, s) =
           SumFunction([q \in AskedBy(m) |-> WeightBy(m, DatasetOf(q)) * HomeOfBoth(m, s, q)])
<1> DEFINE X == Specialists \X AskedBy(m)
           Y == Specialists \X Datasets
           Q == AskedBy(m)
           f == Parts(m, s)
           F == [st \in Y |->
                   SeedExcess(rows, st[1], s, UnitsIn(Units(rows), st[2], PrimaryTopk))
                     * Weight(rows, st[2])]
           G == [q \in Q |-> WeightBy(m, DatasetOf(q)) * HomeOfBoth(m, s, q)]
           i == [x \in X |-> <<x[1], DatasetOf(x[2])>>]
           k == [x \in X |-> x[2]]
<1>1. IsFiniteSet(Specialists)
  <2>1. IsFiniteSet({"bm25-specialist"})
    BY FS_Singleton
  <2>2. IsFiniteSet({"bm25-specialist"} \cup {"e5-specialist"})
    BY <2>1, FS_AddElement
  <2>3. Specialists = {"bm25-specialist"} \cup {"e5-specialist"}
    BY DEF Specialists
  <2> QED
    BY <2>2, <2>3
<1>2. IsFiniteSet(Q)
  BY DEF Tabulates
<1>3. IsFiniteSet(X) /\ IsFiniteSet(Y)
  BY <1>1, <1>2, DatasetsAreFinite, FS_Product
<1>4. \A x \in X : f[x] \in Int
  <2> SUFFICES ASSUME NEW tag \in Specialists, NEW q \in Q PROVE f[<<tag, q>>] \in Int
    OBVIOUS
  <2>1. f[<<tag, q>>] = Part(m, s, tag, q)
    BY DEF Parts
  <2> QED
    BY <2>1, PartIs
<1>5. PerSeed(rows, s) = Total(F, Y)
  <2>1. PerSeed(rows, s) = SumFunction(F) /\ DOMAIN F = Y
    BY DEF PerSeed
  <2> HIDE DEF F
  <2> QED
    BY <2>1, SumIsTotal
<1>6. SumFunction(G) = Total(G, Q)
  <2>1. DOMAIN G = Q
    OBVIOUS
  <2> HIDE DEF G
  <2> QED
    BY <2>1, SumIsTotal
<1>7. \A st \in Y : F[st] = Total(f, GroupOf(X, i, st))
  <2> SUFFICES ASSUME NEW tag \in Specialists, NEW d \in Datasets
               PROVE  F[<<tag, d>>] = Total(f, GroupOf(X, i, <<tag, d>>))
    <3> HIDE DEF F, X, i
    <3> QED
      OBVIOUS
  <2>1. F[<<tag, d>>] =
          SeedExcess(rows, tag, s, UnitsIn(Units(rows), d, PrimaryTopk)) * Weight(rows, d)
    OBVIOUS
  <2>2. GroupOf(X, i, <<tag, d>>) = {x \in X : <<x[1], DatasetOf(x[2])>> = <<tag, d>>}
    <3>1. \A x \in X : i[x] = <<x[1], DatasetOf(x[2])>>
      OBVIOUS
    <3> HIDE DEF i, X
    <3> QED
      BY <3>1 DEF GroupOf
  <2>3. SeedExcess(rows, tag, s, UnitsIn(Units(rows), d, PrimaryTopk)) * Weight(rows, d)
          = Total(f, {x \in X : <<x[1], DatasetOf(x[2])>> = <<tag, d>>})
    BY StratumIs
  <2> HIDE DEF F, i, X, f
  <2> QED
    BY <2>1, <2>2, <2>3
<1>8. \A q \in Q : G[q] = Total(f, GroupOf(X, k, q))
  <2> SUFFICES ASSUME NEW q \in Q PROVE G[q] = Total(f, GroupOf(X, k, q))
    OBVIOUS
  <2>1. G[q] = WeightBy(m, DatasetOf(q)) * HomeOfBoth(m, s, q)
    OBVIOUS
  <2>2. GroupOf(X, k, q) = {x \in X : x[2] = q}
    <3>1. \A x \in X : k[x] = x[2]
      OBVIOUS
    <3> HIDE DEF k, X
    <3> QED
      BY <3>1 DEF GroupOf
  <2>3. WeightBy(m, DatasetOf(q)) * HomeOfBoth(m, s, q) = Total(f, {x \in X : x[2] = q})
    BY QuestionIs
  <2> HIDE DEF G, k, X, f
  <2> QED
    BY <2>1, <2>2, <2>3
<1>9. \A x \in X : i[x] \in Y
  <2>1. \A q \in Q : DatasetOf(q) \in Datasets
    BY DEF Tabulates
  <2> QED
    BY <2>1
<1>10. \A x \in X : k[x] \in Q
  OBVIOUS
<1> HIDE DEF X, Y, Q, f, F, G, i, k
<1>11. Total(F, Y) = Total(f, X)
  BY <1>3, <1>4, <1>7, <1>9, TotalGrouped
<1>12. Total(G, Q) = Total(f, X)
  BY <1>2, <1>3, <1>4, <1>8, <1>10, TotalGrouped
<1> QED
  BY <1>5, <1>6, <1>11, <1>12 DEF G, Q

\* The decision is what its definition says.
LEMMA DecisionIsTrue ==
  ASSUME NEW rows, NEW m, Tabulates(rows, m)
  PROVE  PrimaryInteraction(rows) = TrueDecision(m)
<1> DEFINE S == SeedsBy(m)
           values == [s \in S |-> PerSeed(rows, s)]
           perSeed == [s \in S |->
             SumFunction([q \in AskedBy(m) |-> WeightBy(m, DatasetOf(q)) * HomeOfBoth(m, s, q)])]
           signal == Signal(perSeed, 2 * Cardinality(Datasets) * ScaleBy(m) * Unit)
<1>1. values = perSeed
  BY PerSeedIs
<1>2. SpecialistSeeds(rows) = S /\ Cardinality(S) = Len(m.request.seeds)
  BY DEF Tabulates
<1>3. Strata = 2 * Cardinality(Datasets)
  <2>1. IsFiniteSet({"bm25-specialist"}) /\ Cardinality({"bm25-specialist"}) = 1
    BY FS_Singleton
  <2>2. "e5-specialist" \notin {"bm25-specialist"}
    OBVIOUS
  <2>3. /\ IsFiniteSet({"bm25-specialist"} \cup {"e5-specialist"})
        /\ Cardinality({"bm25-specialist"} \cup {"e5-specialist"}) = 1 + 1
    BY <2>1, <2>2, FS_AddElement
  <2>4. Specialists = {"bm25-specialist"} \cup {"e5-specialist"}
    BY DEF Specialists
  <2>5. IsFiniteSet(Specialists) /\ Cardinality(Specialists) = 2
    BY <2>3, <2>4
  <2>6. Cardinality(Specialists \X Datasets) = Cardinality(Specialists) * Cardinality(Datasets)
    BY <2>5, DatasetsAreFinite, FS_Product
  <2> QED
    BY <2>5, <2>6 DEF Strata
<1>4. Signal([s \in SpecialistSeeds(rows) |-> PerSeed(rows, s)], Strata * Scale(rows) * Unit)
        = signal
  <2>1. [s \in SpecialistSeeds(rows) |-> PerSeed(rows, s)] = perSeed
    BY <1>1, <1>2
  <2>2. Strata * Scale(rows) * Unit = 2 * Cardinality(Datasets) * ScaleBy(m) * Unit
    BY <1>3, ScaleIs
  <2> HIDE DEF perSeed
  <2> QED
    BY <2>1, <2>2
<1>5. PrimaryInteraction(rows) =
        IF Cardinality(S) >= MinConfirmatory
        THEN IF signal THEN "GO" ELSE "NO-GO"
        ELSE IF signal THEN "EXPLORATORY-SIGNAL" ELSE "EXPLORATORY-NO-SIGNAL"
  <2> DEFINE code == Signal([s \in SpecialistSeeds(rows) |-> PerSeed(rows, s)],
                            Strata * Scale(rows) * Unit)
  <2>1. PrimaryInteraction(rows) =
          IF Cardinality(SpecialistSeeds(rows)) >= MinConfirmatory
          THEN IF code THEN "GO" ELSE "NO-GO"
          ELSE IF code THEN "EXPLORATORY-SIGNAL" ELSE "EXPLORATORY-NO-SIGNAL"
    BY DEF PrimaryInteraction
  <2>2. code = signal
    BY <1>4
  <2> HIDE DEF code, signal
  <2> QED
    BY <1>2, <2>1, <2>2
<1>6. TrueDecision(m) =
        CASE Len(m.request.seeds) >= MinConfirmatory /\ signal -> "GO"
          [] Len(m.request.seeds) >= MinConfirmatory /\ ~signal -> "NO-GO"
          [] Len(m.request.seeds) < MinConfirmatory /\ signal -> "EXPLORATORY-SIGNAL"
          [] OTHER -> "EXPLORATORY-NO-SIGNAL"
  BY DEF TrueDecision, SeedsBy, AskedBy, WeightBy, HomeOfBoth, ScaleBy, AskedIn
<1> HIDE DEF signal
<1>7. MinConfirmatory \in Nat /\ Cardinality(S) \in Nat
  <2>1. IsFiniteSet(S)
    BY DEF Tabulates
  <2> QED
    BY <2>1, TableAssumption, FS_CardinalityType
<1>8. CASE Cardinality(S) >= MinConfirmatory
  <2>1. Len(m.request.seeds) >= MinConfirmatory /\ ~(Len(m.request.seeds) < MinConfirmatory)
    BY <1>2, <1>7, <1>8
  <2> QED
    BY <1>5, <1>6, <1>8, <2>1
<1>9. CASE ~(Cardinality(S) >= MinConfirmatory)
  <2>1. ~(Len(m.request.seeds) >= MinConfirmatory) /\ Len(m.request.seeds) < MinConfirmatory
    BY <1>2, <1>7, <1>9
  <2> QED
    BY <1>5, <1>6, <1>9, <2>1
<1> QED
  BY <1>8, <1>9

----------------------------------------------------------------------------
(* The report of a run is that of the files it completes with.             *)

\* A report is made right before the completion.
ReportIsLast ==
  run # None => \A i \in 1..Len(run.todo) :
    run.todo[i].does = "report" => i = Len(run.todo) - 1

\* From then on nothing but the completion is left, and no file changes.
ReportIsCurrent ==
  run # None /\ reported # None =>
    /\ Len(run.todo) = 1
    /\ ValidFrame(Frame, Range(run.request.seeds))
    /\ CanReport(Range(Frame))
    /\ reported = Report(Range(Frame))

\* The report of a run stands right before its completion.
LEMMA ReportStandsLast ==
  ASSUME NEW request \in Requests, NEW i \in 1..Len(Steps(request)),
         Steps(request)[i].does = "report"
  PROVE  i = Len(Steps(request)) - 1
<1> DEFINE steps == Steps(request)
           n == Len(request.seeds)
           bm25 == Specialised("bm25-specialist", request.seeds)
           e5 == Specialised("e5-specialist", request.seeds)
<1>1. n \in Nat /\ n > 0
  BY RequestFacts
<1>2. /\ Len(steps) \in {4 + 4 * n, 5 + 4 * n}
      /\ steps[1] = Step("prepare", None)
      /\ steps[2] = Step("unselected", None)
      /\ steps[3] = Step("evaluate", BasePolicy)
      /\ \A k \in 1..(2 * n) : steps[3 + k] = bm25[k]
      /\ \A k \in 1..(2 * n) : steps[3 + 2 * n + k] = e5[k]
      /\ steps[Len(steps)] = Step("complete", None)
  BY StepsInOrder
<1>3. /\ \A k \in 1..(2 * n) : bm25[k].does \in {"train", "evaluate"}
      /\ \A k \in 1..(2 * n) : e5[k].does \in {"train", "evaluate"}
  <2>1. \A k \in 1..(2 * n) : bm25[k].does \in {"train", "evaluate"}
    BY SpecialisedSteps DEF Specialists
  <2>2. \A k \in 1..(2 * n) : e5[k].does \in {"train", "evaluate"}
    BY SpecialisedSteps DEF Specialists
  <2> QED
    BY <2>1, <2>2
<1>4. \A does, p : Step(does, p).does = does
  BY DEF Step
<1>5. i \in 1..Len(steps) /\ steps[i].does = "report"
  OBVIOUS
<1> HIDE DEF steps, n, bm25, e5
<1>6. i # 1 /\ i # 2 /\ i # 3 /\ i # Len(steps)
  BY <1>2, <1>4, <1>5
<1>7. i \notin 4..(3 + 2 * n)
  <2> SUFFICES ASSUME i \in 4..(3 + 2 * n)
               PROVE  FALSE
    OBVIOUS
  <2>1. i - 3 \in 1..(2 * n) /\ 3 + (i - 3) = i
    BY <1>1
  <2>2. steps[i] = bm25[i - 3]
    BY <1>2, <2>1
  <2> QED
    BY <1>3, <1>5, <2>1, <2>2
<1>8. i \notin (4 + 2 * n)..(3 + 4 * n)
  <2> SUFFICES ASSUME i \in (4 + 2 * n)..(3 + 4 * n)
               PROVE  FALSE
    OBVIOUS
  <2> DEFINE k == i - 3 - 2 * n
  <2>1. k \in 1..(2 * n) /\ 3 + 2 * n + k = i
    BY <1>1
  <2> HIDE DEF k
  <2>2. steps[i] = e5[k]
    BY <1>2, <2>1
  <2> QED
    BY <1>3, <1>5, <2>1, <2>2
<1>9. i = Len(steps) - 1
  BY <1>1, <1>2, <1>5, <1>6, <1>7, <1>8
<1> QED
  BY <1>9 DEF steps

\* It does so whatever is done before it.
LEMMA ReportStaysLast ==
  ASSUME IInv, ReportIsLast, [Next]_vars
  PROVE  ReportIsLast'
<1>1. CASE run' = None
  BY <1>1 DEF ReportIsLast
<1>2. CASE run' = run
  BY <1>2 DEF ReportIsLast
<1>3. CASE run # None /\ run' = Advanced /\ Head(run.todo).does # "complete"
  <2>1. /\ run.todo \in Seq(AllSteps) /\ run.todo # <<>> /\ IsSound(run.todo, run.request)
        /\ run' = [request |-> run.request, todo |-> Tail(run.todo)]
    BY <1>3, RunFacts
  <2>2. /\ Len(run.todo) \in Nat /\ Len(run'.todo) = Len(run.todo) - 1
        /\ \A i \in 1..(Len(run.todo) - 1) : run'.todo[i] = run.todo[i + 1]
    BY <2>1
  <2>3. \A i \in 1..Len(run.todo) : run.todo[i].does = "report" => i = Len(run.todo) - 1
    BY <1>3 DEF ReportIsLast
  <2>4. ASSUME NEW i \in 1..Len(run'.todo), run'.todo[i].does = "report"
        PROVE  i = Len(run'.todo) - 1
    <3>1. i + 1 \in 1..Len(run.todo) /\ run.todo[i + 1].does = "report"
      BY <2>2, <2>4
    <3>2. i + 1 = Len(run.todo) - 1
      BY <2>3, <3>1
    <3> QED
      BY <2>2, <3>2
  <2> QED
    BY <2>4 DEF ReportIsLast
<1>4. CASE \E request \in Requests : StartRun(request)
  <2>1. PICK request \in Requests : run' = [request |-> request, todo |-> Steps(request)]
    BY <1>4 DEF StartRun
  <2>2. run'.todo = Steps(request)
    BY <2>1
  <2> QED
    BY <2>2, ReportStandsLast DEF ReportIsLast
<1>5. ASSUME Orchestrate
      PROVE  \/ run' \in {run, None}
             \/ \E request \in Requests : StartRun(request)
             \/ (run # None /\ run' = Advanced /\ Head(run.todo).does # "complete")
  <2>1. CASE FinishTraining
    <3>1. proc # None /\ proc.does = "train" /\ run' = IF run = None THEN None ELSE Advanced
      BY <2>1 DEF FinishTraining
    <3>2. run # None => Head(run.todo) = Step("train", proc.policy)
      BY <3>1 DEF IInv, TrainingIsNext
    <3> QED
      BY <3>1, <3>2 DEF Step
  <2> QED
    BY <1>5, <2>1, Zenon
       DEF Orchestrate, PrepareData, ArchiveUnselected, ReuseTraining, StartTraining,
           MakeReport, Complete, Refuse, Doing
<1>6. ASSUME Evaluate
      PROVE  \/ run' \in {run, None}
             \/ (run # None /\ run' = Advanced /\ Head(run.todo).does # "complete")
  <2>1. CASE FinishEvaluation
    <3>1. Evaluating /\ run' = Advanced
      BY <2>1 DEF FinishEvaluation
    <3> QED
      BY <3>1, EvaluatorFacts
  <2>2. Evaluate => FinishEvaluation \/ run' = run
    BY Zenon DEF Evaluate, StartEvaluation, RewriteCache, FinishEpisode, FlushLast
  <2> QED
    BY <1>6, <2>1, <2>2, Zenon
<1>7. Environment \/ Watch => run' \in {run, None}
  BY Zenon
     DEF Environment, EpisodeFails, AppendFails, Crash, Edit, ForceTraining, Watch, WatchRead,
         WatchData, WatchSpecialist
<1>8. UNCHANGED vars => run' = run
  BY DEF vars
<1> QED
  BY <1>1, <1>2, <1>3, <1>4, <1>5, <1>6, <1>7, <1>8, Zenon DEF Next

\* Once it is made, no step changes a file or the report before the run ends.
LEMMA ReportStaysCurrent ==
  ASSUME IInv, ReportIsLast, ReportIsCurrent, [Next]_vars
  PROVE  ReportIsCurrent'
<1>1. SUFFICES ASSUME run' # None, reported' # None
               PROVE  ReportIsCurrent'
  BY DEF ReportIsCurrent
<1>2. ~\E request \in Requests : StartRun(request)
  BY <1>1, Zenon DEF StartRun
<1>3. CASE MakeReport
  <2>1. /\ Doing("report") /\ run' = Advanced /\ files' = files
        /\ ValidFrame(Frame, Range(run.request.seeds)) /\ CanReport(Range(Frame))
        /\ reported' = Report(Range(Frame))
    BY <1>3, Zenon DEF MakeReport
  <2>2. run # None /\ Head(run.todo).does = "report"
    BY <2>1, DoingFacts
  <2>3. /\ run.todo \in Seq(AllSteps) /\ run.todo # <<>> /\ Head(run.todo) = run.todo[1]
        /\ 1 \in 1..Len(run.todo)
        /\ run' = [request |-> run.request, todo |-> Tail(run.todo)]
    BY <2>1, <2>2, RunFacts
  <2>4. 1 = Len(run.todo) - 1
    BY <2>2, <2>3 DEF ReportIsLast
  <2>5. Len(run'.todo) = 1 /\ run'.request = run.request
    BY <2>3, <2>4
  <2>6. Frame' = Frame
    BY <2>1 DEF Frame
  <2> HIDE DEF Frame
  <2> QED
    BY <2>1, <2>5, <2>6, Zenon DEF ReportIsCurrent
<1>4. CASE ~MakeReport
  <2>1. reported' = reported
    BY <1>2, <1>4, Zenon
       DEF Next, vars, Orchestrate, PrepareData, ArchiveUnselected, ReuseTraining,
           StartTraining, FinishTraining, Complete, Refuse, Evaluate, StartEvaluation,
           RewriteCache, FinishEpisode, FlushLast, FinishEvaluation, Environment,
           EpisodeFails, AppendFails, Crash, Edit, ForceTraining, Watch, WatchRead,
           WatchData, WatchSpecialist
  <2>2. run # None
    <3> SUFFICES ASSUME run = None
                 PROVE  run' = None
      BY <1>1
    <3>1. ~Evaluating
      BY DEF IInv, EvaluationIsNext
    <3> QED
      BY <1>2, <3>1, Zenon
         DEF Next, vars, Orchestrate, PrepareData, ArchiveUnselected, ReuseTraining,
             StartTraining, FinishTraining, MakeReport, Complete, Refuse, Evaluate,
             StartEvaluation, RewriteCache, FinishEpisode, FlushLast, FinishEvaluation,
             Environment, EpisodeFails, AppendFails, Crash, Edit, ForceTraining, Watch,
             WatchRead, WatchData, WatchSpecialist, Doing
  <2>3. /\ Len(run.todo) = 1
        /\ ValidFrame(Frame, Range(run.request.seeds)) /\ CanReport(Range(Frame))
        /\ reported = Report(Range(Frame))
    BY <1>1, <2>1, <2>2, Zenon DEF ReportIsCurrent
  <2>4. Head(run.todo).does = "complete"
    <3>1. Head(run.todo) = run.todo[1] /\ 1 \in 1..Len(run.todo)
          /\ IsSound(run.todo, run.request)
      BY <2>2, RunFacts
    <3> QED
      BY <2>3, <3>1 DEF IsSound
  <2>5. proc = None \/ ~(proc.does = "train" \/ proc.does = "evaluate")
    <3>1. \A p : Step("train", p).does = "train" /\ Step("evaluate", p).does = "evaluate"
      BY DEF Step
    <3> QED
      BY <2>2, <2>4, <3>1 DEF IInv, TrainingIsNext, EvaluationIsNext, Evaluating
  <2>6. ~Evaluating /\ ~FinishTraining
    BY <2>5, Zenon DEF Evaluating, FinishTraining
  <2>7. run' = run /\ files' = files
    <3>1. ~Doing("prepare") /\ ~Doing("unselected") /\ ~Doing("train") /\ ~Doing("evaluate")
      BY <2>4 DEF Doing
    <3> QED
      BY <1>1, <1>2, <1>4, <2>2, <2>6, <3>1, Zenon
         DEF Next, vars, Orchestrate, PrepareData, ArchiveUnselected, ReuseTraining,
             StartTraining, Complete, Refuse, Evaluate, StartEvaluation, RewriteCache,
             FinishEpisode, FlushLast, FinishEvaluation, Environment, EpisodeFails,
             AppendFails, Crash, Edit, ForceTraining, Watch, WatchRead, WatchData,
             WatchSpecialist
  <2>8. Frame' = Frame
    BY <2>7 DEF Frame
  <2> HIDE DEF Frame
  <2> QED
    BY <2>1, <2>3, <2>7, <2>8, Zenon DEF ReportIsCurrent
<1> QED
  BY <1>3, <1>4

\* No run has made a report at the start.
LEMMA InitReport == Init => ReportIsLast /\ ReportIsCurrent
BY DEF Init, ReportIsLast, ReportIsCurrent

\* Both hold throughout.
LEMMA ReportInvariance == Spec => [](ReportIsLast /\ ReportIsCurrent)
<1>1. IInv /\ (ReportIsLast /\ ReportIsCurrent) /\ [Next]_vars
        => (ReportIsLast /\ ReportIsCurrent)'
  BY ReportStaysLast, ReportStaysCurrent
<1> QED
  BY InitReport, Invariance, <1>1, PTL DEF Spec

----------------------------------------------------------------------------
(* The rows a report is made from are those of the result files.           *)

\* There are finitely many policies: the requests are finitely many.
LEMMA PoliciesAreFinite == IsFiniteSet(Policies)
<1> DEFINE seedsOf == [r \in Requests |-> Range(r.seeds)]
<1>1. \A s \in Seq(Nat) : IsFiniteSet(Range(s))
  <2> SUFFICES ASSUME NEW s \in Seq(Nat)
               PROVE  IsFiniteSet(Range(s))
    OBVIOUS
  <2>1. DOMAIN s = 1..Len(s) /\ Len(s) \in Nat
    OBVIOUS
  <2>2. IsFiniteSet(DOMAIN s)
    BY <2>1, FS_Interval
  <2>3. Range(s) = {s[i] : i \in DOMAIN s}
    BY DEF Range
  <2> QED
    BY <2>2, <2>3, ImageIsFinite
<1>2. \A r \in Requests : IsFiniteSet(seedsOf[r])
  BY <1>1, RequestFacts
<1>3. IsFiniteSet({seedsOf[r] : r \in Requests})
  <2>1. IsFiniteSet(Requests)
    BY RequestAssumption
  <2> HIDE DEF seedsOf
  <2> QED
    BY <2>1, ImageIsFinite
<1>4. IsFiniteSet(UNION {seedsOf[r] : r \in Requests})
  <2> HIDE DEF seedsOf
  <2>1. \A T \in {seedsOf[r] : r \in Requests} : IsFiniteSet(T)
    BY <1>2
  <2> QED
    BY <1>3, <2>1, FS_UNION
<1>5. IsFiniteSet(AllSeeds)
  <2>1. IsFiniteSet(Range(WatchSeeds))
    BY <1>1, ConstantFacts
  <2>2. UNION {Range(r.seeds) : r \in Requests} = UNION {seedsOf[r] : r \in Requests}
    OBVIOUS
  <2> HIDE DEF seedsOf
  <2> QED
    BY <1>4, <2>1, <2>2, FS_Union DEF AllSeeds
<1>6. IsFiniteSet(Specialists)
  <2>1. IsFiniteSet({"bm25-specialist"}) /\ IsFiniteSet({"e5-specialist"})
    BY FS_Singleton
  <2>2. Specialists = {"bm25-specialist"} \cup {"e5-specialist"}
    BY DEF Specialists
  <2> QED
    BY <2>1, <2>2, FS_Union
<1> DEFINE named == [x \in Specialists \X AllSeeds |-> Policy(x[1], x[2])]
<1>7. IsFiniteSet({named[x] : x \in Specialists \X AllSeeds})
  <2>1. IsFiniteSet(Specialists \X AllSeeds)
    BY <1>5, <1>6, FS_Product
  <2> HIDE DEF named
  <2> QED
    BY <2>1, ImageIsFinite
<1>8. SpecialistPolicies \subseteq {named[x] : x \in Specialists \X AllSeeds}
  <2> SUFFICES ASSUME NEW p \in SpecialistPolicies
               PROVE  \E x \in Specialists \X AllSeeds : named[x] = p
    OBVIOUS
  <2>1. p.tag \in Specialists /\ p.seed \in AllSeeds /\ p = [tag |-> p.tag, seed |-> p.seed]
    BY DEF SpecialistPolicies
  <2>2. <<p.tag, p.seed>> \in Specialists \X AllSeeds
    BY <2>1
  <2>3. named[<<p.tag, p.seed>>] = p
    BY <2>1, <2>2 DEF Policy
  <2> HIDE DEF named
  <2> QED
    BY <2>2, <2>3
<1>9. IsFiniteSet(SpecialistPolicies)
  BY <1>7, <1>8, FS_Subset
<1>10. IsFiniteSet({BasePolicy})
  BY FS_Singleton
<1> QED
  BY <1>9, <1>10, FS_Union DEF Policies

\* The partial joins that FlattenSeq picks.
Joins(f, s, n) == f = [i \in 1..n |-> IF i = 1 THEN s[i] ELSE f[i - 1] \o s[i]]

\* Those joins exist: nothing is chosen from nothing.
LEMMA JoinsExist ==
  ASSUME NEW s, NEW n \in Nat
  PROVE  \E f : Joins(f, s, n)
<1> DEFINE Bad == {m \in Nat : ~\E f : Joins(f, s, m)}
<1> SUFFICES n \notin Bad
  OBVIOUS
<1>1. Bad \in SUBSET Nat
  OBVIOUS
<1>2. 0 \notin Bad
  <2>1. Joins([i \in 1..0 |-> s[i]], s, 0)
    BY DEF Joins
  <2> QED
    BY <2>1
<1>3. ASSUME NEW m \in Nat, m # 0, m - 1 \notin Bad
      PROVE  m \notin Bad
  <2>1. PICK f : Joins(f, s, m - 1)
    BY <1>3
  <2> DEFINE g == [i \in 1..m |-> IF i < m THEN f[i]
                                  ELSE IF m = 1 THEN s[1] ELSE f[m - 1] \o s[m]]
  <2>2. \A i \in 1..m : g[i] = IF i = 1 THEN s[i] ELSE g[i - 1] \o s[i]
    <3> SUFFICES ASSUME NEW i \in 1..m
                 PROVE  g[i] = IF i = 1 THEN s[i] ELSE g[i - 1] \o s[i]
      OBVIOUS
    <3>1. CASE i < m
      <4>1. i \in 1..(m - 1) /\ g[i] = f[i] /\ (i # 1 => g[i - 1] = f[i - 1])
        BY <1>3, <3>1
      <4>2. f[i] = IF i = 1 THEN s[i] ELSE f[i - 1] \o s[i]
        BY <2>1, <4>1 DEF Joins
      <4> QED
        BY <4>1, <4>2
    <3>2. CASE i = m
      <4>1. m # 1 => g[m - 1] = f[m - 1]
        BY <1>3
      <4> QED
        BY <1>3, <3>2, <4>1
    <3> QED
      BY <1>3, <3>1, <3>2
  <2>3. Joins(g, s, m)
    <3>1. g = [i \in 1..m |-> IF i = 1 THEN s[i] ELSE g[i - 1] \o s[i]]
      BY <2>2
    <3> QED
      BY <3>1 DEF Joins
  <2> QED
    BY <2>3
<1> HIDE DEF Bad
<1>4. Bad = {}
  <2> SUFFICES ASSUME Bad # {}
               PROVE  FALSE
    OBVIOUS
  <2>1. PICK m \in Bad : \A k \in Bad : m <= k
    BY <1>1, LeastNumber
  <2>2. m # 0 /\ m \in Nat
    BY <1>1, <1>2, <2>1
  <2>3. m - 1 \notin Bad
    BY <1>1, <2>1, <2>2
  <2> QED
    BY <1>3, <2>1, <2>2, <2>3
<1> QED
  BY <1>4

\* What stands in lists put together is what stands in them.
LEMMA FlattenedRows ==
  ASSUME NEW T, NEW n \in Nat, NEW s, DOMAIN s = 1..n, Len(s) = n,
         \A i \in 1..n : s[i] \in Seq(T)
  PROVE  /\ \A x \in Range(FlattenSeq(s)) : \E i \in 1..n : x \in Range(s[i])
         /\ \A i \in 1..n : Range(s[i]) \subseteq Range(FlattenSeq(s))
<1>1. CASE n = 0
  <2>1. FlattenSeq(s) = s
    BY <1>1 DEF FlattenSeq
  <2>2. Range(s) = {}
    BY <1>1 DEF Range
  <2>3. 1..n = {}
    BY <1>1
  <2> QED
    BY <2>1, <2>2, <2>3
<1>2. CASE n # 0
  <2> DEFINE f == CHOOSE f : Joins(f, s, n)
             Good == {i \in 1..n :
               /\ f[i] \in Seq(T)
               /\ \A x \in Range(f[i]) : \E k \in 1..n : x \in Range(s[k])
               /\ \A k \in 1..i : Range(s[k]) \subseteq Range(f[i])}
  <2>1. FlattenSeq(s) = f[n]
    BY <1>2 DEF FlattenSeq, Joins
  <2>2. Joins(f, s, n)
    BY JoinsExist
  <2> HIDE DEF f
  <2>3. \A i \in 1..n : f[i] = IF i = 1 THEN s[i] ELSE f[i - 1] \o s[i]
    BY <2>2 DEF Joins
  <2>4. ASSUME NEW i \in 1..n, i = 1 \/ i - 1 \in Good
        PROVE  i \in Good
    <3>1. CASE i = 1
      <4>1. f[i] = s[i] /\ 1..i = {i}
        BY <2>3, <3>1
      <4> QED
        BY <4>1
    <3>2. CASE i # 1
      <4>1. /\ f[i - 1] \in Seq(T) /\ s[i] \in Seq(T) /\ f[i] = f[i - 1] \o s[i]
            /\ \A x \in Range(f[i - 1]) : \E k \in 1..n : x \in Range(s[k])
            /\ \A k \in 1..(i - 1) : Range(s[k]) \subseteq Range(f[i - 1])
        BY <2>3, <2>4, <3>2
      <4>2. f[i] \in Seq(T) /\ Range(f[i]) = Range(f[i - 1]) \cup Range(s[i])
        BY <4>1, RangeOfJoined
      <4>3. \A k \in 1..i : k \in 1..(i - 1) \/ k = i
        OBVIOUS
      <4>4. \A k \in 1..i : Range(s[k]) \subseteq Range(f[i])
        BY <4>1, <4>2, <4>3
      <4> QED
        BY <4>1, <4>2, <4>4
    <3> QED
      BY <3>1, <3>2
  <2> DEFINE Bad == (1..n) \ Good
  <2>5. Bad \in SUBSET Nat /\ \A i \in Bad : i \in 1..n
    OBVIOUS
  <2>6. \A i \in 1..n : (i = 1 \/ i - 1 \notin Bad) => i \notin Bad
    <3> SUFFICES ASSUME NEW i \in 1..n, i = 1 \/ i - 1 \notin Bad
                 PROVE  i \notin Bad
      OBVIOUS
    <3>1. i = 1 \/ i - 1 \in 1..n
      OBVIOUS
    <3>2. i = 1 \/ i - 1 \in Good
      BY <3>1
    <3> HIDE DEF Good
    <3> QED
      BY <2>4, <3>2
  <2>7. n \in Good \/ n \in Bad
    BY <1>2
  <2> HIDE DEF Bad
  <2>8. Bad = {}
    <3> SUFFICES ASSUME Bad # {}
                 PROVE  FALSE
      OBVIOUS
    <3>1. PICK m \in Bad : \A k \in Bad : m <= k
      BY <2>5, LeastNumber
    <3>2. m \in 1..n /\ m \in Nat
      BY <2>5, <3>1
    <3>3. m - 1 \notin Bad
      BY <3>1, <3>2, <2>5
    <3> QED
      BY <2>6, <3>1, <3>2, <3>3
  <2>9. n \in Good
    BY <2>7, <2>8
  <2> QED
    BY <2>1, <2>9
<1> QED
  BY <1>1, <1>2

\* A frame holds the rows of all the result files.
LEMMA RowsOfFrame ==
  ASSUME IInv
  PROVE  /\ \A row \in Range(Frame) : \E p \in Policies : row \in Range(files[p])
         /\ \A p \in Policies : Range(files[p]) \subseteq Range(Frame)
<1> DEFINE order == PolicyOrder
           n == Len(order)
           lists == [i \in DOMAIN order |-> files[order[i]]]
<1>1. order \in Seq(Policies) /\ Range(order) = Policies
  BY PoliciesAreFinite, SetToSeqIs DEF PolicyOrder
<1>2. Frame = FlattenSeq(lists)
  BY DEF Frame
<1> HIDE DEF order
<1>3. /\ n \in Nat /\ DOMAIN order = 1..n /\ \A i \in 1..n : order[i] \in Policies
      /\ \A p \in Policies : \E i \in 1..n : order[i] = p
  BY <1>1 DEF Range
<1>4. files \in [Policies -> Seq(Rows)]
  BY DEF IInv, TypeInv
<1>5. lists \in Seq(Seq(Rows)) /\ Len(lists) = n /\ DOMAIN lists = 1..n
      /\ \A i \in 1..n : lists[i] \in Seq(Rows) /\ lists[i] = files[order[i]]
  <2>1. lists = [i \in 1..n |-> files[order[i]]]
    BY <1>3
  <2>2. \A i \in 1..n : files[order[i]] \in Seq(Rows)
    BY <1>3, <1>4
  <2> HIDE DEF lists, n
  <2>3. lists \in [1..n -> Seq(Rows)]
    BY <2>1, <2>2
  <2>4. lists \in Seq(Seq(Rows)) /\ Len(lists) = n
    BY <1>3, <2>3
  <2> QED
    BY <2>1, <2>2, <2>4
<1> HIDE DEF lists, n
<1>6. /\ \A x \in Range(FlattenSeq(lists)) : \E i \in 1..n : x \in Range(lists[i])
      /\ \A i \in 1..n : Range(lists[i]) \subseteq Range(FlattenSeq(lists))
  BY <1>3, <1>5, FlattenedRows
<1>7. ASSUME NEW row \in Range(Frame)
      PROVE  \E p \in Policies : row \in Range(files[p])
  <2>1. PICK i \in 1..n : row \in Range(lists[i])
    BY <1>2, <1>6, <1>7
  <2> QED
    BY <1>3, <1>5, <2>1
<1>8. ASSUME NEW p \in Policies
      PROVE  Range(files[p]) \subseteq Range(Frame)
  <2>1. PICK i \in 1..n : order[i] = p
    BY <1>3
  <2>2. lists[i] = files[p] /\ Range(lists[i]) \subseteq Range(Frame)
    BY <1>2, <1>5, <1>6, <2>1
  <2> QED
    BY <2>2
<1> QED
  BY <1>7, <1>8

----------------------------------------------------------------------------
(* The cells of a grid, and the table they make.                           *)

\* A grid asks the questions it is made of, if there is a top-k to ask them with.
LEMMA GridAsks ==
  ASSUME NEW T, NEW qs \in Seq(T), Len(Topks) > 0
  PROVE  {key[1] : key \in Range(Grid(qs))} = Range(qs)
<1> DEFINE each == Len(Backends) * Len(Topks)
           n == Len(qs)
           g == Grid(qs)
<1>1. Len(Topks) \in Nat /\ Len(Backends) = 2
  BY ConstantFacts DEF Backends
<1>2. each \in Nat \ {0} /\ n \in Nat /\ DOMAIN qs = 1..n
  BY <1>1
<1>3. DOMAIN g = 1..(n * each) /\ \A i \in 1..(n * each) : g[i][1] = qs[(i - 1) \div each + 1]
  BY DEF Grid
<1> HIDE DEF g, each, n
<1>4. ASSUME NEW i \in 1..(n * each)
      PROVE  (i - 1) \div each + 1 \in 1..n
  <2> DEFINE q == (i - 1) \div each
             r == (i - 1) % each
  <2>1. q \in Nat /\ r \in 0..(each - 1) /\ i - 1 = each * q + r /\ i <= n * each
    <3>1. i - 1 \in Nat /\ n * each \in Nat /\ i <= n * each
      BY <1>2
    <3> QED
      BY <1>2, <3>1
  <2> HIDE DEF q, r
  <2>2. q < n
    <3> SUFFICES ASSUME q >= n
                 PROVE  FALSE
      BY <1>2, <2>1
    <3>1. each * q >= each * n
      <4>1. q - n \in Nat /\ each * (q - n) \in Nat
        BY <1>2, <2>1
      <4>2. each * q = each * n + each * (q - n)
        BY <1>2, <2>1
      <4> QED
        BY <1>2, <2>1, <4>1, <4>2
    <3>2. each * n = n * each
      BY <1>2
    <3>3. each * q \in Nat /\ each * n \in Nat /\ r \in Nat /\ i \in Nat
      BY <1>2, <2>1
    <3> QED
      BY <2>1, <3>1, <3>2, <3>3
  <2> QED
    BY <1>2, <2>1, <2>2 DEF q
<1>5. ASSUME NEW j \in 1..n
      PROVE  \E i \in 1..(n * each) : (i - 1) \div each + 1 = j
  <2> DEFINE i == (j - 1) * each + 0
  <2>1. j - 1 \in Nat /\ 0 \in 0..(each - 1)
    BY <1>2
  <2>2. i \div each = j - 1
    BY <1>2, <2>1, PlaceOfPair
  <2>3. i \in Nat /\ i + 1 <= n * each
    <3>1. n - j \in Nat /\ (n - j) * each \in Nat /\ (j - 1) * each \in Nat
      BY <1>2, <2>1
    <3>2. n * each = (j - 1) * each + each + (n - j) * each
      BY <1>2
    <3> QED
      BY <1>2, <3>1, <3>2
  <2> HIDE DEF i
  <2>4. i + 1 \in 1..(n * each) /\ (i + 1) - 1 = i
    BY <1>2, <2>3
  <2> QED
    BY <2>1, <2>2, <2>4
<1>6. {key[1] : key \in Range(g)} \subseteq Range(qs)
  <2> SUFFICES ASSUME NEW i \in 1..(n * each)
               PROVE  g[i][1] \in Range(qs)
    BY <1>3 DEF Range
  <2> QED
    BY <1>2, <1>3, <1>4 DEF Range
<1>7. Range(qs) \subseteq {key[1] : key \in Range(g)}
  <2> SUFFICES ASSUME NEW j \in 1..n
               PROVE  \E key \in Range(g) : key[1] = qs[j]
    BY <1>2 DEF Range
  <2>1. PICK i \in 1..(n * each) : (i - 1) \div each + 1 = j
    BY <1>5
  <2>2. g[i] \in Range(g) /\ g[i][1] = qs[j]
    BY <1>3, <2>1 DEF Range
  <2> QED
    BY <2>2
<1> QED
  BY <1>6, <1>7 DEF g

\* What an episode measures is a number of each kind.
MeasuresAreNumbers ==
  \A row \in Rows : /\ Measured(row).turn1 \in Nat
                    /\ Measured(row).turn3 \in Nat
                    /\ Measured(row).score \in Nat

\* The files are those a marker promises.
FilesAre(m) ==
  /\ m.request \in Requests
  /\ m.eval.asked = AskedOf(m.request)
  /\ \A p \in Policies :
       files[p] = IF p \in Selected(m.request) THEN ExpectedRows(m, p) ELSE <<>>

\* A row of the frame is an answer of the marker's evaluation.
LEMMA RowsOfMarker ==
  ASSUME IInv, NEW m, FilesAre(m), NEW row \in Range(Frame)
  PROVE  /\ row \in Rows /\ PolicyOf(row) \in Selected(m.request)
         /\ row = [key |-> row.key, run |-> ExpectedRun(m, PolicyOf(row))]
         /\ row.key \in Range(Grid(Limited(m.request.limit)))
<1>1. PICK p \in Policies : row \in Range(files[p])
  BY RowsOfFrame
<1>2. p \in Selected(m.request) /\ files[p] = ExpectedRows(m, p)
  BY <1>1, NothingInAnEmptyFile DEF FilesAre
<1> DEFINE keys == Grid(Limited(m.request.limit))
<1>3. PICK i \in DOMAIN keys : row = [key |-> keys[i], run |-> ExpectedRun(m, p)]
  <2> HIDE DEF keys
  <2>1. files[p] = [i \in DOMAIN keys |-> [key |-> keys[i], run |-> ExpectedRun(m, p)]]
    BY <1>2 DEF ExpectedRows, keys
  <2> QED
    BY <1>1, <2>1 DEF Range
<1>4. row.key \in Range(keys) /\ row.run = ExpectedRun(m, p)
  <2> HIDE DEF keys
  <2> QED
    BY <1>3 DEF Range
<1>5. PolicyOf(row) = p
  BY <1>4 DEF PolicyOf, ExpectedRun
<1>6. row \in Rows
  <2>1. files[p] \in Seq(Rows)
    BY <1>1 DEF IInv, TypeInv
  <2> QED
    BY <1>1, <2>1 DEF Range
<1> HIDE DEF keys
<1> QED
  BY <1>2, <1>3, <1>4, <1>5, <1>6 DEF keys

\* The other way round: an answer of the marker is in the frame.
LEMMA RowsInFrame ==
  ASSUME IInv, NEW m, FilesAre(m), NEW p \in Selected(m.request),
         NEW key \in Range(Grid(Limited(m.request.limit)))
  PROVE  [key |-> key, run |-> ExpectedRun(m, p)] \in Range(Frame)
<1> DEFINE keys == Grid(Limited(m.request.limit))
<1>1. p \in Policies
  BY PolicyFacts DEF FilesAre
<1>2. files[p] = ExpectedRows(m, p) /\ Range(files[p]) \subseteq Range(Frame)
  BY <1>1, RowsOfFrame DEF FilesAre
<1>3. files[p] = [i \in DOMAIN keys |-> [key |-> keys[i], run |-> ExpectedRun(m, p)]]
  BY <1>2 DEF ExpectedRows
<1> HIDE DEF keys
<1>4. PICK i \in DOMAIN keys : keys[i] = key
  BY DEF Range, keys
<1>5. i \in DOMAIN files[p] /\ files[p][i] = [key |-> key, run |-> ExpectedRun(m, p)]
  BY <1>3, <1>4
<1> QED
  BY <1>2, <1>5 DEF Range

\* A frame that is valid holds the policies of the marker, and no others.
LEMMA PoliciesOfMarker ==
  ASSUME IInv, NEW m, FilesAre(m), ValidFrame(Frame, SeedsBy(m))
  PROVE  /\ PoliciesOf(Range(Frame)) = Selected(m.request)
         /\ SpecialistSeeds(Range(Frame)) = SeedsBy(m)
<1> DEFINE rows == Range(Frame)
           seeds == SeedsBy(m)
<1>1. /\ SeedsOf(rows, BaseTag) = {0}
      /\ \A tag \in Specialists : SeedsOf(rows, tag) = seeds
  BY Zenon DEF ValidFrame
<1>2. \A row \in rows : PolicyOf(row) \in Selected(m.request)
  BY RowsOfMarker
<1> HIDE DEF rows
<1>3. PoliciesOf(rows) \subseteq Selected(m.request)
  BY <1>2 DEF PoliciesOf
<1>4. BaseTag \notin Specialists /\ BasePolicy = [tag |-> BaseTag, seed |-> 0]
  BY DEF BaseTag, Specialists, BasePolicy
<1>5. \A p \in Selected(m.request) :
        \/ p = BasePolicy
        \/ p.tag \in Specialists /\ p.seed \in seeds /\ p = [tag |-> p.tag, seed |-> p.seed]
  BY DEF Selected, SeedsBy
<1>6. BasePolicy \in PoliciesOf(rows)
  <2>1. PICK p \in PoliciesOf(rows) : p.tag = BaseTag /\ p.seed = 0
    BY <1>1 DEF SeedsOf
  <2>2. p = BasePolicy
    BY <1>3, <1>4, <1>5, <2>1
  <2> QED
    BY <2>1, <2>2
<1>7. ASSUME NEW tag \in Specialists, NEW s \in seeds
      PROVE  [tag |-> tag, seed |-> s] \in PoliciesOf(rows)
  <2>1. s \in SeedsOf(rows, tag)
    BY <1>1, <1>7
  <2>2. PICK p \in PoliciesOf(rows) : p.tag = tag /\ p.seed = s
    BY <2>1 DEF SeedsOf
  <2>3. p # BasePolicy
    BY <1>4, <1>7, <2>2
  <2>4. p = [tag |-> tag, seed |-> s]
    BY <1>3, <1>5, <2>2, <2>3
  <2> QED
    BY <2>2, <2>4
<1>8. PoliciesOf(rows) = Selected(m.request)
  <2> SUFFICES ASSUME NEW p \in Selected(m.request)
               PROVE  p \in PoliciesOf(rows)
    BY <1>3
  <2>1. CASE p = BasePolicy
    BY <1>6, <2>1
  <2>2. CASE p # BasePolicy
    <3>1. p.tag \in Specialists /\ p.seed \in seeds /\ p = [tag |-> p.tag, seed |-> p.seed]
      BY <1>5, <2>2
    <3>2. [tag |-> p.tag, seed |-> p.seed] \in PoliciesOf(rows)
      BY <1>7, <3>1
    <3> QED
      BY <3>1, <3>2
  <2> QED
    BY <2>1, <2>2
<1>9. SpecialistSeeds(rows) = seeds
  <2>1. "bm25-specialist" \in Specialists
    BY DEF Specialists
  <2> HIDE DEF seeds
  <2> QED
    BY <1>1, <2>1 DEF SpecialistSeeds
<1> QED
  BY <1>8, <1>9 DEF rows

\* The keys of each policy are all cells of the grid of the questions asked.
LEMMA CellsOfMarker ==
  ASSUME IInv, NEW m, FilesAre(m), ValidFrame(Frame, SeedsBy(m))
  PROVE  \A p \in Selected(m.request) :
           KeysOf(Range(Frame), p) = AskedBy(m) \X Range(Backends) \X Range(Topks)
<1> DEFINE rows == Range(Frame)
           keys == Grid(Limited(m.request.limit))
<1>1. /\ \A p \in PoliciesOf(rows) :
           KeysOf(rows, p) = Asked(rows) \X Range(Backends) \X Range(Topks)
      /\ {TopkOf(row) : row \in rows} = Range(Topks)
  BY Zenon DEF ValidFrame
<1>2. PoliciesOf(rows) = Selected(m.request)
  BY PoliciesOfMarker
<1>3. m.request \in Requests /\ m.eval.asked = AskedOf(m.request)
      /\ m.request.limit \in Nat /\ BasePolicy \in Selected(m.request)
  BY RequestFacts, PolicyFacts DEF FilesAre
<1>4. Limited(m.eval.asked) = Limited(m.request.limit)
  BY <1>3, GridIsAsked
<1>5. \A row \in rows :
        row.key \in Range(keys) /\ PolicyOf(row) \in Selected(m.request)
  BY RowsOfMarker
<1>6. \A key \in Range(keys) : [key |-> key, run |-> ExpectedRun(m, BasePolicy)] \in rows
  BY <1>3, RowsInFrame
<1> HIDE DEF rows, keys
<1>7. KeysOf(rows, BasePolicy) = Range(keys)
  <2>1. KeysOf(rows, BasePolicy) \subseteq Range(keys)
    BY <1>5 DEF KeysOf
  <2>2. ASSUME NEW key \in Range(keys)
        PROVE  key \in KeysOf(rows, BasePolicy)
    <3> DEFINE row == [key |-> key, run |-> ExpectedRun(m, BasePolicy)]
    <3>1. row \in rows
      BY <1>6
    <3>2. PolicyOf(row) = BasePolicy /\ row.key = key
      BY DEF PolicyOf, ExpectedRun
    <3> HIDE DEF row
    <3> QED
      BY <3>1, <3>2 DEF KeysOf
  <2> QED
    BY <2>1, <2>2
<1>8. Len(Topks) > 0
  <2>1. PICK row \in rows : TRUE
    BY <1>2, <1>3 DEF PoliciesOf
  <2>2. TopkOf(row) \in Range(Topks)
    BY <1>1
  <2>3. Topks \in Seq(Nat \ {0}) /\ Len(Topks) \in Nat /\ DOMAIN Topks = 1..Len(Topks)
    BY ConstantFacts
  <2>4. PICK i \in 1..Len(Topks) : TRUE
    BY <2>2, <2>3 DEF Range
  <2> QED
    BY <2>3, <2>4
<1>9. Asked(rows) = AskedBy(m)
  <2>1. Limited(m.request.limit) \in Seq(Range(Limited(m.request.limit)))
    BY <1>3, LimitedIs
  <2>2. {key[1] : key \in Range(keys)} = Range(Limited(m.request.limit))
    BY <1>8, <2>1, GridAsks DEF keys
  <2> QED
    BY <1>4, <1>7, <2>2 DEF Asked, AskedBy
<1> QED
  BY <1>1, <1>2, <1>9 DEF rows

\* Each of them holds what the marker's evaluation measured.
LEMMA CellOfMarker ==
  ASSUME IInv, MeasuresAreNumbers, NEW m, FilesAre(m), ValidFrame(Frame, SeedsBy(m)),
         NEW p \in Selected(m.request), NEW q \in AskedBy(m),
         NEW b \in Range(Backends), NEW k \in Range(Topks)
  PROVE  /\ Cell(Range(Frame), p, <<q, b, k>>) = Value(m, p, q, b, k)
         /\ Value(m, p, q, b, k).turn1 \in Nat
         /\ Value(m, p, q, b, k).turn3 \in Nat
         /\ Value(m, p, q, b, k).score \in Nat
<1> DEFINE rows == Range(Frame)
           cell == <<q, b, k>>
           fits(row) == PolicyOf(row) = p /\ row.key = cell
           chosen == CHOOSE row \in rows : fits(row)
<1>1. cell \in KeysOf(rows, p)
  <2>1. KeysOf(rows, p) = AskedBy(m) \X Range(Backends) \X Range(Topks)
    BY CellsOfMarker
  <2> QED
    BY <2>1
<1>2. \E row \in rows : fits(row)
  BY <1>1 DEF KeysOf
<1>3. chosen \in rows /\ fits(chosen)
  BY <1>2
<1>4. Cell(rows, p, cell) = Measured(chosen)
  BY DEF Cell
<1> HIDE DEF chosen
<1>5. chosen \in Rows /\ chosen = [key |-> chosen.key, run |-> ExpectedRun(m, PolicyOf(chosen))]
  BY <1>3, RowsOfMarker
<1>6. chosen = [key |-> cell, run |-> ExpectedRun(m, p)]
  BY <1>3, <1>5
<1>7. Value(m, p, q, b, k) = Measured(chosen)
  BY <1>6 DEF Value
<1>8. /\ Measured(chosen).turn1 \in Nat /\ Measured(chosen).turn3 \in Nat
      /\ Measured(chosen).score \in Nat
  BY <1>5 DEF MeasuresAreNumbers
<1> QED
  BY <1>4, <1>7, <1>8

\* The units of the frame are those of the marker.
LEMMA UnitsOfMarker ==
  ASSUME IInv, NEW m, FilesAre(m), ValidFrame(Frame, SeedsBy(m))
  PROVE  /\ Units(Range(Frame)) = UnitsBy(m)
         /\ \A q \in AskedBy(m) : DatasetOf(q) \in Datasets
<1> DEFINE rows == Range(Frame)
           cells == AskedBy(m) \X Range(Backends) \X Range(Topks)
<1>1. {DatasetOf(QuestionOf(row)) : row \in rows} = Datasets
      /\ {TopkOf(row) : row \in rows} = Range(Topks)
  BY Zenon DEF ValidFrame
<1>2. \A p \in Selected(m.request) : KeysOf(rows, p) = cells
  BY CellsOfMarker
<1>3. BasePolicy \in Selected(m.request)
  BY PoliciesBy
<1>4. \A row \in rows : PolicyOf(row) \in Selected(m.request)
  BY RowsOfMarker
<1>5. "bm25" \in Range(Backends)
  BY BackendFacts
<1> HIDE DEF rows
<1>6. \A row \in rows : row.key \in cells
  BY <1>2, <1>4 DEF KeysOf
<1>7. \A row \in rows : <<QuestionOf(row), TopkOf(row)>> \in UnitsBy(m)
  <2> SUFFICES ASSUME NEW row \in rows
               PROVE  row.key[1] \in AskedBy(m) /\ row.key[3] \in Range(Topks)
    BY DEF QuestionOf, TopkOf, UnitsBy
  <2> QED
    BY <1>6
<1>8. ASSUME NEW q \in AskedBy(m), NEW k \in Range(Topks)
      PROVE  \E row \in rows : QuestionOf(row) = q /\ TopkOf(row) = k
  <2>1. <<q, "bm25", k>> \in cells
    BY <1>5
  <2>2. <<q, "bm25", k>> \in KeysOf(rows, BasePolicy)
    BY <1>2, <1>3, <2>1
  <2>3. PICK row \in rows : row.key = <<q, "bm25", k>>
    BY <2>2 DEF KeysOf
  <2> QED
    BY <2>3 DEF QuestionOf, TopkOf
<1>9. Units(rows) = UnitsBy(m)
  <2>1. Units(rows) \subseteq UnitsBy(m)
    BY <1>7 DEF Units
  <2>2. ASSUME NEW u \in UnitsBy(m)
        PROVE  u \in Units(rows)
    <3>1. u[1] \in AskedBy(m) /\ u[2] \in Range(Topks) /\ u = <<u[1], u[2]>>
      BY DEF UnitsBy
    <3>2. PICK row \in rows : QuestionOf(row) = u[1] /\ TopkOf(row) = u[2]
      BY <1>8, <3>1
    <3>3. u = <<QuestionOf(row), TopkOf(row)>>
      BY <3>1, <3>2
    <3> QED
      BY <3>3 DEF Units
  <2> QED
    BY <2>1, <2>2
<1>10. ASSUME NEW q \in AskedBy(m)
       PROVE  DatasetOf(q) \in Datasets
  <2>1. PICK row \in rows : TRUE
    BY <1>1, <1>3, PoliciesOfMarker DEF PoliciesOf, rows
  <2>2. TopkOf(row) \in Range(Topks)
    BY <1>1
  <2>3. PICK other \in rows : QuestionOf(other) = q
    BY <1>8, <2>2
  <2>4. DatasetOf(QuestionOf(other)) \in Datasets
    BY <1>1
  <2> QED
    BY <2>3, <2>4
<1> QED
  BY <1>9, <1>10 DEF rows

\* The results that are on disk when a run completes, taken as a table, hold what
\* the evaluations of its marker measured.
LEMMA TableOfMarker ==
  ASSUME IInv, MeasuresAreNumbers, NEW m, FilesAre(m), ValidFrame(Frame, SeedsBy(m)),
         CanReport(Range(Frame))
  PROVE  Tabulates(Range(Frame), m)
<1> DEFINE rows == Range(Frame)
<1>1. Units(rows) = UnitsBy(m) /\ \A q \in AskedBy(m) : DatasetOf(q) \in Datasets
  BY UnitsOfMarker
<1>2. SpecialistSeeds(rows) = SeedsBy(m)
  BY PoliciesOfMarker
<1>3. \A p \in Selected(m.request), q \in AskedBy(m), b \in Range(Backends), k \in Range(Topks) :
        /\ Cell(rows, p, <<q, b, k>>) = Value(m, p, q, b, k)
        /\ Value(m, p, q, b, k).turn1 \in Nat
        /\ Value(m, p, q, b, k).turn3 \in Nat
        /\ Value(m, p, q, b, k).score \in Nat
  BY CellOfMarker
<1> HIDE DEF rows
<1>4. IsFiniteSet(AskedBy(m))
  <2> DEFINE Q == Limited(m.eval.asked)
  <2>1. m.eval.asked \in Nat
    <3>1. AskedOf(m.request) \in Sizes /\ Len(Questions) \in Nat
      BY GridIsAsked, ConstantFacts DEF FilesAre
    <3> QED
      BY <3>1 DEF Sizes, FilesAre
  <2>2. Q \in Seq(Range(Q)) /\ Len(Q) \in Nat
    BY <2>1, LimitedIs
  <2> HIDE DEF Q
  <2>3. IsFiniteSet(DOMAIN Q)
    <3>1. DOMAIN Q = 1..Len(Q)
      BY <2>2
    <3> QED
      BY <2>2, <3>1, FS_Interval
  <2>4. Range(Q) = {Q[i] : i \in DOMAIN Q}
    BY DEF Range
  <2>5. IsFiniteSet(Range(Q))
    BY <2>3, <2>4, ImageIsFinite
  <2> QED
    BY <2>5 DEF AskedBy, Q
<1>5. IsFiniteSet(SeedsBy(m)) /\ Cardinality(SeedsBy(m)) = Len(m.request.seeds)
  <2> DEFINE s == m.request.seeds
             n == Len(s)
  <2>1. s \in Seq(Nat) /\ n \in Nat /\ IsInjective(s)
    BY RequestFacts DEF FilesAre
  <2> HIDE DEF s, n
  <2>2. DOMAIN s = 1..n /\ s \in [1..n -> Range(s)]
    <3>1. DOMAIN s = 1..n /\ s = [i \in 1..n |-> s[i]]
      BY <2>1 DEF n
    <3> QED
      BY <3>1 DEF Range
  <2>3. s \in Injection(1..n, Range(s)) /\ s \in Surjection(1..n, Range(s))
    BY <2>1, <2>2 DEF Injection, Surjection, Range
  <2>4. IsFiniteSet(1..n) /\ Cardinality(1..n) = n
    <3>1. 1 \in Int /\ n \in Int
      BY <2>1
    <3> QED
      BY <2>1, <3>1, FS_Interval
  <2>5. IsFiniteSet(Range(s)) /\ Cardinality(Range(s)) = Cardinality(1..n)
    BY <2>3, <2>4, FS_Surjection
  <2> QED
    BY <2>4, <2>5 DEF SeedsBy, s, n
<1>6. PrimaryTopk \in Range(Topks)
  <2>1. PICK u \in Units(rows) : u[2] = PrimaryTopk
    BY DEF CanReport, PrimaryIsMeasured, rows
  <2>2. u[2] \in Range(Topks)
    BY <1>1, <2>1 DEF UnitsBy
  <2> QED
    BY <2>1, <2>2
<1> QED
  BY <1>1, <1>2, <1>3, <1>4, <1>5, <1>6 DEF Tabulates, rows

----------------------------------------------------------------------------
(* The report that a marker publishes.                                     *)

\* At the completion, the files are the ones the new marker promises.
LEMMA CompletionPromisesFiles ==
  ASSUME IInv, Complete, marker' # None
  PROVE  FilesAre(marker') /\ SeedsBy(marker') = Range(run.request.seeds)
<1> DEFINE eval == files[BasePolicy][1].run.eval
           seeds == Range(run.request.seeds)
           selected == Selected(run.request)
<1>1. /\ Doing("complete") /\ Comparable(selected) /\ files' = files
      /\ marker' = [request |-> run.request, eval |-> eval, inputs |-> Provenance(seeds),
                    results |-> [p \in selected |-> files[p]], report |-> reported]
  BY DEF Complete
<1>2. eval.asked = AskedOf(run.request)
  BY <1>1, AskedAtCompletion
<1>3. run.request \in Requests
  BY <1>1, DoingFacts, RunFacts
<1> HIDE DEF eval, selected
<1>4. marker'.request = run.request /\ marker'.eval = eval
  BY <1>1
<1>5. MarkerIsTrue' /\ MarkerDescribesDisk'
  BY CompleteKeeps DEF IInv
<1>7. \A p \in Policies :
        files[p] = IF p \in Selected(marker'.request) THEN marker'.results[p] ELSE <<>>
  BY <1>1, <1>5 DEF MarkerDescribesDisk
<1>8. \A p \in Selected(marker'.request) : marker'.results[p] = ExpectedRows(marker', p)
  BY <1>5 DEF MarkerIsTrue
<1> HIDE DEF ExpectedRows
<1>9. FilesAre(marker')
  BY <1>2, <1>3, <1>4, <1>7, <1>8 DEF FilesAre
<1> QED
  BY <1>4, <1>9 DEF SeedsBy

\* The published report is the one the definitions in its own text give for the
\* cells of the request, as long as what an episode measures are numbers.
THEOREM ReportsStayTrue ==
  ASSUME MeasuresAreNumbers
  PROVE  Spec => ReportIsTrue
<1> DEFINE Published == marker' \notin {None, marker} /\ marker'.report # None
           IsTrue == marker'.report = TrueReport(marker')
<1>1. ASSUME IInv, ReportIsCurrent, Next, Published
      PROVE  IsTrue
  <2>1. Complete
    <3>1. ~\E request \in Requests : StartRun(request)
      BY <1>1, Zenon DEF StartRun
    <3>2. marker' # marker
      BY <1>1
    <3> QED
      BY <1>1, <3>1, <3>2, Zenon
         DEF Next, Orchestrate, PrepareData, ArchiveUnselected, ReuseTraining,
             StartTraining, FinishTraining, MakeReport, Refuse, Evaluate, StartEvaluation,
             RewriteCache, FinishEpisode, FlushLast, FinishEvaluation, Environment,
             EpisodeFails, AppendFails, Crash, Edit, ForceTraining, Watch, WatchRead,
             WatchData, WatchSpecialist
  <2>2. Doing("complete") /\ marker'.report = reported
    BY <2>1 DEF Complete
  <2>3. run # None /\ reported # None
    BY <1>1, <2>2 DEF Doing
  <2>4. /\ ValidFrame(Frame, Range(run.request.seeds)) /\ CanReport(Range(Frame))
        /\ reported = Report(Range(Frame))
    BY <1>1, <2>3, Zenon DEF ReportIsCurrent
  <2>5. FilesAre(marker') /\ SeedsBy(marker') = Range(run.request.seeds)
    BY <1>1, <2>1, CompletionPromisesFiles
  <2>6. Tabulates(Range(Frame), marker')
    <3>1. ValidFrame(Frame, SeedsBy(marker'))
      BY <2>4, <2>5
    <3> QED
      BY <1>1, <2>4, <2>5, <3>1, TableOfMarker
  <2>7. MatchedHard(Range(Frame)) = TrueMatched(marker')
    BY <2>6, MatchedIsTrue
  <2>8. HomeExcessSummary(Range(Frame)) = TrueHolm(marker')
    BY <2>6, HolmIsTrue
  <2>9. PrimaryInteraction(Range(Frame)) = TrueDecision(marker')
    BY <2>6, DecisionIsTrue
  <2>10. Report(Range(Frame)) = TrueReport(marker')
    BY <2>7, <2>8, <2>9 DEF Report, TrueReport
  <2> QED
    BY <2>2, <2>4, <2>10
<1>2. IInv /\ (ReportIsLast /\ ReportIsCurrent) /\ [Next]_vars
        => [Published => IsTrue]_vars
  BY <1>1
<1> QED
  BY Invariance, ReportInvariance, <1>2, PTL DEF Spec, ReportIsTrue

=============================================================================
