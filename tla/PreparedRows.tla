---------------------------- MODULE PreparedRows ----------------------------
(***************************************************************************)
(* How the Hard-RQ0 preparation turns rows of a pinned dataset into the    *)
(* rows the experiments train and evaluate on (prepare_hard_rq0.py), and   *)
(* how the mixed policy pairs them over the two backends                   *)
(* (prepare_mixed_data.py).                                                *)
(*                                                                         *)
(* A title, and a question, is a pair <<name, spelling>>: unique_strings   *)
(* tells spellings apart, normalize_title and normalize_question do not.   *)
(* A digest of a file or of a list of ids is the thing it digests.         *)
(***************************************************************************)
EXTENDS Integers, Sequences, FiniteSets, SequencesExt, FiniteSetsExt

CONSTANTS
  Datasets,   \* data.datasets: the names of the datasets, in their order
  Source,     \* Source[dataset][split]: the rows of a split, before its shuffle
  Corpus      \* the titles of the wiki-18 corpus, line by line

Roles == {"trainer_train", "trainer_validation", "final_evaluation"}

Backends == <<"bm25", "e5">>

Normal(spelled) == spelled[1]

SumOf(s) == FoldLeft(LAMBDA total, n: total + n, 0, s)

(***************************************************************************)
(* The first of the strings that are equal is kept.                        *)
(***************************************************************************)
Unique(strings) ==
  FoldLeft(LAMBDA kept, s: IF s \in Range(kept) THEN kept ELSE Append(kept, s),
           <<>>, strings)

(***************************************************************************)
(* The titles of the items a dataset marks as support. An item of a        *)
(* decomposition counts unless it is marked otherwise.                     *)
(***************************************************************************)
TitlesOf(items) == [i \in DOMAIN items |-> items[i].title]

Marked(items, marks) ==
  Unique(TitlesOf(SelectSeq(items, LAMBDA item: item.mark \in marks)))

FirstHeld(places) ==
  LET held == SelectSeq(places, LAMBDA titles: titles # <<>>)
  IN IF held = <<>> THEN <<>> ELSE Head(held)

(***************************************************************************)
(* The first of the places a dataset may keep its support titles in that   *)
(* holds any; a context of parallel columns ends the search even when it   *)
(* marks nothing.                                                          *)
(***************************************************************************)
SupportTitles(meta) ==
  FirstHeld(<<Unique(meta.listed), Unique(meta.facts),
              Marked(meta.paragraphs, {"yes"}), Marked(meta.context.items, {"yes"}),
              IF meta.context.kind = "columns" THEN <<>>
              ELSE Marked(meta.steps, {"yes", "unmarked"})>>)

ToQuery(raw, dataset, split) ==
  [id |-> <<dataset, raw.id>>, split |-> split, question |-> raw.question,
   answers |-> Unique(raw.answers), titles |-> SupportTitles(raw.meta)]

(***************************************************************************)
(* Dataset.shuffle(seed): a fixed permutation of the rows for each seed.   *)
(***************************************************************************)
Shuffled(rows, seed) ==
  LET n == Len(rows)
  IN [i \in 1..n |-> rows[1 + ((i - 1 + seed) % n)]]

(***************************************************************************)
(* The slice of a shuffled split that a role takes from the k-th dataset.  *)
(***************************************************************************)
Slice(request, role, k) ==
  CASE role = "trainer_train" ->
         [split |-> "train", seed |-> request.seed + k - 1,
          start |-> 0, count |-> request.train]
    [] role = "trainer_validation" ->
         [split |-> "train", seed |-> request.seed + k - 1,
          start |-> request.train, count |-> request.dev]
    [] role = "final_evaluation" ->
         [split |-> "eval", seed |-> request.seed + 100 + k - 1,
          start |-> 0, count |-> request.eval]

Split(k, slice) == Source[Datasets[k]][slice.split]

RouteOf(role, i) ==
  IF role = "trainer_validation" THEN Backends[1 + ((i - 1) % 2)] ELSE "none"

(***************************************************************************)
(* The rows of a role in the k-th dataset; validation rows are given their *)
(* hidden backend, alternately.                                            *)
(***************************************************************************)
Taken(slice, k) ==
  SubSeq(Shuffled(Split(k, slice), slice.seed),
         slice.start + 1, slice.start + slice.count)

Labelled(rows, role, k) ==
  [i \in DOMAIN rows |->
     [query |-> ToQuery(rows[i], Datasets[k], role), route |-> RouteOf(role, i)]]

Selected(request, role, k) == Labelled(Taken(Slice(request, role, k), k), role, k)

Selection(request) ==
  [role \in Roles |-> [k \in DOMAIN Datasets |-> Selected(request, role, k)]]

AllRows(rows, role) == FlattenSeq(rows[role])

Ids(rows) == [i \in DOMAIN rows |-> rows[i].query.id]

Questions(rows) == [i \in DOMAIN rows |-> Normal(rows[i].query.question)]

IsUnique(rows) == IsInjective(Ids(rows)) /\ IsInjective(Questions(rows))

AreDisjoint(left, right) ==
  /\ Range(Ids(left)) \cap Range(Ids(right)) = {}
  /\ Range(Questions(left)) \cap Range(Questions(right)) = {}

SplitsAreLargeEnough(request) ==
  \A k \in DOMAIN Datasets, role \in Roles:
    LET slice == Slice(request, role, k)
    IN slice.start + slice.count <= Len(Split(k, slice))

(***************************************************************************)
(* What a preparation refuses before it writes anything: too few rows, a   *)
(* question without an answer or without support, or one that stands twice *)
(* in a role or in two of them.                                            *)
(***************************************************************************)
RowsAreUsable(rows) ==
  /\ \A role \in Roles:
       /\ \A row \in Range(AllRows(rows, role)):
            row.query.answers # <<>> /\ row.query.titles # <<>>
       /\ IsUnique(AllRows(rows, role))
  /\ \A left, right \in Roles:
       left # right => AreDisjoint(AllRows(rows, left), AllRows(rows, right))

IsFeasible(request) ==
  SplitsAreLargeEnough(request) /\ RowsAreUsable(Selection(request))

(***************************************************************************)
(* One spelling of each normalized title.                                  *)
(***************************************************************************)
NormalPairs(titles) ==
  FoldLeft(LAMBDA kept, t:
             IF \E u \in Range(kept): Normal(u) = Normal(t) THEN kept ELSE Append(kept, t),
           <<>>, titles)

RequiredTitles(rows) ==
  UNION {{Normal(t) : t \in Range(NormalPairs(row.query.titles))} : row \in Range(rows)}

(***************************************************************************)
(* The scan of the corpus stops at the line that finds the last title.     *)
(***************************************************************************)
RowsScanned(required) ==
  LET seen(n) == {Normal(Corpus[i]) : i \in 1..n}
      enough == {n \in 0..Len(Corpus): required \subseteq seen(n)}
  IN IF enough = {} THEN Len(Corpus) ELSE Min(enough)

FoundTitles(required) ==
  required \cap {Normal(Corpus[i]) : i \in 1..RowsScanned(required)}

Annotated(row, found) ==
  LET pairs == NormalPairs(row.query.titles)
  IN [query |-> row.query, route |-> row.route, gold |-> Len(pairs),
      covered |-> {t \in Range(pairs): Normal(t) \in found}]

Summary(rows) ==
  LET matched == [i \in DOMAIN rows |-> Cardinality(rows[i].covered)]
  IN [rows |-> Len(rows),
      zero |-> Cardinality({i \in DOMAIN rows: matched[i] = 0}),
      partial |-> Cardinality({i \in DOMAIN rows: 0 < matched[i] /\ matched[i] < rows[i].gold}),
      full |-> Cardinality({i \in DOMAIN rows: matched[i] = rows[i].gold}),
      gold |-> SumOf([i \in DOMAIN rows |-> rows[i].gold]), matched |-> SumOf(matched)]

(***************************************************************************)
(* A row of a parquet file: its GRPO index groups the rollouts of one      *)
(* question, or of one question and backend in a paired file.              *)
(***************************************************************************)
SearchRow(row) == [id |-> row.query.id, index |-> <<row.query.id>>,
                   source |-> <<>>, route |-> row.route, shown |-> "none"]

(***************************************************************************)
(* The prompt names the backend only in mode backend-id.                   *)
(***************************************************************************)
PairedRow(row, backend, mode) ==
  LET origin == IF row.source # <<>> THEN row.source ELSE row.index
  IN [id |-> row.id, index |-> Append(origin, backend), source |-> origin,
      route |-> backend, shown |-> IF mode = "backend-id" THEN backend ELSE "none"]

PairedRows(rows, mode) ==
  FlattenSeq([i \in DOMAIN rows |->
    [b \in DOMAIN Backends |-> PairedRow(rows[i], Backends[b], mode)]])

(***************************************************************************)
(* The pinned corpus is not empty: hard_assets counts its lines.           *)
(***************************************************************************)
ASSUME CorpusAssumption == Corpus \in Seq(Range(Corpus)) /\ Corpus # <<>>

(***************************************************************************)
(* Every split has rows, and the support titles of a row are a list. Each  *)
(* has a letter in it: a title that normalizes to nothing would count its  *)
(* row as covered both fully and not at all.                               *)
(***************************************************************************)
ASSUME SourceAssumption ==
  \A d \in Range(Datasets), split \in {"train", "eval"}:
    /\ Source[d][split] \in Seq(Range(Source[d][split])) /\ Source[d][split] # <<>>
    /\ \A raw \in Range(Source[d][split]):
         LET titles == SupportTitles(raw.meta)
         IN titles \in Seq(Range(titles)) /\ \A t \in Range(titles): Normal(t) # ""

=============================================================================
