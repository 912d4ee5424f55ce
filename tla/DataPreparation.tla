--------------------------- MODULE DataPreparation ---------------------------
(***************************************************************************)
(* The prepared Hard-RQ0 data and the three programs that share it:        *)
(*                                                                         *)
(*   prepare_hard_rq0.prepare writes every artifact to a staging           *)
(*   directory, renames the artifacts one by one over those of an earlier  *)
(*   preparation, and renames a manifest of digests last;                  *)
(*   prepare_mixed_data.prepare derives a file of paired rows from one of  *)
(*   the artifacts, and writes a sidecar after it;                         *)
(*   prepare_hard_rq0 --validate-training-inputs decides which two files a *)
(*   training run may read, over several reads of what the others replace. *)
(*                                                                         *)
(* The configuration may be edited between two commands, and the first two *)
(* programs may be killed between two renames.                             *)
(***************************************************************************)
EXTENDS PreparedRows

CONSTANTS
  Requests,    \* the configurations: [train, dev, eval, seed]
  Paths,       \* the artifacts of a preparation, in the order of their names
  MixedSeed,   \* the training seed a mixed-policy run shuffles with
  Modes,       \* the pairings it asks for, among backend-id and hidden-paired
  Inputs,      \* the [trainer_train, trainer_validation] files that are passed
  MaxEdits,    \* bound: how often the configuration is edited
  MaxCrashes   \* bound: how often a preparation is killed

VARIABLES
  config,      \* the data section of the configuration
  files,       \* the prepared artifacts: path -> the request that wrote it
  manifest,    \* the data manifest: none, or the request it was written for
  prep,        \* the preparation that runs, or has run
  derived,     \* the paired files: role -> contents
  sidecar,     \* their sidecars: role -> record
  mix,         \* the derivation that runs
  check,       \* the check of a training run's inputs
  edits, crashes

prepared == <<files, manifest, prep>>
mixed == <<derived, sidecar, mix>>
vars == <<config, prepared, mixed, check, edits, crashes>>

TrainingRoles == <<"trainer_train", "trainer_validation">>

-----------------------------------------------------------------------------
(* The artifacts of a preparation *)

(***************************************************************************)
(* A path is <<place, name>>: a dataset's directory, the directory of all  *)
(* data or that of the parquet files.                                      *)
(***************************************************************************)
NamesIn(place) ==
  CASE place = "data" -> {"SUMMARY", "eval_all", "final_eval"}
    [] place = "searchr1" -> {"dev", "test", "train"}
    [] OTHER -> {"dev", "eval", "final_eval", "train", "validation"}

Places == Range(Datasets) \cup {"data", "searchr1"}

ArtifactPaths ==
  UNION {{<<place, name>> : name \in NamesIn(place)} : place \in Places}

(***************************************************************************)
(* The datasets are named once each, and no other directory is called like *)
(* one of them; a request asks for some rows of every role.                *)
(***************************************************************************)
ASSUME DatasetsAssumption ==
  /\ Datasets \in Seq(Range(Datasets)) /\ Datasets # <<>> /\ IsInjective(Datasets)
  /\ Range(Datasets) \cap {"data", "searchr1"} = {}

ASSUME PathsAssumption ==
  Paths \in Seq(ArtifactPaths) /\ Range(Paths) = ArtifactPaths /\ IsInjective(Paths)

ASSUME RequestsAssumption ==
  \A request \in Requests:
    /\ request.train \in Nat \ {0} /\ request.dev \in Nat \ {0}
    /\ request.eval \in Nat \ {0} /\ request.seed \in Int

ASSUME BoundsAssumption == MaxEdits \in Nat /\ MaxCrashes \in Nat

(***************************************************************************)
(* A training run is given two files, each by its path or as what is       *)
(* derived for a role.                                                     *)
(***************************************************************************)
ASSUME InputsAssumption ==
  \A input \in Inputs: \A step \in {1, 2}:
    input[step].kind = "derived" => input[step].of \in Range(TrainingRoles)

RoleOf(path) ==
  CASE path[2] = "train" -> "trainer_train"
    [] path[2] \in {"dev", "validation", "test"} -> "trainer_validation"
    [] path[2] \in {"final_eval", "eval", "eval_all"} -> "final_evaluation"
    [] OTHER -> "metadata"

AliasOf(path) ==
  CASE path[2] \in {"validation", "test"} -> <<path[1], "dev">>
    [] path[2] \in {"eval", "eval_all"} -> <<path[1], "final_eval">>
    [] OTHER -> path

Found(rows) ==
  FoundTitles(UNION {RequiredTitles(AllRows(rows, role)) : role \in Roles})

AnnotatedRows(rows) ==
  [role \in Roles |-> [k \in DOMAIN Datasets |->
     [i \in DOMAIN rows[role][k] |-> Annotated(rows[role][k][i], Found(rows))]]]

(***************************************************************************)
(* The rows of the parquet file of a role; only the training rows of the   *)
(* datasets are shuffled together.                                         *)
(***************************************************************************)
SearchRows(rows) == [i \in DOMAIN rows |-> SearchRow(rows[i])]

Parquet(request, rows, role) ==
  IF role = "trainer_train" THEN Shuffled(SearchRows(AllRows(rows, role)), request.seed)
  ELSE SearchRows(AllRows(rows, role))

Contents(request, rows, path) ==
  CASE path[1] = "searchr1" -> Parquet(request, rows, RoleOf(path))
    [] RoleOf(path) = "metadata" ->
         <<request, Summary(AllRows(rows, "final_evaluation"))>>
    [] path[1] = "data" /\ RoleOf(path) # "metadata" -> AllRows(rows, RoleOf(path))
    [] OTHER -> rows[RoleOf(path)][CHOOSE k \in DOMAIN Datasets: Datasets[k] = path[1]]

Staged(request, rows) == [path \in ArtifactPaths |-> Contents(request, rows, path)]

ParquetIds(rows) == [i \in DOMAIN rows |-> rows[i].id]

IdsOf(contents, path) ==
  CASE path[1] = "searchr1" -> ParquetIds(contents)
    [] RoleOf(path) = "metadata" -> <<>>
    [] OTHER -> Ids(contents)

Artifact(contents, path) ==
  [digest |-> contents, role |-> RoleOf(path), alias |-> AliasOf(path),
   ids |-> IdsOf(contents, path)]

SplitContract(request, rows) ==
  [all |-> [role \in Roles |->
      [ids |-> IF role = "trainer_train" THEN ParquetIds(Parquet(request, rows, role))
               ELSE Ids(AllRows(rows, role)),
       questions |-> Questions(AllRows(rows, role))]],
   each |-> [role \in Roles |-> [k \in DOMAIN Datasets |->
      [slice |-> Slice(request, role, k), available |-> Len(Split(k, Slice(request, role, k))),
       ids |-> Ids(rows[role][k]), questions |-> Questions(rows[role][k])]]]]

Coverage(rows) ==
  LET required == UNION {RequiredTitles(AllRows(rows, role)) : role \in Roles}
  IN [scanned |-> RowsScanned(required), required |-> Cardinality(required),
      matched |-> Cardinality(FoundTitles(required)),
      all |-> [role \in Roles |-> Summary(AllRows(rows, role))],
      each |-> [role \in Roles |-> [k \in DOMAIN Datasets |-> Summary(rows[role][k])]]]

Manifest(request, rows, staged) ==
  [request |-> request, contract |-> SplitContract(request, rows),
   coverage |-> Coverage(rows),
   artifacts |-> [path \in DOMAIN staged |-> Artifact(staged[path], path)]]

(***************************************************************************)
(* All a preparation leaves: its artifacts and the manifest about them.    *)
(***************************************************************************)
Outcome(request, rows) ==
  [files |-> Staged(request, rows),
   manifest |-> Manifest(request, rows, Staged(request, rows)),
   roles |-> [role \in Roles |-> AllRows(rows, role)]]

Feasible == {request \in Requests: IsFeasible(request)}

(***************************************************************************)
(* What the preparation of each request stages. An artifact on disk is     *)
(* named by the request that wrote it; its bytes are looked up here.       *)
(***************************************************************************)
Output == [request \in Feasible |-> Outcome(request, AnnotatedRows(Selection(request)))]

Bytes(path) == Output[files[path]].files[path]

-----------------------------------------------------------------------------
(* When a manifest and the files it names are trusted *)

(***************************************************************************)
(* The slice the validator expects a role to have taken.                   *)
(***************************************************************************)
\* Mutant of Required: the final evaluation is expected from the training seed.
RequiredOfOneSeed(request, role, k) ==
  [Slice(request, role, k) EXCEPT !.seed = request.seed + k - 1]

Required(request, role, k) ==
  LET training == role \in Range(TrainingRoles)
      count == [trainer_train |-> request.train, trainer_validation |-> request.dev,
                final_evaluation |-> request.eval][role]
  IN [split |-> IF training THEN "train" ELSE "eval",
      seed |-> request.seed + (IF training THEN 0 ELSE 100) + k - 1,
      start |-> IF role = "trainer_validation" THEN request.train ELSE 0,
      count |-> count]

IsListOf(values, count) == Len(values) = count /\ IsInjective(values)

Combined(contract, field) ==
  contract.all["trainer_train"][field] \o contract.all["trainer_validation"][field]
    \o contract.all["final_evaluation"][field]

ContractIsValid(contract, request) ==
  LET count(role) == Required(request, role, 1).count
      total(role) == count(role) * Len(Datasets)
  IN /\ \A role \in Roles:
          /\ IsListOf(contract.all[role].ids, total(role))
          /\ IsListOf(contract.all[role].questions, total(role))
          /\ \A k \in DOMAIN Datasets:
               LET part == contract.each[role][k]
               IN /\ part.slice = Required(request, role, k)
                  /\ part.available >= part.slice.start + part.slice.count
                  /\ IsListOf(part.ids, count(role))
                  /\ IsListOf(part.questions, count(role))
     /\ \A field \in {"ids", "questions"}:
          IsListOf(Combined(contract, field),
                   total("trainer_train") + total("trainer_validation")
                     + total("final_evaluation"))

SummaryIsValid(summary, rows) ==
  /\ summary.rows = rows
  /\ summary.zero + summary.partial + summary.full = rows
  /\ summary.matched <= summary.gold

CoverageIsValid(coverage, contract) ==
  /\ coverage.scanned >= 1 /\ coverage.required >= 1
  /\ coverage.matched <= coverage.required
  /\ \A role \in Roles:
       /\ SummaryIsValid(coverage.all[role], Len(contract.all[role].ids))
       /\ \A k \in DOMAIN Datasets:
            SummaryIsValid(coverage.each[role][k], contract.each[role][k].slice.count)

IdsInContract(contract, path, role) ==
  IF path[1] \in Range(Datasets)
  THEN contract.each[role][CHOOSE k \in DOMAIN Datasets: Datasets[k] = path[1]].ids
  ELSE contract.all[role].ids

(***************************************************************************)
(* What a manifest says of itself, before any file is looked at.           *)
(***************************************************************************)
IsConsistent(m, request) ==
  /\ m.request = request
  /\ ContractIsValid(m.contract, request)
  /\ CoverageIsValid(m.coverage, m.contract)

Consistent == {request \in Feasible: IsConsistent(Output[request].manifest, request)}

\* Mutant of ArtifactIsValid: an artifact only has to be there.
ArtifactIsThere(m, path) == path \in DOMAIN files

ArtifactIsValid(m, path) ==
  LET record == m.artifacts[path]
      canonical == m.artifacts[record.alias]
  IN /\ path \in DOMAIN files
     /\ record.digest = Bytes(path)
     /\ record.role = RoleOf(path) /\ record.alias = AliasOf(path)
     /\ IF record.role = "metadata" THEN record.ids = <<>>
        ELSE record.ids = IdsInContract(m.contract, path, record.role)
     /\ record.digest = canonical.digest /\ record.ids = canonical.ids

(***************************************************************************)
(* The one test of the cache: prepare reuses what passes it, --check and   *)
(* every reader of the manifest refuse what does not.                      *)
(***************************************************************************)
CacheValid(request) ==
  /\ request \in manifest \cap Consistent
  /\ \A path \in ArtifactPaths: ArtifactIsValid(Output[request].manifest, path)

(***************************************************************************)
(* The manifest a reader trusts, when it trusts one.                       *)
(***************************************************************************)
Verified == {request \in manifest: CacheValid(request)}

-----------------------------------------------------------------------------
(* prepare_hard_rq0.prepare *)

NoPreparation == [at |-> "idle", request |-> config, next |-> 1]

\* Mutant of Prepare: the old manifest is removed before anything is refused.
PrepareAnew ==
  /\ prep.at \notin {"promote", "commit"}
  /\ prep' = [at |-> IF CacheValid(config) THEN "done"
                     ELSE IF config \in Feasible THEN "promote" ELSE "refused",
              request |-> config, next |-> 1]
  /\ manifest' = IF CacheValid(config) THEN manifest ELSE {}
  /\ UNCHANGED <<config, files, mixed, check, edits, crashes>>

(***************************************************************************)
(* A valid cache is reused. Everything that can be refused is refused      *)
(* before the first rename; what is staged dies with the program.          *)
(***************************************************************************)
Prepare ==
  /\ prep.at \notin {"promote", "commit"}
  /\ prep' = [at |-> IF CacheValid(config) THEN "done"
                     ELSE IF config \in Feasible THEN "promote" ELSE "refused",
              request |-> config, next |-> 1]
  /\ UNCHANGED <<config, files, manifest, mixed, check, edits, crashes>>

\* Mutant of Promote: an artifact that is there already is kept.
PromoteMissing ==
  /\ prep.at = "promote"
  /\ LET path == Paths[prep.next]
     IN files' = [p \in DOMAIN files \cup {path} |->
                    IF p \in DOMAIN files THEN files[p] ELSE prep.request]
  /\ prep' = IF prep.next = Len(Paths) THEN [prep EXCEPT !.at = "commit"]
             ELSE [prep EXCEPT !.next = @ + 1]
  /\ UNCHANGED <<config, manifest, mixed, check, edits, crashes>>

Promote ==
  /\ prep.at = "promote"
  /\ LET path == Paths[prep.next]
     IN files' = [p \in DOMAIN files \cup {path} |->
                    IF p = path THEN prep.request ELSE files[p]]
  /\ prep' = IF prep.next = Len(Paths) THEN [prep EXCEPT !.at = "commit"]
             ELSE [prep EXCEPT !.next = @ + 1]
  /\ UNCHANGED <<config, manifest, mixed, check, edits, crashes>>

Commit ==
  /\ prep.at = "commit"
  /\ manifest' = {prep.request}
  /\ prep' = [prep EXCEPT !.at = "done"]
  /\ UNCHANGED <<config, files, mixed, check, edits, crashes>>

-----------------------------------------------------------------------------
(* prepare_mixed_data.prepare *)

NoDerivation == [at |-> "idle"]

SourceOf(role) == <<"searchr1", IF role = "trainer_train" THEN "train" ELSE "dev">>

MixedRequest(path, rows, seed, mode) ==
  [input |-> path, digest |-> Bytes(path), rows |-> rows, seed |-> seed, mode |-> mode]

MixedCacheValid(role, request) ==
  \E record \in sidecar[role], rows \in derived[role]:
    /\ record.request = request
    /\ record.rows = request.rows * Len(Backends)
    /\ record.output = rows

(***************************************************************************)
(* The source is loaded before its digest is taken for the request.        *)
(***************************************************************************)
Load(role, mode) ==
  /\ mix.at = "idle"
  /\ SourceOf(role) \in DOMAIN files
  /\ mix' = [at |-> "loaded", role |-> role, mode |-> mode, rows |-> Bytes(SourceOf(role))]
  /\ UNCHANGED <<config, prepared, derived, sidecar, check, edits, crashes>>

Request ==
  /\ mix.at = "loaded"
  /\ LET request == MixedRequest(SourceOf(mix.role), Len(mix.rows), MixedSeed, mix.mode)
     IN mix' = IF MixedCacheValid(mix.role, request) THEN NoDerivation
               ELSE [at |-> "requested", role |-> mix.role, rows |-> mix.rows,
                     request |-> request]
  /\ UNCHANGED <<config, prepared, derived, sidecar, check, edits, crashes>>

Replace ==
  /\ mix.at = "requested"
  /\ derived' = [derived EXCEPT ![mix.role] =
                   {Shuffled(PairedRows(mix.rows, mix.request.mode), mix.request.seed)}]
  /\ mix' = [mix EXCEPT !.at = "replaced"]
  /\ UNCHANGED <<config, prepared, sidecar, check, edits, crashes>>

Record ==
  /\ mix.at = "replaced"
  /\ sidecar' = [sidecar EXCEPT ![mix.role] =
       {[request |-> mix.request, rows |-> 2 * Len(mix.rows), output |-> rows] :
          rows \in derived[mix.role]}]
  /\ mix' = NoDerivation
  /\ UNCHANGED <<config, prepared, derived, check, edits, crashes>>

-----------------------------------------------------------------------------
(* prepare_hard_rq0.validate_training_inputs *)

NoCheck == [at |-> "idle"]

(***************************************************************************)
(* The manifest is read and verified once, for the current configuration;  *)
(* a check that refuses leaves nothing.                                    *)
(***************************************************************************)
Open(input) ==
  /\ check.at \in {"idle", "accepted"}
  /\ config \in Verified
  /\ check' = [at |-> "verify", step |-> 1, input |-> input, held |-> config, seen |-> <<>>]
  /\ UNCHANGED <<config, prepared, mixed, edits, crashes>>

(***************************************************************************)
(* The record of a file the manifest registers for a role: the manifest is *)
(* read, and verified, again.                                              *)
(***************************************************************************)
Artifacts == {Output[request].manifest.artifacts : request \in Verified}

Registered(artifacts, path, role) ==
  {a[path] : a \in {b \in artifacts: path \in DOMAIN b /\ b[path].role = role}}

Held == Output[check.held].manifest.contract

(***************************************************************************)
(* A derived file is trusted one step away from a registered file, and     *)
(* only if the request that would derive it now is the one in its sidecar. *)
(***************************************************************************)
DerivedIsTrusted(of, role, artifacts) ==
  \E record \in sidecar[of]:
    LET request == record.request
    IN /\ Registered(artifacts, request.input, role) # {}
       /\ request = MixedRequest(request.input, Len(Held.all[role].ids),
                                 request.seed, request.mode)
       /\ MixedCacheValid(of, request)

CheckedRole == TrainingRoles[check.step]

CheckedFile == check.input[check.step]

AfterVerifying(file, role, artifacts) ==
  LET direct == IF file.kind = "direct" THEN Registered(artifacts, file.path, role) ELSE {}
  IN IF direct # {} \/ (file.kind = "derived" /\ DerivedIsTrusted(file.of, role, artifacts))
     THEN [at |-> "read", step |-> check.step, input |-> check.input,
           held |-> check.held, seen |-> check.seen, record |-> direct]
     ELSE NoCheck

Verify ==
  /\ check.at = "verify"
  /\ check' = AfterVerifying(CheckedFile, CheckedRole, Artifacts)
  /\ UNCHANGED <<config, prepared, mixed, edits, crashes>>

DirectRowsFit(rows, record) ==
  /\ ParquetIds(rows) = record.ids
  /\ IsInjective(ParquetIds(rows))
  /\ \A row \in Range(rows): row.index = <<row.id>> /\ row.source = <<>>

DerivedRowsFit(rows, ids) ==
  /\ Len(rows) = 2 * Len(ids)
  /\ \A row \in Range(rows):
       /\ Cardinality({i \in DOMAIN rows: rows[i].id = row.id}) = 2
       /\ row.source = <<row.id>> /\ row.route \in Range(Backends)
       /\ row.index = <<row.id, row.route>>
       /\ {other.route : other \in {r \in Range(rows): r.id = row.id}} = Range(Backends)

\* Mutant of RowsFit: the ids are not compared with those of the manifest.
RowsFitShape(rows, role, record) ==
  IF record # {} THEN \E r \in record: DirectRowsFit(rows, r)
  ELSE DerivedRowsFit(rows, Held.all[role].ids)

(***************************************************************************)
(* The ids are those of the manifest that was read first.                  *)
(***************************************************************************)
RowsFit(rows, role, record) ==
  LET ids == Held.all[role].ids
  IN /\ Range(ParquetIds(rows)) = Range(ids)
     /\ IF record # {} THEN \E r \in record: DirectRowsFit(rows, r)
        ELSE DerivedRowsFit(rows, ids)

(***************************************************************************)
(* The rows of the other artifacts cannot be read as those of a table.     *)
(***************************************************************************)
IsParquet(file) == file.kind = "derived" \/ file.path[1] = "searchr1"

RowsOf(file) ==
  IF file.kind = "direct" THEN {Bytes(file.path)} ELSE derived[file.of]

ReadRows ==
  /\ check.at = "read"
  /\ \E rows \in RowsOf(CheckedFile):
       check' = IF ~(IsParquet(CheckedFile) /\ RowsFit(rows, CheckedRole, check.record))
                THEN NoCheck
                ELSE [at |-> IF check.step = 2 THEN "accepted" ELSE "verify",
                      step |-> IF check.step = 2 THEN 1 ELSE 2, input |-> check.input,
                      held |-> check.held, seen |-> Append(check.seen, rows)]
  /\ UNCHANGED <<config, prepared, mixed, edits, crashes>>

-----------------------------------------------------------------------------
(* The configuration, and what may be killed *)

Edit ==
  /\ edits < MaxEdits
  /\ \E request \in Requests \ {config}: config' = request
  /\ edits' = edits + 1
  /\ UNCHANGED <<prepared, mixed, check, crashes>>

CrashPreparation ==
  /\ prep.at \in {"promote", "commit"} /\ crashes < MaxCrashes
  /\ prep' = [prep EXCEPT !.at = "idle", !.next = 1]
  /\ crashes' = crashes + 1
  /\ UNCHANGED <<config, files, manifest, mixed, check, edits>>

CrashDerivation ==
  /\ mix.at # "idle" /\ crashes < MaxCrashes
  /\ mix' = NoDerivation
  /\ crashes' = crashes + 1
  /\ UNCHANGED <<config, prepared, derived, sidecar, check, edits>>

Init ==
  /\ config \in Requests
  /\ files = << >> /\ manifest = {}
  /\ prep = NoPreparation
  /\ derived = [role \in Range(TrainingRoles) |-> {}]
  /\ sidecar = [role \in Range(TrainingRoles) |-> {}]
  /\ mix = NoDerivation /\ check = NoCheck
  /\ edits = 0 /\ crashes = 0

Next ==
  \/ Prepare \/ Promote \/ Commit
  \/ \E role \in Range(TrainingRoles), mode \in Modes: Load(role, mode)
  \/ Request \/ Replace \/ Record
  \/ \E input \in Inputs: Open(input)
  \/ Verify \/ ReadRows
  \/ Edit \/ CrashPreparation \/ CrashDerivation

(***************************************************************************)
(* Every experiment starts with the preparation (run_all.sh,               *)
(* run_node2_queue.sh), so one that was killed is run again.               *)
(***************************************************************************)
Spec ==
  /\ Init /\ [][Next]_vars
  /\ WF_vars(Prepare) /\ WF_vars(Promote) /\ WF_vars(Commit)

-----------------------------------------------------------------------------
TypeOK ==
  /\ config \in Requests /\ prep.request \in Requests
  /\ prep.at \in {"idle", "promote", "commit", "done", "refused"}
  /\ prep.next \in DOMAIN Paths
  /\ DOMAIN files \subseteq ArtifactPaths /\ Cardinality(manifest) <= 1
  /\ \A role \in Range(TrainingRoles):
       Cardinality(derived[role]) <= 1 /\ Cardinality(sidecar[role]) <= 1
  /\ mix.at \in {"idle", "loaded", "requested", "replaced"}
  /\ check.at \in {"idle", "verify", "read", "accepted"}
  /\ edits \in 0..MaxEdits /\ crashes \in 0..MaxCrashes

(***************************************************************************)
(* A preparation that ends has left a cache the test accepts: the command  *)
(* and the later --check agree about what it made.                         *)
(***************************************************************************)
PreparationIsAccepted ==
  /\ TypeOK
  /\ prep.at = "done" => CacheValid(prep.request)

VerdictStep(request) ==
  CacheValid(request) # CacheValid(request)' =>
    /\ prep.at \in {"promote", "commit"} /\ prep.request \in Feasible
    /\ CacheValid(request) => prep.request # request

(***************************************************************************)
(* What the test says of a cache changes in the renames of a preparation   *)
(* that can be met, and an accepted cache is broken only by those of       *)
(* another request: a refused, reused or repeated preparation, a kill, an  *)
(* edit, a derivation and a check leave the verdict as it is.              *)
(***************************************************************************)
VerdictChangesInRenames == [][\A request \in Requests: VerdictStep(request)]_vars

CoverageFits(published, summary) ==
  LET names(titles) == {Normal(t) : t \in Range(titles)}
      inCorpus(row) == names(row.query.titles) \cap names(Corpus)
  IN /\ \A row \in Range(published): row.gold = Cardinality(names(row.query.titles))
     /\ summary.matched
          = SumOf([i \in DOMAIN published |-> Cardinality(inCorpus(published[i]))])
     /\ summary.full
          = Cardinality({i \in DOMAIN published:
                           names(published[i].query.titles) \subseteq names(Corpus)})

\* The files of a dataset, by the role of their rows.
RoleFile ==
  [trainer_train |-> "train", trainer_validation |-> "dev", final_evaluation |-> "final_eval"]

(***************************************************************************)
(* In a cache the test accepts, the coverage each row on disk carries, and *)
(* the sums its manifest was written with, are those of the support titles *)
(* of the rows that are on disk and of the whole corpus: the files that    *)
(* two killed preparations have mixed do not pass.                         *)
(***************************************************************************)
CoverageIsExact ==
  \A request \in Verified:
    LET coverage == Output[request].manifest.coverage
    IN /\ CoverageFits(Bytes(<<"data", "final_eval">>), coverage.all["final_evaluation"])
       /\ \A role \in Roles, k \in DOMAIN Datasets:
            CoverageFits(Bytes(<<Datasets[k], RoleFile[role]>>), coverage.each[role][k])

InputsAreClean(roles) ==
  LET rows(step) == Range(check.seen[step])
      ids(step) == {row.id : row \in rows(step)}
      role(step) == roles[TrainingRoles[step]]
      asked(step) == {Normal(row.query.question) :
                        row \in {r \in Range(role(step)): r.query.id \in ids(step)}}
  IN /\ \A step \in {1, 2}:
          /\ ids(step) = Range(Ids(role(step)))
          /\ asked(step) \cap Range(Questions(roles["final_evaluation"])) = {}
          /\ IsInjective(check.seen[step])
          /\ IF check.input[step].kind = "direct"
             THEN Len(check.seen[step]) = Cardinality(ids(step))
             ELSE {<<row.id, row.route>> : row \in rows(step)} = ids(step) \X Range(Backends)
     /\ asked(1) \cap asked(2) = {}

(***************************************************************************)
(* What a training run is allowed to read is the two training roles of one *)
(* preparation, each question once, or once for each backend, and none of  *)
(* its rows asks a question of the final evaluation or of the other file.  *)
(***************************************************************************)
AcceptedInputsAreClean ==
  check.at = "accepted" => InputsAreClean(Output[check.held].roles)

(***************************************************************************)
(* Once the configuration is left alone, the cache becomes valid for it if *)
(* its request can be met at all, and stays so, however often a            *)
(* preparation was killed.                                                 *)
(***************************************************************************)
PreparationEnds == <>[](config \in Feasible => CacheValid(config))

=============================================================================
