-------------------------- MODULE NumberedEvaluation --------------------------
(***************************************************************************)
(* The resumable evaluation of one policy                                  *)
(* (stackpilot/numbered_policy_eval.py, with append_jsonl of               *)
(* stackpilot/common.py) and the report that reads its results             *)
(* (load_completed_numbered_results).                                      *)
(*                                                                         *)
(* A run takes what earlier runs left in episodes.jsonl, archives the rows *)
(* of other run signatures, evaluates what is missing, appends the new     *)
(* rows in chunks, and at the end rewrites the file in order, writes the   *)
(* summary and last the manifest, "the sole completion marker".  It may    *)
(* fail or be killed anywhere, in the middle of a line too, and be started *)
(* again with the same or another signature.  The report holds no lock.    *)
(*                                                                         *)
(* The jobs are run by parallel_job_results: by JobStream, which           *)
(* ParallelJobs implements, they are delivered once each, in any order.    *)
(***************************************************************************)
EXTENDS Naturals, Sequences, FiniteSets, SequencesExt

CONSTANTS
  Order,        \* expected_order: the keys, in the order of the final file
  Signatures,   \* run signatures: one for each configuration a run may have
  ChunkSize,    \* checkpoint_size
  None,         \* no file
  MaxCrashes, MaxFailures

Keys == {Order[i] : i \in 1..Len(Order)}

ASSUME EvaluationAssumption ==
  /\ Order \in Seq(Nat) /\ Cardinality(Keys) = Len(Order)
  /\ None \notin Signatures
  /\ ChunkSize \in Nat \ {0}
  /\ MaxCrashes \in Nat /\ MaxFailures \in Nat

VARIABLES
  lines,     \* the lines of episodes.jsonl
  ended,     \* its last byte is a newline (or it is empty)
  archive,   \* rows in archive/episodes.stale-*.jsonl
  summary,   \* the signature summary.csv was written for; "cut": half written
  manifest,  \* evaluation_manifest.json: its signature and episodes digest
  pc, sig,   \* the run's place and its run_signature
  current,   \* keys of the run's row cache
  todo,      \* jobs whose result is still to come
  batch,     \* checkpoint_rows
  written,   \* how many of them the append under way has started
  aborting,  \* the run is in its except clause
  durable,   \* rows that have been in a file when it was fsynced
  rpc, held, \* the report's place and the manifest it has read
  crashes, failures

disk == <<lines, ended, archive, summary, manifest>>
memory == <<current, todo, batch, written, aborting>>
report == <<rpc, held>>
budget == <<crashes, failures>>
vars == <<disk, pc, sig, memory, durable, report, budget>>

\* A line is "part" of a row, a whole "row", or bytes "glued" to an old part.
Rows == [key : Keys, sig : Signatures]
Lines == [key : Keys, sig : Signatures, form : {"part", "row", "glued"}]

Line(k, s) == [key |-> k, sig |-> s, form |-> "row"]
IsRow(line) == line.form = "row"
RowOf(line) == [key |-> line.key, sig |-> line.sig]
RowsIn(file) == {RowOf(file[i]) : i \in {j \in 1..Len(file) : IsRow(file[j])}}
SortedKeys(ks) ==
  [i \in 1..Cardinality(ks) |->
     CHOOSE k \in ks : Cardinality({j \in ks : j < k}) = i - 1]

\* The file that holds one row of signature s for each key of ks, in order.
FileOf(ks, s) == [i \in 1..Len(ks) |-> Line(ks[i], s)]
WholeGrid(s) == FileOf(Order, s)

TypeOK ==
  /\ lines \in Seq(Lines) /\ ended \in BOOLEAN
  /\ archive \subseteq Rows /\ durable \subseteq Rows
  /\ summary \in Signatures \cup {None, "cut"}
  /\ manifest = None \/ manifest \in [sig : Signatures, digest : Seq(Lines)]
  /\ pc \in {"idle", "archive", "rewrite", "run", "append", "write", "part",
             "newline", "final", "summary", "csv", "manifest"}
  /\ sig \in Signatures
  /\ current \subseteq Keys /\ todo \subseteq Keys
  /\ batch \in Seq(Keys) /\ written \in 0..Len(batch)
  /\ aborting \in BOOLEAN
  /\ rpc \in {"idle", "digest", "rows", "accepted"}
  /\ held = None \/ held \in [sig : Signatures, digest : Seq(Lines)]
  /\ crashes \in 0..MaxCrashes /\ failures \in 0..MaxFailures

Init ==
  /\ lines = <<>> /\ ended = TRUE /\ archive = {}
  /\ summary = None /\ manifest = None
  /\ pc = "idle" /\ sig \in Signatures
  /\ current = {} /\ todo = {} /\ batch = <<>> /\ written = 0
  /\ aborting = FALSE
  /\ durable = {}
  /\ rpc = "idle" /\ held = None
  /\ crashes = 0 /\ failures = 0

-----------------------------------------------------------------------------
(* A run: the cache                                                        *)

Dies == /\ pc' = "idle"
        /\ current' = {} /\ todo' = {} /\ batch' = <<>> /\ written' = 0
        /\ aborting' = FALSE
RunFrame == UNCHANGED <<report, crashes>>

\* Mutant of Start: the old manifest stays until it is replaced.
StartUnderManifest(s) ==
  /\ pc = "idle"
  /\ sig' = s
  /\ pc' = "archive"
  /\ UNCHANGED <<disk, memory, durable, failures>>
  /\ RunFrame

\* main, up to manifest_path.unlink(missing_ok=True): "a crash leaves resumable
\* rows but never advertises completion".
Start(s) ==
  /\ pc = "idle"
  /\ sig' = s
  /\ manifest' = None
  /\ pc' = "archive"
  /\ UNCHANGED <<lines, ended, archive, summary, memory, durable, failures>>
  /\ RunFrame

\* valid_cached_episode: a row counts for the run it was made for.
Usable(i) == IsRow(lines[i]) /\ lines[i].sig = sig

\* The last usable row of each key is current, all other rows are stale.
Kept == {i \in 1..Len(lines) :
           /\ Usable(i)
           /\ \A j \in (i + 1)..Len(lines) : Usable(j) => lines[j].key # lines[i].key}
KeptKeys == {lines[i].key : i \in Kept}

\* Mutant of ArchiveStale: all jobs are run again.
ArchiveAndRedo ==
  /\ pc = "archive"
  /\ archive' = archive \cup
       {RowOf(lines[i]) : i \in {j \in 1..Len(lines) : IsRow(lines[j])} \ Kept}
  /\ current' = KeptKeys
  /\ todo' = Keys
  /\ pc' = "rewrite"
  /\ UNCHANGED <<lines, ended, summary, manifest, sig, batch, written, aborting,
                 durable, failures>> /\ RunFrame

\* load_cached_rows and prepare_result_cache: stale rows go to an archive file
\* (the verbatim copy of a file with a broken line is not modelled) ...
ArchiveStale ==
  /\ pc = "archive"
  /\ archive' = archive \cup
       {RowOf(lines[i]) : i \in {j \in 1..Len(lines) : IsRow(lines[j])} \ Kept}
  /\ current' = KeptKeys
  /\ todo' = Keys \ KeptKeys
  /\ pc' = "rewrite"
  /\ UNCHANGED <<lines, ended, summary, manifest, sig, batch, written, aborting,
                 durable, failures>> /\ RunFrame

\* ... and then the current ones replace the file, sorted by key.
RewriteCache ==
  /\ pc = "rewrite"
  /\ lines' = FileOf(SortedKeys(current), sig)
  /\ ended' = TRUE
  /\ durable' = durable \cup RowsIn(lines')
  /\ pc' = "run"
  /\ UNCHANGED <<archive, summary, manifest, sig, memory, failures>>
  /\ RunFrame

-----------------------------------------------------------------------------
(* A run: the loop over parallel_job_results and its except clause         *)

\* The stream yields a result; a full batch is appended at once.
Deliver(k) ==
  /\ pc = "run" /\ Len(batch) < ChunkSize
  /\ k \in todo
  /\ todo' = todo \ {k}
  /\ current' = current \cup {k}
  /\ batch' = Append(batch, k)
  /\ pc' = IF Len(batch') >= ChunkSize THEN "append" ELSE "run"
  /\ UNCHANGED <<disk, sig, written, aborting, durable, failures>> /\ RunFrame

\* The stream is over.
LoopEnds ==
  /\ pc = "run" /\ todo = {}
  /\ pc' = IF batch = <<>> THEN "final" ELSE "append"
  /\ UNCHANGED <<disk, sig, memory, durable, failures>> /\ RunFrame

\* A job fails, a new episode is invalid, or an interrupt arrives.
LoopFails ==
  /\ pc = "run"
  /\ failures < MaxFailures
  /\ failures' = failures + 1
  /\ IF batch = <<>>
       THEN Dies
       ELSE /\ pc' = "append" /\ aborting' = TRUE
            /\ UNCHANGED <<current, todo, batch, written>>
  /\ UNCHANGED <<disk, sig, durable>> /\ RunFrame

\* Mutant of MendTail: the append begins where the file happens to end.
MendNothing ==
  /\ pc = "append"
  /\ written' = 0
  /\ pc' = "write"
  /\ UNCHANGED <<disk, sig, current, todo, batch, aborting, durable, failures>>
  /\ RunFrame

\* append_jsonl first mends the end of the file: an unfinished row is cut off,
\* a whole one gets its newline.
MendTail ==
  /\ pc = "append"
  /\ lines' = IF ended \/ IsRow(Last(lines)) THEN lines ELSE Front(lines)
  /\ ended' = TRUE
  /\ written' = 0
  /\ pc' = "write"
  /\ UNCHANGED <<archive, summary, manifest, sig, current, todo, batch, aborting,
                 durable, failures>> /\ RunFrame

\* Then it writes row after row; what has reached the file may end anywhere.
WriteFrame == UNCHANGED <<archive, summary, manifest, sig, current, todo, batch,
                          aborting, durable, failures>> /\ RunFrame

StartRow ==
  LET line == [Line(batch[written + 1], sig) EXCEPT !.form = "part"] IN
  /\ pc = "write" /\ written < Len(batch)
  /\ lines' = IF ended THEN Append(lines, line)
                       ELSE [lines EXCEPT ![Len(lines)].form = "glued"]
  /\ ended' = FALSE
  /\ written' = written + 1
  /\ pc' = "part"
  /\ WriteFrame

FinishRow ==
  /\ pc = "part"
  /\ lines' = IF Last(lines).form = "part"
                THEN [lines EXCEPT ![Len(lines)].form = "row"] ELSE lines
  /\ pc' = "newline"
  /\ UNCHANGED <<ended, written>> /\ WriteFrame

EndRow ==
  /\ pc = "newline"
  /\ ended' = TRUE
  /\ pc' = "write"
  /\ UNCHANGED <<lines, written>> /\ WriteFrame

\* fsync, return, checkpoint_rows.clear(); the except clause then raises.
AppendReturns ==
  /\ pc = "write" /\ written = Len(batch)
  /\ durable' = durable \cup {[key |-> batch[i], sig |-> sig] : i \in 1..Len(batch)}
  /\ IF aborting
       THEN Dies
       ELSE /\ pc' = "run" /\ batch' = <<>> /\ written' = 0
            /\ UNCHANGED <<current, todo, aborting>>
  /\ UNCHANGED <<disk, sig, failures>> /\ RunFrame

\* The append raises (a full disk, an interrupt) with any part written: the
\* except clause appends the same batch once more, and gives up after that.
AppendFails ==
  /\ pc \in {"write", "part", "newline"}
  /\ failures < MaxFailures
  /\ failures' = failures + 1
  /\ IF aborting
       THEN Dies
       ELSE /\ pc' = "append" /\ aborting' = TRUE /\ written' = 0
            /\ UNCHANGED <<current, todo, batch>>
  /\ UNCHANGED <<disk, sig, durable>> /\ RunFrame

-----------------------------------------------------------------------------
(* A run: completion                                                       *)

\* Every expected key, no other: the rows replace the file in order.
WriteFinal ==
  /\ pc = "final" /\ current = Keys
  /\ lines' = WholeGrid(sig)
  /\ ended' = TRUE
  /\ durable' = durable \cup RowsIn(lines')
  /\ pc' = "summary"
  /\ UNCHANGED <<archive, summary, manifest, sig, memory, failures>>
  /\ RunFrame

\* to_csv writes in place.
BeginSummary ==
  /\ pc = "summary"
  /\ summary' = "cut"
  /\ pc' = "csv"
  /\ UNCHANGED <<lines, ended, archive, manifest, sig, memory, durable, failures>>
  /\ RunFrame

EndSummary ==
  /\ pc = "csv"
  /\ summary' = sig
  /\ pc' = "manifest"
  /\ UNCHANGED <<lines, ended, archive, manifest, sig, memory, durable, failures>>
  /\ RunFrame

\* Mutant of WriteManifest: the run ends without it.
WriteNoManifest ==
  /\ pc = "manifest"
  /\ Dies
  /\ UNCHANGED <<disk, sig, durable, failures>>
  /\ RunFrame

\* atomic_json(manifest_path, ...) with the digest of the file just written.
WriteManifest ==
  /\ pc = "manifest"
  /\ manifest' = [sig |-> sig, digest |-> lines]
  /\ Dies
  /\ UNCHANGED <<lines, ended, archive, summary, sig, durable, failures>>
  /\ RunFrame

Crash ==
  /\ pc # "idle"
  /\ crashes < MaxCrashes
  /\ crashes' = crashes + 1
  /\ Dies
  /\ UNCHANGED <<disk, sig, durable, report, failures>>

-----------------------------------------------------------------------------
(* load_completed_numbered_results, in another process                     *)

ReportFrame == UNCHANGED <<disk, pc, sig, memory, durable, budget>>

ReadManifest ==
  /\ rpc \in {"idle", "accepted"} /\ manifest # None
  /\ held' = manifest
  /\ rpc' = "digest"
  /\ ReportFrame

Rejects == rpc' = "idle" /\ held' = None

\* sha256_file(episodes_path)
CheckDigest ==
  /\ rpc = "digest"
  /\ IF ended /\ lines = held.digest
       THEN rpc' = "rows" /\ UNCHANGED held
       ELSE Rejects
  /\ ReportFrame

\* Mutant of ReadRows: after the digest, any rows will do.
ReadAnyRows ==
  /\ rpc = "rows"
  /\ rpc' = "accepted"
  /\ UNCHANGED held
  /\ ReportFrame

\* The file is opened a second time for its rows: their number, the run they
\* are for and their keys must be what the manifest declares.
ReadRows ==
  /\ rpc = "rows"
  /\ IF /\ Cardinality({i \in 1..Len(lines) : IsRow(lines[i])}) = Len(Order)
        /\ \A row \in RowsIn(lines) : row.sig = held.sig
        /\ {row.key : row \in RowsIn(lines)} = Keys
       THEN rpc' = "accepted" /\ UNCHANGED held
       ELSE Rejects
  /\ ReportFrame

Step ==
  \/ \E s \in Signatures : Start(s)
  \/ ArchiveStale \/ RewriteCache
  \/ \E k \in Keys : Deliver(k)
  \/ LoopEnds \/ LoopFails \/ MendTail \/ StartRow \/ FinishRow \/ EndRow
  \/ AppendReturns \/ AppendFails
  \/ WriteFinal \/ BeginSummary \/ EndSummary \/ WriteManifest

Report == ReadManifest \/ CheckDigest \/ ReadRows

Next == Step \/ Crash \/ Report

Spec == Init /\ [][Next]_vars

\* Jobs end, and an unfinished evaluation is started again.
FairSpec == Spec /\ WF_vars(Step)

-----------------------------------------------------------------------------
(* Properties *)

\* The manifest is the sole completion marker: while it stands, episodes.jsonl
\* is byte for byte the whole grid of its signature and the summary belongs to
\* it, whatever run was started, failed or killed since.
CompletionIsTrue ==
  manifest # None =>
    /\ ended /\ lines = WholeGrid(manifest.sig)
    /\ manifest.digest = lines /\ summary = manifest.sig

\* A row that was once durable is never lost: it is in episodes.jsonl or in an
\* archive, through crashes, failed appends and changes of signature.
DurableIsKept == durable \subseteq RowsIn(lines) \cup archive

\* Only the last line may be unreadable, which is what read_jsonl_tolerant of
\* the reports can cope with: an append never goes on after half a line.
OnlyTailIsTorn == \A i \in 1..Len(lines) : ~IsRow(lines[i]) => i = Len(lines) /\ ~ended

\* The checkpoint loses no durable row and stays readable up to its tail.
CheckpointIsSound == TypeOK /\ DurableIsKept /\ OnlyTailIsTorn

\* An episode whose row for the same run is in the file is not run again.
NotEvaluatedTwice ==
  [][\A k \in Keys : Deliver(k) => [key |-> k, sig |-> sig] \notin RowsIn(lines)]_vars

\* What the report accepts are the rows the digest was taken of, although the
\* run may be started over between the digest and the second opening.
AcceptsWhatWasDigested ==
  [][rpc = "rows" /\ rpc' = "accepted" => RowsIn(lines) = RowsIn(held.digest)]_vars

\* The report refuses a finished evaluation only when it is being run again.
RefusesOnlyReruns ==
  [][rpc # "idle" /\ rpc' = "idle" => manifest # held]_vars

\* The report accepts one finished run, and refuses none that still stands.
ReaderIsExact == AcceptsWhatWasDigested /\ RefusesOnlyReruns

\* With finitely many failures and crashes, evaluations keep getting finished.
KeepsFinishing == []<>(manifest # None)
=============================================================================
