# Formal models of pilot-survey

This directory models the parts of pilot-survey whose correctness depends on
the order of things: what is on the disk when a process dies, what two
processes or threads do to each other, which file vouches for which. The models
are written in TLA+ from the code under `src/`, checked on small instances with
TLC and, where a theorem is worth it, proved for every instance with TLAPS.
Paths below are relative to `src/`.

## 1. Inventory

pilot-survey is a research pipeline. Shell orchestrators start long-lived
services (policy model servers, retriever servers) and Python programs that
download assets, prepare data, train policies and evaluate them against a
matrix of conditions. Everything is meant to be restarted: any of it may be
killed, and the next run picks up from files on the disk. Several parts run
beside each other (background prefetch and foreground work, a watcher beside a
queue, worker threads beside a coordinator, reports beside evaluations).

### Components

| Component | State it keeps | Operations | Interacts with |
|---|---|---|---|
| **Hard-RQ0 asset cache** `stackpilot/hard_assets.py` | asset lock (flock), completion manifest, incomplete marker, three components and their staging files, E5 part list, bm25 compatibility link | `download`, `check`, the three builders `decompress_corpus`, `download_bm25`, `assemble_e5`, `ensure_bm25_link` | started in the background by the orchestrator and again in the foreground; checked without the lock by service launchers |
| **Parallel job window** `stackpilot/hard_policy_eval.py: parallel_job_results` | bounded work queue, unbounded result queue, stop event, worker threads, count of outstanding jobs | fill, gather, yield, stop on failure or interrupt, normal end | used by all policy evaluators; workers call model servers and retrievers over HTTP |
| **Numbered evaluation and its reader** `stackpilot/numbered_policy_eval.py`, `stackpilot/common.py`, `stackpilot/numbered_experiment_report.py` | `episodes.jsonl`, archive of stale rows, `summary.csv`, `evaluation_manifest.json` | salvage, archive, append in chunks, rewrite in order, declare complete; report accepts or refuses | reads from the job window; the report is another process and takes no lock |
| **Hard-RQ0 evaluation** `stackpilot/hard_policy_eval.py` | result file and archive of each policy, one episode's conversation | `run_episode`, resume, archive, checkpoints, main loop | job window, model servers, retrievers |
| **Hard-RQ0 orchestrator** `hard_rq0/run_all.sh` | completion markers of the result set and of the report | prepare, evaluate the base policy, train and evaluate the specialists, report, complete | data preparation, training drivers, evaluation, report; read by node 2 |
| **Full pipeline orchestrator** `scripts/run_full_pipeline.sh` | pipeline lock, background process groups, prefetch logs and status | start, wait, retry in the foreground, stop, cleanup on exit | starts nearly everything else |
| **Managed services** `scripts/lib/runtime.sh` | pid files, logs, ports | start, identity check, wait for HTTP, stop with TERM then KILL, quarantine of unknown pids | orchestrators, training drivers |
| **Training drivers** `hard_rq0/train_specialist.sh`, `experiments/*` | checkpoints, completion markers, rotated runs, patched sources | reuse, rotate, train, restore | managed services |
| **Node-2 queue** `experiments/run_node2_queue.sh`, watcher, `stackpilot/exp002_completion.py` | queue lock, watcher marker, EXP-002 completion marker with provenance | run steps in order, wait for watcher, verify marker | training drivers, evaluators |
| **Bootstrap caches and environments** | venvs, caches, markers | install once, reuse | all |
| **Retriever servers and clients** `stackpilot/mixed_retriever_server.py`, `stackpilot/retrieval_clients.py` | loaded indexes, per-thread retrievers, request counters | search, fuse rankings (RRF), route a mixed batch | evaluators, trainers |
| **Action protocol and observation geometry** `stackpilot/action_protocol.py`, `stackpilot/observation_geometry.py`, the rollout that `hard_rq0/patch_searchr1_*.py` write into Search-R1 | the rows of a rollout, their queues of results | parse a turn, search, fit an observation into a budget, end an episode, reward it | `run_episode`, trainers, router |
| **Data preparation** `stackpilot/prepare_hard_rq0.py`, `stackpilot/prepare_mixed_data.py` | published data sets, manifest, paired rows with their sidecars | select, split, publish, derive, check a training's inputs | trainers, evaluators, watcher |
| **Result contracts, indexes and reports** `stackpilot/hard_rq0_report.py`, `stackpilot/index_state.py` | index state markers, tables | index, validate, tabulate, decide | readers of all results |
| **Stage 0 and Stage 2 evaluators** | row-at-a-time checkpoints | as the numbered evaluation, without batches | job window, services |
| **Search-R1 source patchers** | "patched" markers in third-party text | patch idempotently, restore | training drivers |

### What is hard, and what makes each part correct

* **Asset cache.** Death between any two disk changes; two downloads on one
  root sharing every staging name; a lock-free check in the middle of a
  download; tens of gigabytes that must not be fetched again, nor kept twice.
  Correct when: only verified bytes are ever trusted or installed; the manifest
  vouches only for what is there; a check that passes is right; a rerun never
  makes a reusable component unusable and always finishes in the end.
* **Job window.** A coordinator that is a generator, worker threads that may be
  stuck for ever in a request, a stop that must neither block nor overflow a
  bounded queue. Correct when: no job is lost, repeated or delivered twice; a
  failure is never taken for a normal end; the stream always ends; no thread
  but a stuck one stays behind.
* **Numbered evaluation.** Half-written lines, a retried append, rows of other
  configurations in the same file, a report that opens the file twice while the
  evaluation may be starting over. Correct when: durable rows are never lost;
  the manifest is true whenever it exists; the report accepts one run's rows.
* **Orchestrator.** A lock descriptor inherited by background children, retry
  of a failed job while its siblings still run, traps. Correct when: two
  pipelines never overlap and no job outlives cleanup unnoticed.
* **Managed services.** Pid reuse, two launchers, a service that dies while its
  port is polled. Correct when: no signal goes to a process that is not ours.
* **Rollout and router.** A batch is split by backend, answered by two concurrent
  calls, put together, and popped row by row from shared queues; rows end at
  different turns, on the last turn nothing is searched. Correct when: every row
  gets the results of its own queries, and an episode in training ends, counts
  and is rewarded as the same texts would be in evaluation.
* **Data preparation.** Twenty files renamed one by one over those of an earlier
  preparation, the manifest last; a derivation that reads them without a lock.
  Correct when: whatever passes a check is one preparation of one request, and no
  question of the final test is trained on.
* **Orchestrator of Hard-RQ0, training, results, node 2.** Reuse by marker and
  signature after an interruption, a change of the configuration or a forced
  training; a watcher that compares a marker with files being replaced. Correct
  when: the completion marker describes what is on the disk, no answer is lost or
  asked twice, the report is what its definitions say of the rows of this run.
* **Source patchers.** Several drivers, several modes, older versions of the same
  scripts, one checkout that is edited in place. Correct when: a training runs on a
  completely patched tree of its own mode, and no script refuses what another of
  this release left.
* **Node-2 queue.** A watcher that writes its marker and exits between two tests
  of the queue. Correct when: the queue never goes on with stale results and never
  waits for nobody.

`PROJECT.json` lists every component with its status and every hazard with its
line and the properties that cover it.

## 2. Modules

| Module | Models | Actions ↔ code |
|---|---|---|
| `ResumableFetch` | abstract: what a resumable multi-part download promises | `VerifyPart`, `InstallAll`, `Lose` |
| `E5Assembly` | `assemble_e5`, `repair_e5_assembly_prefix` and the commit around them, byte by byte; implements `ResumableFetch` | `Start … Commit` in program order, one action for each change of the disk, plus `Crash` and outside losses |
| `HardAssets` | the whole of `_download`, the builders, the link repair, the asset lock, and `check` as a separate lock-free process; uses the promise of `ResumableFetch` for E5 | `Acquire`, `Survey`, `Plan`, `Mark`, `Declare`, …; `CheckReads`, `CheckComponent`, `CheckLink` |
| `JobStream` | abstract: what a stream of results promises its consumer | `JobFails`, `Deliver`, `End` |
| `ParallelJobs` | `parallel_job_results`; implements `JobStream` | `GetEntry … LoopAgain` (`run_worker`), `FillOne … Join` (coordinator), `Interrupted` |
| `NumberedEvaluation` | the evaluation of one policy and the report that reads it; takes the job window as `JobStream` promises | `Start`, `ArchiveStale`, `RewriteCache`, `Deliver`, `MendTail`, …, `WriteManifest`; `ReadManifest`, `CheckDigest`, `ReadRows` |
| `ManagedServices` | `stop_managed_pid` step by step, `stop_servers.sh`, the two launchers under `scripts/`, `run_all.sh` and `run_full_pipeline.sh` around them, a stop by hand, the processes themselves | `StopReads … StopDrops` (`stop_managed_pid`), `Start`, `Record`, `Write`, `WaitLooks`, `WaitAsks`, `Probe` (a launcher), `StopEnds`, `Bootstrap`, `Prepare`, `WorkEnds` (the runs), `Interrupt`, `Kill`, `Listen`, `Exit`, `Reuse` |
| `PolicyProtocol` | functions: `parse_policy_action` and the blocks of a turn, rank fusion, the client's normal form of a document, rendering within a token budget | — |
| `EvaluationEpisode` | functions: `run_episode` of the evaluators, from what the policy says to the row it writes, and the contract of such a row | — |
| `SearchRollout` | the patched training rollout of a batch with the mixed router: assignment of backends, turns, the two upstream calls, the shared queue of results, the window of the trainer, rewards, padded validation batches | `Assign`, `RefuseBatch`, `Generate`, `Route`, `UpstreamEnds`, `Join`, `JoinFails`, `Execute` |
| `PreparedRows` | functions: the selection of rows by `prepare_hard_rq0.py`, its splits, its pairing over the backends, the coverage of support titles | — |
| `DataPreparation` | staging, promotion and commit of a preparation, the derivation of paired rows (`prepare_mixed_data.py`), the check of training inputs, as three processes | `Prepare`, `Promote`, `Commit`; `Request`, `Replace`, `Record`; `Open`, `Verify`, `ReadRows`; `Edit`, `Crash…` |
| `PolicyReport` | functions: the validation of the result frame and the tables of `hard_rq0_report.py` up to the primary decision | — |
| `HardResults` | `hard_rq0/run_all.sh` with its trainings, evaluations, report and markers, and node 2's `exp002_completion.py` beside it | `StartRun`, `PrepareData`, `ArchiveUnselected`, `ReuseTraining`, `StartTraining`, `FinishTraining`, `StartEvaluation`, `RewriteCache`, `FinishEpisode`, `FlushLast`, `FinishEvaluation`, `MakeReport`, `Complete`, `Refuse`; `EpisodeFails`, `AppendFails`, `Crash`, `Edit`, `ForceTraining`; `WatchRead`, `WatchData`, `WatchSpecialist` |
| `SourcePatches` | every script that edits the Search-R1 checkout, in the order in which bootstrap, specialist, mixed and experiment drivers call it | one `Write…` for each file a script writes; `Start`, `Reset`, `Preflight`, `Train`, `Kill`, `Reclone` |
| `E5AssemblyProofs`, `HardAssetsProofs`, `ManagedServicesProofs`, `ParallelJobsProofs`, `NumberedEvaluationProofs`, `HardResultsProofs`, `DataPreparationProofs` | the theorems about the module of that name (section 4) | — |
| `SearchR1Proofs` | the theorems about what is done to Search-R1 and what it then does: `SourcePatches`, and `SearchRollout` with `PolicyProtocol` and `EvaluationEpisode` (section 4) | — |
| `MC*` | small values for TLC | — |

Composition is by abstraction: the two modules that work at the level of single
bytes or queue entries (`E5Assembly`, `ParallelJobs`) each implement a short
specification (`ResumableFetch`, `JobStream`), and the modules above them use
that. So `HardAssets` need not interleave bytes with two processes, and
`NumberedEvaluation` and `HardResults` need not interleave threads with torn lines.
The pure algorithms (`PolicyProtocol`, `EvaluationEpisode`, `PreparedRows`,
`PolicyReport`) are modules of operators: `SearchRollout` plays training against
`EvaluationEpisode`, `DataPreparation` publishes what `PreparedRows` selects, and
`HardResults` extends `PolicyReport`, which it feeds with the rows it has gathered.

Some operators are defined right before a definition, with a comment beginning
"Mutant of". They are variants with a plausible mistake; no specification uses
them. They document that the properties can tell the mistake from the code.

### How state corresponds

* **`E5Assembly`.** Byte *k* of the pinned index is the number *k*, and a wrong
  byte is 0; comparing a digest is comparing bytes. `staged`/`staging` is
  `.e5_Flat.index.assembling`, `checkpoint` is the `completed` list of
  `.e5-assembly.json` as read back (a file of another release reads as empty,
  as the code treats it), `source[p]` the downloaded file of a part, `target`
  the index, `recorded` the manifest's E5 record. `completed` and
  `expectedPrefix` are the run's variables. `Surviving` is what
  `repair_e5_assembly_prefix` keeps.
* **`HardAssets`.** `pc[p]` is a download's place in the code, `lock` the flock
  (a killed process frees it), `recorded` the manifest, `marker` the incomplete
  marker. Contents are abstracted to what the validators distinguish:
  `staging` is absent, a partial plain file, a whole one, or one of the tar
  files an earlier release left; `tree` is absent, good or bad; `link` is
  absent, canonical, stale or a legacy tree. `damaged` and `losses` are history,
  not state of the code.
* **`ParallelJobs`.** `work` and `results` are the two queues, `wpc`/`wjob` a
  thread's place and entry, `cpc` the coordinator's place. Each critical section
  of `start_lock` contains a single read or write of `stop`, so it is one
  action. `outcomes` is the round's list, of which the consumer takes one after the other;
  `gathered` is how many the round has collected, which is subtracted from
  `outstanding` when it is complete. `verdict` is how the generator ends.
* **`NumberedEvaluation`.** A line is part of a row, a whole row, or bytes glued
  to an old part; `ended` says whether the last byte is a newline. A file's
  digest is its content. `durable` is history: rows that have been in a file
  when it was fsynced.
* **`SearchRollout`.** A text is a sequence of blocks (a thought, a search, an
  answer, other text), a token each, and a document a header and a text of so many
  tokens; regular expressions and the tokenizer are abstracted to what they tell apart. `rows[i]` is what the rollout keeps of row
  *i*: what the policy has said (`script`), the titles observed, its length, its
  searches, whether it is active. `upstream` are the two calls in flight,
  `reply` the list handed to the rows, `counts` the router's counters. The policy
  is free: every text of a small set, in every turn.
* **`DataPreparation`.** A file is named by the request whose preparation wrote it,
  so its bytes are a function of that name (`Output`), and a digest is that
  function's value. `Paths` is `expected_artifacts` in its order, that of the names, in
  which the renames go. `files`/`manifest` are the published directory, `derived`/`sidecar`
  the paired rows, `prep`, `mix` and `check` the three processes.
* **`HardResults`.** Data, evaluator and training configuration are version
  numbers; a signature is the record of what it signs. `files[p]` is a policy's
  result file as the sequence of its whole rows, since a torn line is dropped by
  every reader and mended by the next append, which `NumberedEvaluation` models.
  `run.todo` are the steps left of the run, `proc` the training or evaluation under
  way, `watch` node 2's watcher between two of its reads.
* **`SourcePatches`.** `tree` is the checkout: for each file the fragments that
  scripts look for, each at the version that the text shows ("pinned", one of the
  script's older versions, its present one). A version names one text, byte for byte:
  where a script keeps the text of an older version and renames its marker, the
  result is a version of its own (`V2_over_V1`, `V3_over_V2`; the numpy import that
  `hard_rq0/patch_searchr1_action_protocol.py:267-280` puts below the action protocol of a
  pinned file comes to stand above that of a migrated one). A script is the function from the
  fragments it reads to those it writes, or a refusal. `trainings` is history.
* **`ManagedServices`.** `file[s]` is the pid file of a service: absent, "torn"
  (opened by the shell's redirection, nothing written yet) or a pid. `alive[p]`
  tells which processes of a group live, the leader, whose pid is p, or a worker;
  `proc[p]` what runs under the pid: a service, a program of the same checkout
  under the same interpreter ("kin"), a stranger. `at` is a script's place, and
  `stop` its call of `stop_managed_pid`: the services still to stop, the step,
  the pid it has read, whether anything failed. `TrapFirst` and `Nested` tell the
  two launchers and the two orchestrators apart; an interrupt or a failing
  command moves the run to the innermost trap that is set. `lost` is history:
  servers whose record was destroyed by a crash in the middle of its writing, or
  by a stop that removed a file it had read earlier.

## 3. Runs

| Run | Asks | Bounds |
|---|---|---|
| `e5_assembly` | can a crash, a bad download or a leftover ever make the assembly trust or keep a wrong byte, lose a verified part, or break the promise of `ResumableFetch`? does it finish? | 3 parts of 2, 1 and 2 bytes; 2 crashes, 2 failed or bad downloads, 1 loss; staging leftovers shorter and longer than a part, a part list in the wrong order, an older index |
| `hard_assets` | with two downloads, a check and faults, do manifest, marker, link and check agree with the disk, and does the cache become ready? | 2 downloads, 1 E5 part, 1 crash, 1 failure, 1 damage, every staging leftover and every old link |
| `parallel_jobs` | in every interleaving, is each job in one place, does every put find room, does the stream keep its promise and end, do a failure and an interrupt get out past a job that never returns, and do the other threads end? | 2 threads, 4 jobs, window of 3, 1 interrupt, 1 job that may be stuck |
| `numbered_evaluation` | can kills, failing appends and a change of configuration lose a row, falsify the manifest or mislead the report, and do evaluations keep reaching it? | 3 episodes in non-sorted order, 2 signatures, batches of 2, 1 crash, 2 failures |
| `managed_vllm` | can interrupts, kills, servers that die or do not, reused pids and a stop by hand make the scripts forget a server, start a second one, rebuild under one, or signal a stranger? | 1 service, 3 pids, 2 runs, 2 interrupts, 1 kill, 1 death, 1 reuse, 1 stop by hand; pids are symmetric (safety only) |
| `managed_pipeline` | inside the full pipeline, with two servers started one after the other: can a server hang a run or a stop? | 2 services, 3 pids, 2 runs, 1 interrupt |
| `search_rollout` | for every batch, every text of the policy and every failure of an upstream: does each row get its own results, agree with the evaluator's episode, and earn the evaluator's metrics? is each validation row scored once? | plans with one backend, blind routing (three, one of them an odd number of groups, which is refused), oracle routing, one validation row on three workers and two on five; stored titles with and without quotes; top 3, a budget of 6 tokens, a window of 13 |
| `data_preparation` | with a preparation, a derivation and a check of training inputs interleaved, is whatever passes a check consistent and clean of final questions, who can break a cache that passes, and does a preparation get done? | 2 datasets, 3 requests of which one cannot be met, 1 edit of the configuration, 1 kill, paired rows with a backend id |
| `hard_results` | do the markers tell the truth, is the report what its definitions say, is no answer lost or repeated, and what may node 2 accept while node 1 goes on? | 3 questions, 2 requests (one and two seeds, with and without a report), 2 workers, 2 runs, 1 edit or forced training, 1 fault; node 2 asks for seed 1 |
| `source_patches` | in every order of drivers, does a training run on a whole tree of its own mode, does a script ever refuse what the others left, and does the fingerprint depend on more than the mode and the texts of older versions? | the pinned checkout and three that older scripts have patched, 4 drivers, 2 kills |
| `search_rollout_quoted`, `source_patches_reset` | a sentence of the documentation each (see findings) | as above, with quoted titles in the corpus; a bootstrap and a reset |

**Why these bounds are enough to be interesting.** Three parts are the fewest
with a first, a middle and a last part; sizes differ so that an off-by-one part
shows as a wrong length; two crashes allow one in the recovery of the other; the
second failure allows a retry to fail as well. One E5 part suffices in
`HardAssets` because the order of parts is settled in `E5Assembly`. Two
downloads are the two the pipeline starts. Four jobs over two threads with a
window of three let the window fill, drain and fill again, and leave room for a
queued, a held and a posted job at the moment of a failure. A batch of two over
three episodes gives one full and one short batch; two signatures are needed for
stale rows; two failures are needed for an append to fail and its repetition in
the `except` clause to fail too. Two runs are needed for one to meet what the
other left, three pids for a forgotten server, its successor and one more. The
budget of six tokens cuts off the third header, so that a support title stands at
its boundary; the window of thirteen is passed by two full turns and not by one;
a batch of one on three workers is repeated more than once, and a batch of two on five
shows that it is repeated in its order. One gold title is stored in quotes for one query and
plain for another, so that what training hides from a row may be shown to it later. Of the three
questions one is hard for the base policy and recovers, one is easy, and one only
the specialists recover; two requests that differ
in seeds, limit and report let the second run find rows, checkpoints and markers
that it may, and may not, reuse. The older checkouts
hold versions that the migrations in the scripts name, several in one tree.

All bounds are constants: `MaxCrashes`, `MaxFailures`, `MaxLosses`,
`MaxInterrupts`, `MaxKills`, `MaxDeaths`, `MaxReuses`, `MaxUserStops`, `MaxEdits` and
`MaxFaults` bound the environment in the guards of its actions, `MaxRuns` the
number of runs, the others are sizes. In `ParallelJobs` only `Terminated` lets the
system stop, in `SearchRollout` only `Stopped`, the asset cache, the numbered
evaluation and the data preparation can always start another run. In
`ManagedServices`, `HardResults` and `SourcePatches` nothing is left to do after the
last run or driver, so their runs switch the deadlock check off; `RunsEnd` tells for
the first that nobody gets stuck before.

**Properties worth knowing.** Each is a conjunction of named parts where it has
several.

* `TrustedBytesAreVerified`: what a restart keeps *without hashing it again* is
  right. `KeepsItsPromise`: the refinement of `ResumableFetch`, and a downloaded part is
  deleted only once a restart can do without it (`NoVerifiedPartIsDropped`).
  `PartsAreAccounted`: the size is checked when every part is there once, and a
  commit that keeps no parts leaves none.
* `ChecksAreSound`: a check that takes no lock and reads five things one after the
  other is right at the moment it passes. `RecordsAreTrue`: manifest and marker agree
  with the disk. `ReusableStays`: repairing one component never withdraws another,
  even for a moment. `InstalledTreeIsAdopted`: the comment at
  `stackpilot/hard_assets.py:993`.
* `JobsAreAccounted`: each job is in one place, the coordinator's count is exact, and
  every put finds room (the comment at `stackpilot/hard_policy_eval.py:777`).
  `KeepsStreamPromise` is the refinement of `JobStream`; `FailureGetsOut` and
  `ThreadsEnd` say what a stuck worker may not hold up.
* `CompletionIsTrue`: the claim "the sole completion marker". `ReaderIsExact`: the
  report uses what it has digested, although it opens the file twice.
  `CheckpointIsSound`: only the last line is ever torn, and a row once fsynced stays.
* `ServersAreKnown`: *all* ways to forget a server are two windows of a few
  milliseconds; a stop that fails or is late still never leads to a second server,
  and an answer on a port comes from the server just launched.
* `RowsAreAligned`: the titles a row has seen are those of its own queries, no queue
  runs short or keeps a rest, and the router's counters count what was delivered.
  `TrainingMatchesEvaluation`: for the same texts the two loops end and count alike,
  and observe the same titles but for those that quotes hid from the row's own
  searches (`QuotesHideTitles`; see Findings). `RewardIsTheMetric`: the terminal reward is
  the metric the evaluator would report, less the gold titles that quotes hid, and
  zero exactly if the trajectory, counted anew from its texts and results
  (`Trajectory`), does not fit the trainer's window.
* `VerdictChangesInRenames`: what the test says of a cache changes in the renames of a
  preparation that can be met, and only another request's can break a cache
  that passes. `AcceptedInputsAreClean`: a check that opens its files one by one beside a
  preparation is right about the whole. `CoverageIsExact` compares the coverage in every
  file of an accepted cache, and the sums of its manifest, with the definition over the
  rows on disk and the whole corpus.
* `MarkersAreTrue`: the completion marker's counts and digests are those of the rows
  and checkpoints there, and only of them. `NoEpisodeIsRepeated` and
  `DurableRowsAreKept`: an answer is asked once for each identity and never lost,
  not even by archiving. `AcceptedIsMeasured`: the checkpoints and, last, the data that node 2
  finds in place when it reads them are those every accepted result was measured with.
  `ReportIsTrue` compares the report with definitions written from the protocol: pairs matched in both homes, the
  excess at home, the exact sign-flip test, Holm's adjustment as a maximum over
  subsets, the decision.
* `TrainsAsAsked`: whoever patched the tree before, and wherever a driver was killed, a
  training finds every fragment in place and the reward of its own mode.
  `PatchesAcceptTheirOwn`: only the reset ever refuses. `FingerprintIsStable`: two
  trainings of one mode sign the same sources, whatever ran before and in whichever order,
  unless mixed routing is still in one of them or only one has inherited the text of an
  older version's action protocol or environment block (`Inherited`). Both exceptions
  are real: such checkouts have different fingerprints and their trainings are not reused
  for one another.

### Fairness

* `E5Assembly`, `HardAssets`, `NumberedEvaluation`: weak fairness of the
  program's own steps *including the start of a run*. A started process goes on
  by itself; that an unfinished one is started again is the caller's part: the
  orchestrator retries the background prefetch in the foreground, and the
  documented way to go on after any failure is to run the same command again.
  Crashes, failures and losses are not fair and are bounded in number.
* `ParallelJobs`: each thread is scheduled; the coordinator is scheduled; a job
  outside `StuckJobs` ends, in one way or the other. Nothing is assumed of
  interrupts or of jobs in `StuckJobs`; `Ends` excepts the behaviours in which such
  a job never returns.
* `ManagedServices`: the scripts go on by themselves, and the deadline of
  `wait_for_http` passes (strong fairness of `LauncherFails`, since the loop
  alternates between two places). Nothing is assumed of any server, not even that
  it obeys SIGKILL in time.

* `DataPreparation`: weak fairness of the preparation, including its start: every
  training and evaluation starts with it. Derivations and checks are not fair.
* `SearchRollout`, `HardResults`, `SourcePatches`: safety only.

### Findings

* `search_rollout_quoted`: the training rollout renders raw retrieval results. Their
  header is the first line of `contents` (`stackpilot/observation_geometry.py:64`), which
  in the wiki-18 corpus is the title *in double quotes*; the evaluator renders the
  normalised result (`stackpilot/retrieval_clients.py:10-27`), without the quotes. A
  support title at the end of the budget is then observed in evaluation and cut off
  in training. `hard_rq0/README.md:105` says "Training and Hard-RQ0 evaluation share one
  token-budget renderer", and the test at `tests/test_observation_geometry.py:69` compares
  both with an unquoted title.
* `source_patches_reset`: `hard_rq0/patch_searchr1_seed.py:52-67` edits
  `verl/single_controller/ray/base.py`, which is missing from the known files of
  `experiments/reset_searchr1_experiment_files.sh:13-19`. After any bootstrap the reset
  refuses; `run_node2_queue.sh` bootstraps first and resets for every experiment, which
  `experiments/README.md:114` says to work as one command.

Four more disagreements are known. The models show them, and the properties are
stated so as to allow exactly them, but no run is spent on them any more:

* `assemble_e5` never looks at an installed index (`stackpilot/hard_assets.py:625`), so a run
  killed between the rename of the verified index and the manifest commit makes the
  next one fetch all parts again. `README.md:290` says a rerun "downloads or rebuilds
  only a missing or invalid component"; BM25 is adopted in the same situation.
* `run_worker` tests the stop event under `start_lock` and calls the worker after
  releasing it (`stackpilot/hard_policy_eval.py:729`); a failure in between sets stop and
  the call is still made. The comment at line 722 says that once stop is set "the user
  worker is never called".
* A launcher writes the pid file after it has started the server in a session of its
  own (`scripts/launch_vllm_bg.sh:19-21`). Interrupted in between, it leaves a server no
  later stop can find, and the next run rebuilds the environments under it.
  `scripts/run_all.sh:31` says "Never rebuild an environment while an older process is
  importing from it."
* `stop_managed_pid` asks for the leader alone before it turns to the group
  (`scripts/lib/runtime.sh:97`), so workers that outlive a leader are left running, and
  the pid file is removed. `scripts/run_full_pipeline.sh:186-187` says such processes are
  stopped before any bootstrap.

## 4. Proofs

A module `…Proofs` extends the module it is about. Each proves its theorems for
every value of the constants; the assumptions are those the model states of its
constants, and TLC evaluates them in every run. All have one shape: an inductive
invariant, whose conjuncts are defined and commented before the proof; a lemma that it
holds initially; one lemma for each action, or for each kind of step, that it is kept;
the theorem that it is invariant; and from it the properties of the runs. Its name
is `IInv` where a module has one; `SearchR1Proofs` has two, `CheckoutInv` and
`RolloutInv`, and calls the actions of the rollout `RolloutInit`, `RolloutNext` and
`RolloutSpec`. TLC checked each invariant on the run's own instance, too.

### `E5Assembly`

From `PartsAssumption` (there is at least one part and the ends grow) and
`EnvironmentAssumption` (leftovers are byte strings, unusable part lists are not
prefixes):

| Theorem | Says |
|---|---|
| `TypeCorrect` | `Spec => []TypeOK` |
| `PartsAccounted` | `Spec => []PartsAreAccounted`: also that a run which keeps no parts leaves none behind (`SweptBeforeCommit`) |
| `TrustedBytes` | `Spec => []TrustedBytesAreVerified` |
| `SizeCheckHolds` | `Spec => []CompleteBeforeInstall` |
| `OnlyTheIndexIsInstalled` | `Spec => InstallsOnlyTheIndex`: only the verified index is ever renamed to `e5_Flat.index` (proved only, no run repeats it) |
| `AssemblyKeepsItsPromise` | `Spec => KeepsItsPromise`: the refinement of `ResumableFetch`, and that no step drops a verified part its successor would need |

`TrustedBytesAreVerified` is not inductive: it speaks of the disk
alone, and a running process could extend a bad prefix or checkpoint the wrong
list. `IInv` adds, for a live run, that its list of parts is a prefix of the
pinned ones and `expectedPrefix` its size (`RunIsHonest`), how long the staging
file is at each place of the program (`StagingLength`), that during a copy the
bytes after the prefix are those of the part, or zeros if it is bad
(`CopyIsFaithful`), and how far the checkpoint may lag behind the list
(`CheckpointFollows`). With `IInv` the
size check cannot fail and the renamed file is the index. The refinement needs
one more invariant (a promoted index is accounted for until the state file is
cleared) because the rename and the removal of the state file are two steps
here and one in `ResumableFetch`.

### `HardAssets`

From `CacheAssumption` (`Nobody` is no download, there is an E5 part, leftovers are
of the kinds listed), for any number of downloads:

| Theorem | Says |
|---|---|
| `RecordsStayTrue` | `Spec => []RecordsAreTrue` |
| `ChecksStaySound` | `Spec => []ChecksAreSound`, of the lock-free check and of the one every preparation ends with |
| `NothingReusableIsLost` | `Spec => ReusableStays` |
| `NoTreeIsFetchedTwice` | `Spec => InstalledTreeIsAdopted` |

Only the holder of the lock is between two steps (`LockIsExclusive`), so what a download
saw in its survey still holds when it acts (`SurveyIsTrue`), and the manifest records
exactly what it is *not* going to build, under the marker (`ManifestMatches`); each
builder finds what its next rename needs (`PiecesAreReady`, `TargetIsMissing`,
`LinkIsRight`, `BackupsAreCounted`). Four callers reach `ensure_bm25_link`; the
invariant treats that detour as the place it returns to. For the check without the
lock, `CheckFollows` says that what it has looked at so far is valid or was damaged
since, although a download may have started, crashed and started again meanwhile:
no program step makes a valid component invalid.

### `ManagedServices`

From `ServicesAssumption`: each service is a program with a pid file of its own
(`Order` lists none twice and none is called like the programs that are no service),
and the markers for an absent or torn file are not pids.

| Theorem | Says |
|---|---|
| `ServersStayKnown` | `Spec => []ServersAreKnown` |
| `StrangersStaySafe` | `Spec => []StrangersAreSafe` |
| `EnvironmentStaysQuiet` | `Spec => []EnvironmentIsQuiet` |
| `CleanRunsLeaveNothing` | `Spec => []LeavesNothing` |
| `OnlyServersAreLost` | the history `lost`, which the four except, holds running servers only (proved only) |

The heart is `StopKnows`: what `stop_managed_pid`, step by step, may still rely on about
a pid it read some polls ago, for the run's own stop and for one by hand at the same
time. `StopsClear` follows the list of services down, as long as none of the calls has
failed; `LaunchedAreMine` says that between the check of the ports and the end of the
evaluations every server is lost or the launcher's own, and none of the services
still to come has been started; `PortsAreServed` and `CleanIsOver` close it.

### `ParallelJobs`

From `WindowAssumption`: the workers are finitely many and at least one, and the
window is as large as they are many.

| Theorem | Says |
|---|---|
| `JobsStayAccounted` | `Spec => []JobsAreAccounted`: each job in one place, every put finds room, `outstanding` exact |
| `PromiseIsKept` | `Spec => KeepsStreamPromise`: the refinement of `JobStream`, step by step |

`IInv` keeps the places of a job apart as *sets* (`Apart`, `OnlyTaken`, `NoneLost`) and
counts what is in flight by lengths (`Counted`); that `outstanding` is the number of
the jobs not yet gathered then follows by counting, with the library's theorems on
cardinality. `FailuresShow` says where a failure is before the coordinator has it,
`SentinelsComeLast` that the queue has room for the sentinels, also after a stop,
and `AllIsDone` what is true at the normal end, which is what `JobStream` asks of `End`.

### `NumberedEvaluation`

From `EvaluationAssumption`: the episodes are numbers without repetition in a fixed
order, `None` is no signature, a batch is not empty.

| Theorem | Says |
|---|---|
| `CompletionStaysTrue` | `Spec => []CompletionIsTrue` |
| `CheckpointStaysSound` | `Spec => []CheckpointIsSound` |
| `NothingIsEvaluatedTwice` | `Spec => NotEvaluatedTwice` |
| `ReaderStaysExact` | `Spec => ReaderIsExact` |

Between its two halves the rewriting of the cache has each row in the archive or in
memory (`RowsAreSafe`); from then on the file has lines of this run only
(`LinesAreCurrent`), the batch is part of what is cached and the rest is not
(`BatchIsCurrent`, `TodoIsTheRest`). `AppendIsFaithful` says how much of the batch
is in the file when an append is cut off at any byte, so that its repetition loses
nothing and only the last line is torn. A manifest stands only while no run is under
way (`ManifestIsLast`), and what the report has read of it was true when it was read
(`HeldWasTrue`), which is what makes its second opening of the file safe.

### `HardResults`

From `TableAssumption` (the tables list each question and top-k once, and some question),
`RequestAssumption` (there are finitely many requests; each has seeds, none twice, and asks
for a question at least) and nothing else: any requests, seeds, questions, number of
workers, runs, edits and faults. The last theorem has a hypothesis of its own,
`MeasuresAreNumbers`: what an episode measures is a number of each kind.

| Theorem | Says |
|---|---|
| `MarkersStayTrue` | `Spec => []MarkersAreTrue` |
| `EpisodesAreNotRepeated` | `Spec => []NoEpisodeIsRepeated` |
| `DurableRowsStay` | `Spec => DurableRowsAreKept` |
| `AcceptedStaysMeasured` | `Spec => AcceptedIsMeasured` |
| `ReportsStayTrue` | `MeasuresAreNumbers` implies `Spec => ReportIsTrue` |

A marker is written from what the first rows of the files say; that it holds for all
rows needs the whole run. `PlanIsSound` is about the steps a run has *left*: the data
come first, a training comes before its evaluation, the completion last. Then
`EvaluatedAreWhole`: each selected policy whose evaluation is not among the steps left
has the whole grid on disk, on the present data and with the present checkpoint, under
some version of the evaluator, since the code may be edited between two evaluations;
it is the comparison of the first rows at the end that makes those versions one.
A training may spoil what it says of its own policy only, whose evaluation is still to come;
and a marker stands only while no run is under way (`MarkerIsLast`), so a run can
change no file that a marker describes. Within an evaluation, `CacheIsKept` and
`DoneIsKept` tell, before and after the file is rewritten, that what is done, in the
file or in the checkpoint, is one and the same set of episodes, and that what will be
dropped has been archived, however often rows were appended twice or cut off. What node 2
holds was a true marker when it was read (`WatchIsSound`); that is enough, since what it
compares afterwards is compared with the marker and not with the disk. Lemmas on the
operators are of use elsewhere: what `Current` keeps and `Stale` drops (`CurrentRows`,
`DroppedRows`), where the steps of a run stand (`StepsInOrder`), that the grid does not
depend on how far a limit exceeds the questions (`GridIsAsked`).

`ReportsStayTrue` has two halves. *In time*, the report is made before the marker is
written that carries it: `ReportIsCurrent` says that in between only the completion is
left to do, and that the report is still that of the rows now on disk, which
form a valid frame. With what the completion promises (`CompletionPromisesFiles`), these
rows tabulate the marker (`TableOfMarker`): every policy, question, backend and top-k is
there and holds the measurement of the marker's own evaluation. *As arithmetic*, on such a
table what the code computes, joined cell by cell, is what the definitions say.
The matched units are those of the definition (`MatchedIsTrue`). The sign vectors whose
sum is no less than the observed one are as many as the sets of seeds with a sum that is
not positive (`SignFlipIs`). Going through the p-values in ascending order, each multiplied by
the number of hypotheses not yet passed and never below the one before, gives a maximum that
depends on the p-values alone and not on how ties are ordered (`HolmIs`), nor on the
order in which the cells are written (`HolmOfCells`). In the decision, the base policy
cancels out (`BaseCancels`), and the sums per stratum, weighted alike, are one sum over the
questions (`PerSeedIs`). The lemmas on `SumFunction` these need (scaling, joining,
grouping, renaming: `TotalScaled`, `TotalJoined`, `TotalGrouped`, `TotalRenamed`) start from
partial sums, whose existence is shown on a smallest set that has none (`FoldExists`).

### `SourcePatches` (`SearchR1Proofs`, Part I)

From `TreeAssumption`: the checkouts that older versions left are trees of known
versions that fit together (`Coherent`: a marker and the fragment it stands for), and
"refused" is no version.

| Theorem | Says |
|---|---|
| `TrainingsAreAsAsked` | `Spec => []TrainsAsAsked` |
| `PatchesAreAccepted` | `Spec => []PatchesAcceptTheirOwn` |
| `FingerprintStaysStable` | `Spec => []FingerprintIsStable` |

The invariant is about a driver's *remaining* steps: whenever it will come to the
preflight or the training, each patch its mode asks for is either a step still
ahead of that, undone by none after it, or done in the tree and undone by nothing
left (`PlanIsSound`). The plan of each driver is shown sound for *every* tree, so a
kill anywhere and another driver after it need no argument of their own. A lemma
for each script says what it makes of a coherent tree.

### `SearchRollout` (`SearchR1Proofs`, Part II)

From the assumptions on its constants: each backend has a ranking of documents for
each query it knows, and knows each query that the policy may ask; a plan has at least
one turn, one agent, one worker and one prompt; the window is a number. Nothing is assumed
of how many rows, turns, documents or tokens there are, nor of how the rows are spread
over the two backends.

| Theorem | Says |
|---|---|
| `RowsStayAligned` | `RolloutSpec => []RowsAreAligned` |
| `TrainingIsEvaluation` | `RolloutSpec => []TrainingMatchesEvaluation` |
| `OnlyQuotesHide` | `RolloutSpec => []OnlyQuotesAtTheBudgetHide`: if training and evaluation show a row different titles, one of its searches found a quoted title and a header that the budget has no room for (proved only) |
| `RewardIsTheEvaluators` | `RolloutSpec => []RewardIsTheMetric` |
| `EverySourceRowIsScored` | `RolloutSpec => []ValidationScoresEachRow` |
| `EveryEpisodeIsLegal` | the record of any script that ends, on any retriever, satisfies the episode contract (proved only) |

Nothing is assumed of the stored titles. In the real corpus they are quoted, and the run
`search_rollout_quoted` shows that `ObservationsMatch`, plain equality of what the two loops
observe, is false there. The theorems therefore say what is true of any corpus:
training observes no title that evaluation would not, evaluation observes those of
training and what quotes hid (`Hidden`) and nothing else, and the reward is below the
evaluator's metric by the gold titles so missed and by nothing else. `OnlyQuotesHide` bounds
the exception: where no title is quoted, or every header fits, nothing is hidden.

The inductive invariant `RolloutInv` compares each row with an episode: between turns a
row *follows* its script (`AtTheEnd`: it is where the evaluator's `RunEpisode` of the
script is, in every field that both keep, the observed titles up to those that quotes hide;
and its length and mark of truncation are those of the tokens of the whole script, `Cost`,
seen through the window, `Windowed`), and from the request to the execution an active
row follows its script but for the last text, on which it has still to act
(`BeforeLast`). It also keeps that the reply is in the order of the rows
(`Delivered`) and that the counters are one request ahead while a reply waits to be
executed (`CountedOnce`); without either, the step that hands the titles out would not be
inductive. The rest are types and places (`Typed`, `InPlace`, `Fresh`, `Assigned`).

The steps of the argument:

* *Two loops, one step* (`ActedMatches`, `ActedFollows`). A row and an episode that match
  still match after the same text, with results or on the forced final turn
  without; `RunGrows` and `GatheredGrows` unroll the recursion of the two over a script
  that is one text longer.
* *Quotes* (`QuotesOnlyHide`). Quotes make each header longer and change nothing else, so a
  budget that shows a header with them shows it without.
* *The router* (`RestoredIs`). The rows that search are a set, listed in order; the
  place of a row in the list of its backend is its rank there (`RankIs`,
  `InOrderIs`), and so its result in the restored reply is its own.
* *The shared queue* (`ExecutedIs`). By induction over the rows, the row whose turn it is finds
  its result at the head, whoever searched before it, and after the last row nothing is left.
* *The contract* (`SoundIsLegal`). `Sound` is an invariant of `RunEpisode` over its turns
  (`StepKeeps`); the summary of an episode that is sound and over passes each clause of the
  validator, those on recall, gain and recovery included.
* *The padding* (`PaddingIs`, `BatchIs`, `KeptIs`). What is repeated to fill the workers is
  what is cut off again, also when the batch is smaller than its padding.

Lists that the code filters are stated in the model as sets listed in order (`InOrder`), or by
the place of the first that passes, because the prover treats `SelectSeq` and `SortSeq` as
unknown operators. The order in which rank fusion lists its documents
stays a choice in the proofs: nothing proved depends on it.

### `DataPreparation`

From the assumptions on its constants: the datasets are a list without repetitions, none
named like the two shared directories; `Paths` lists each artifact once, in any order; a request
counts at least one row of each kind; the corpus and the splits are not empty, and a
support title is more than punctuation. For any datasets, rows, corpus, requests,
inputs, edits and kills:

| Theorem | Says |
|---|---|
| `ManifestsAreConsistent` | `Consistent = Feasible`: the contract and the coverage that `prepare` writes for a request it does not refuse pass the validator (proved only) |
| `AcceptedCacheStands` | `Spec => VerdictChangesInRenames` |
| `WhatIsPreparedIsAccepted` | `Spec => []PreparationIsAccepted` |
| `CoverageIsThatOfTheCorpus` | `Spec => []CoverageIsExact` |
| `TrainingInputsAreClean` | `Spec => []AcceptedInputsAreClean` |

The inductive invariant `DataInv` is short, because the three programs share little: each
file on disk was staged for a feasible request, and before the manifest is renamed the
files renamed so far are those of the running preparation (`PreparationInv`); what is
derived, recorded or on hold is a list of rows (`DerivationOK`); each of the inputs a
check has passed so far fits the contract of the manifest it holds (`CheckOK`), which need not
be the one on disk any more.

`AcceptedCacheStands` rests on a fact of the renames: a preparation writes bytes that
depend on its request alone, so one that repeats an accepted request changes no byte.

The work is in what the programs compute. `prepare` and its validator are separate
code: one cuts slices, shuffles, annotates and sums, the other recomputes the slices a request
should have, and compares counts, ids and sums. `ContractOfFeasible`,
`CoverageOfFeasible` and `OwnFilesPass` prove that the second never refuses the first.
`ScanIs` says that the scan of the corpus, which stops at the row where nothing is
missing any more, finds what a whole scan would; `EveryTitleOnce` and `CoveredCount`
that the loop over spellings counts each title once. `RecordedIds` says that the recorded ids
of a role are those of its rows although the training file is shuffled, and
`PublishedIsUsable` carries the test of a request, that no id and no question stands in two
roles, over to the rows that are published. `PassedIsClean` then reads off
what passed: the rows of a role, once, or once for each backend.

These are inductions over lists. The library's induction theorems take an operator as a
parameter and cannot be used, so the proofs go by sets: `Least` (a set of numbers has
a least element, from the well-foundedness of `<`), `Along` and `Upward` (what passes from each
place to the next holds at all of them). `FlattenSeq` and `FoldLeft` choose a function
that satisfies its own recursive equation; `JoinExists`, `SumExists` and `PairsExist`
show that there is one (there is no least length without), and `FlatIs`, `SumIs` and
`PairsAre` give its equations.

### What is only model-checked, and why

* *Liveness*: `EventuallyReady` (of both downloads), `RunsEnd`, `ThreadsEnd`, `FailureGetsOut`,
  `KeepsFinishing`, `PreparationEnds`. The proof system has no rule for fairness (`ENABLED`).

Every other property of the passing runs is stated by a theorem. `KeepsItsPromise` and
`KeepsStreamPromise` are refinements of the safety of `ResumableFetch` and `JobStream`;
what their actions owe in time is left to the liveness properties above.

## 5. Plan

1. *(done)* Asset cache, job window, numbered evaluation, managed services; the
   proofs about the E5 assembly.
2. *(done)* The policy's protocol, the rollout and the router; the preparation of the
   data; the Hard-RQ0 run with its results, report and node 2's watcher; the source
   patchers.
3. *(done)* The safety properties and the refinements of the asset cache, the job window,
   the numbered evaluation, the managed services, the Hard-RQ0 run, the source patchers,
   the rollout and the data preparation, as theorems, and with the Hard-RQ0 run the truth of
   its report.
4. The rest of the control flow: `scripts/run_full_pipeline.sh` (lock inherited by
   children, background groups, retry in the foreground), the launchers of `hard_rq0/`
   and `experiments/`, which reuse a running server after checking its identity, the
   locks and waits of the queue, `stackpilot/index_state.py`.

The project keeps to a dozen runs and forty properties, so that checking all of it
stays a matter of minutes. It is there already: what item 4 adds joins the run of a
module it composes with, or takes the place of the weakest property checked so far
(first `EnvironmentIsQuiet`, then safety properties that a theorem covers).

## 6. What is not modelled

* **Power loss.** A crash is the death of a process; what it wrote stays
  written. Loss of unsynced pages or of directory entries is left out.
* **Names no later step reads.** `.extracting` files, the temporary link and
  files named by pid, which are created and renamed within one action.
* **Verbatim copies of corrupt files** (`corrupt-*`), which no step reads.
* **Two writers of one evaluation directory.** The code does not lock it; the
  orchestrators start one at a time.
* **Damage during a download.** Damage happens between downloads only; nothing
  in the code could notice it earlier.
* **A tar staging file of the wrong size** is modelled and stops every rerun until
  somebody removes it; the tests ask for its retention. `EventuallyReady` of
  `HardAssets` therefore excepts it, and nothing else.
* **Disk space.** `HardAssets` counts the trees a crash leaves as backups, but no
  property bounds them or the downloaded parts beside the staging file.
* **Programs of the same checkout.** The identity check of `stop_managed_pid`
  compares the interpreter and the working directory, so a program of this
  checkout that gets the pid of a dead server is taken for the server ("kin" in the
  model); `StrangersAreSafe` speaks of all other programs.
* **Pid reuse within one stop.** The system is assumed not to hand out a pid again
  in the seconds between a stop's reading of the file and its last poll; between
  two stops it may. A second run of `run_all.sh` beside the first, which nothing
  prevents, is not modelled either.
* **The full pipeline's lock and jobs.** The lock of `scripts/run_full_pipeline.sh`,
  which background children inherit, and its synchronous retry beside running
  siblings; the locks, process groups and waits of `experiments/run_node2_queue.sh`.
* **Bootstrap caches and environments.** Commands that install, keyed by digests.
* **`stackpilot/index_state.py`, `prepare_hotpot.py`, `retrieval_matrix.py`, `policy_eval.py`**
  and the Stage 0 reports: single writers of single files.
* **The index servers** (BM25, FAISS, ColBERT): a search is a function in the model.
* **Statistics other than the primary decision**: bootstrap and *t* intervals, plots
  and tables of `hard_rq0_report.py`.
* **Half-written sources.** The patch scripts rewrite a file with `write_text`
  (`hard_rq0/patch_searchr1_seed.py:48`); a kill within that call, which leaves an empty or
  torn file, is left out: a kill falls between two writes.
* **Support titles that normalise to nothing** are excluded by `SourceAssumption` of
  `PreparedRows`; two spellings of one title are not.
* **Regular expressions and tokenizers.** Texts are sequences of blocks with lengths in
  tokens. Metrics on free text (F1, normalised exact match) are left out; an answer is
  right or wrong.
* **Network protocols.** A request is answered or fails.
* Components marked `not_modelled` in `PROJECT.json`, for the reasons there.
