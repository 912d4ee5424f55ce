------------------------------ MODULE E5Assembly ------------------------------
(***************************************************************************)
(* The incremental, restartable assembly of the E5 index                   *)
(* (stackpilot/hard_assets.py: assemble_e5, repair_e5_assembly_prefix, and *)
(* the manifest commit around them in _download).                          *)
(*                                                                         *)
(* A run downloads the pinned parts in order, appends each to a staging    *)
(* file, verifies the digest of what it copied, checkpoints the list of    *)
(* completed parts in a state file, and only then deletes the downloaded   *)
(* part.  When all parts are in, the staging file is renamed to the index. *)
(* The process may die between any two changes of the disk; the asset lock *)
(* (module HardAssets) keeps runs from overlapping, so one run at a time   *)
(* is modelled here, byte by byte.                                         *)
(*                                                                         *)
(* Byte k of the pinned index is the number k, and any wrong byte is 0.    *)
(***************************************************************************)
EXTENDS Naturals, Sequences, FiniteSets

CONSTANTS
  NumParts,     \* len(E5_PARTS)
  End,          \* End[p] is the size of parts 1..p together; End[0] = 0
  Leftovers,    \* staging contents other releases may have left behind
  OldStates,    \* unusable part lists other releases may have left behind
  OldIndexes,   \* what may be at e5_Flat.index before the first run
  KeepChoices,  \* values of keep_sources the runs are started with
  MaxCrashes, MaxFailures, MaxLosses   \* bounds on what the environment does

Parts == 1..NumParts
Total == End[NumParts]                  \* E5_INDEX_SIZE
Byte == 0..Total
PartSize(p) == End[p] - End[p - 1]

\* completed == valid_names[:len(completed)]
IsPartPrefix(names) ==
  /\ Len(names) <= NumParts
  /\ \A i \in 1..Len(names) : names[i] = i

ASSUME PartsAssumption ==
  /\ NumParts \in Nat \ {0}
  /\ End \in [0..NumParts -> Nat]
  /\ End[0] = 0
  /\ \A p, q \in 0..NumParts : p < q => End[p] < End[q]

ASSUME EnvironmentAssumption ==
  /\ <<>> \in Leftovers
  /\ Leftovers \subseteq Seq(Byte)
  /\ OldStates \subseteq Seq(Parts)
  /\ \A names \in OldStates : ~IsPartPrefix(names)
  /\ OldIndexes \subseteq Seq(Byte)
  /\ KeepChoices \subseteq BOOLEAN
  /\ MaxCrashes \in Nat /\ MaxFailures \in Nat /\ MaxLosses \in Nat

\* The pinned index, and whether a file holds exactly its first n bytes.
Index == [k \in 1..Total |-> k]
IsIndexPrefix(bytes, n) == \A k \in 1..n : bytes[k] = k

VARIABLES
  pc,             \* where the run is; "idle" when no run is alive
  keep,           \* keep_sources of the current run
  completed,      \* the run's list of verified parts
  expectedPrefix, \* the run's expected_prefix
  staged,         \* .e5_Flat.index.assembling exists
  staging,        \* its bytes (<<>> when it does not exist)
  checkpoint,     \* .e5-assembly.json's completed (<<>>: missing or foreign)
  source,         \* the downloaded file of each part
  target,         \* the bytes of e5_Flat.index (<<>> when missing)
  recorded,       \* the completion manifest has an E5 record
  crashes, failures, losses   \* how often each has happened

disk == <<staged, staging, checkpoint, source, target, recorded>>
run == <<keep, completed, expectedPrefix>>
budget == <<crashes, failures, losses>>
vars == <<pc, run, disk, budget>>

FileStates == {"absent", "good", "corrupt", "short"}
RunSteps == {"repair", "save", "fetch", "size", "copy", "verify", "discard",
             "checkpoint", "unlink", "install", "clear", "sweep", "commit"}

TypeOK ==
  /\ pc \in RunSteps \cup {"idle"}
  /\ keep \in BOOLEAN
  /\ completed \in Seq(Parts)
  /\ expectedPrefix \in Nat
  /\ staged \in BOOLEAN
  /\ staging \in Seq(Byte)
  /\ checkpoint \in Seq(Parts)
  /\ source \in [Parts -> FileStates]
  /\ target \in Seq(Byte)
  /\ recorded \in BOOLEAN
  /\ crashes \in 0..MaxCrashes
  /\ failures \in 0..MaxFailures
  /\ losses \in 0..MaxLosses

Init ==
  /\ pc = "idle"
  /\ keep = FALSE
  /\ completed = <<>>
  /\ expectedPrefix = 0
  /\ staging \in Leftovers
  /\ staged \in {TRUE, staging # <<>>}
  /\ checkpoint \in OldStates \cup {<<>>}
  /\ source = [p \in Parts |-> "absent"]
  /\ target \in OldIndexes          \* an unrecorded index is never adopted
  /\ recorded = FALSE
  /\ crashes = 0 /\ failures = 0 /\ losses = 0

-----------------------------------------------------------------------------
\* reusable_artifacts: the recorded index still has its size and edges.
Reusable == recorded /\ target = Index

NextPart == Len(completed) + 1
Fail == pc' = "idle"

\* Mutant of NextInLoop: the last part is not waited for.
NextButLast(done) == IF Len(done) + 1 >= NumParts THEN "install" ELSE "fetch"

\* The head of "for ... in E5_PARTS[len(completed) :]".
NextInLoop(done) == IF Len(done) = NumParts THEN "install" ELSE "fetch"

\* _download finds E5 missing: the manifest is rewritten without it.
Start ==
  /\ pc = "idle"
  /\ ~Reusable
  /\ keep' \in KeepChoices
  /\ recorded' = FALSE
  /\ pc' = "repair"
  /\ UNCHANGED <<completed, expectedPrefix, staged, staging, checkpoint,
                 source, target, budget>>

\* _download finds nothing missing and rewrites the same manifest.
Reuse ==
  /\ pc = "idle"
  /\ Reusable
  /\ UNCHANGED vars

\* The parts whose bytes the staging file can still be trusted to hold.
Surviving ==
  IF IsPartPrefix(checkpoint) /\ staged /\ Len(staging) >= End[Len(checkpoint)]
    THEN checkpoint
    ELSE <<>>

\* repair_e5_assembly_prefix: drop everything past the surviving parts.
Repair ==
  /\ pc = "repair"
  /\ completed' = Surviving
  /\ expectedPrefix' = End[Len(Surviving)]
  /\ staged' = TRUE
  /\ staging' = SubSeq(staging, 1, End[Len(Surviving)])
  /\ pc' = "save"
  /\ UNCHANGED <<keep, checkpoint, source, target, recorded, budget>>

\* atomic_json(state_path, ...) before the loop.
SaveState ==
  /\ pc = "save"
  /\ checkpoint' = completed
  /\ pc' = NextInLoop(completed)
  /\ UNCHANGED <<run, staged, staging, source, target, recorded, budget>>

\* hf_hub_download returns a file: one it already has, or a new transfer.
Fetch ==
  /\ pc = "fetch"
  /\ \/ /\ source' = [source EXCEPT ![NextPart] = "good"]
        /\ UNCHANGED failures
     \/ /\ source[NextPart] = "corrupt"
        /\ UNCHANGED <<source, failures>>
     \/ /\ source[NextPart] # "good"
        /\ failures < MaxFailures
        /\ failures' = failures + 1
        /\ \E bad \in {"corrupt", "short"} :
             source' = [source EXCEPT ![NextPart] = bad]
  /\ pc' = "size"
  /\ UNCHANGED <<run, staged, staging, checkpoint, target, recorded,
                 crashes, losses>>

\* hf_hub_download raises; the error ends the run.
FetchFails ==
  /\ pc = "fetch"
  /\ failures < MaxFailures
  /\ failures' = failures + 1
  /\ Fail
  /\ UNCHANGED <<run, disk, crashes, losses>>

CheckSize ==
  /\ pc = "size"
  /\ IF source[NextPart] = "short" THEN Fail ELSE pc' = "copy"
  /\ UNCHANGED <<run, disk, budget>>

\* copy_and_hash appends what the file holds, one chunk after another.
CopyByte ==
  LET copied == Len(staging) - expectedPrefix
      byte == IF source[NextPart] = "good" THEN End[NextPart - 1] + copied + 1
                                           ELSE 0
  IN /\ pc = "copy"
     /\ copied < PartSize(NextPart)
     /\ staging' = Append(staging, byte)
     /\ pc' = IF copied + 1 = PartSize(NextPart) THEN "verify" ELSE "copy"
     /\ UNCHANGED <<run, staged, checkpoint, source, target, recorded, budget>>

\* Mutants of Accept: the digest is not compared; the part is unlinked before
\* its checkpoint.
AcceptUnverified ==
  /\ pc = "verify"
  /\ expectedPrefix' = expectedPrefix + PartSize(NextPart)
  /\ completed' = Append(completed, NextPart)
  /\ pc' = "checkpoint"
  /\ UNCHANGED <<keep, disk, budget>>

AcceptThenUnlink ==
  /\ pc = "verify"
  /\ source[NextPart] = "good"
  /\ expectedPrefix' = expectedPrefix + PartSize(NextPart)
  /\ completed' = Append(completed, NextPart)
  /\ pc' = IF keep THEN "checkpoint" ELSE "unlink"
  /\ UNCHANGED <<keep, disk, budget>>

\* The digest of the copied bytes matches the pinned one.
Accept ==
  /\ pc = "verify"
  /\ source[NextPart] = "good"
  /\ expectedPrefix' = expectedPrefix + PartSize(NextPart)
  /\ completed' = Append(completed, NextPart)
  /\ pc' = "checkpoint"
  /\ UNCHANGED <<keep, disk, budget>>

\* It does not: cut the staging file back to the verified prefix ...
Reject ==
  /\ pc = "verify"
  /\ source[NextPart] # "good"
  /\ staging' = SubSeq(staging, 1, expectedPrefix)
  /\ pc' = "discard"
  /\ UNCHANGED <<run, staged, checkpoint, source, target, recorded, budget>>

\* Mutant of Discard: the rejected download stays in the cache.
DiscardNothing ==
  /\ pc = "discard"
  /\ Fail
  /\ UNCHANGED <<run, disk, budget>>

\* ... then delete the download and raise.
Discard ==
  /\ pc = "discard"
  /\ source' = [source EXCEPT ![NextPart] = "absent"]
  /\ Fail
  /\ UNCHANGED <<run, staged, staging, checkpoint, target, recorded, budget>>

Checkpoint ==
  /\ pc = "checkpoint"
  /\ checkpoint' = completed
  /\ pc' = IF keep THEN NextInLoop(completed) ELSE "unlink"
  /\ UNCHANGED <<run, staged, staging, source, target, recorded, budget>>

UnlinkPart ==
  /\ pc = "unlink"
  /\ source' = [source EXCEPT ![Len(completed)] = "absent"]
  /\ pc' = NextInLoop(completed)
  /\ UNCHANGED <<run, staged, staging, checkpoint, target, recorded, budget>>

\* The size check and os.replace(temporary, target).
Install ==
  /\ pc = "install"
  /\ Len(staging) = Total
  /\ target' = staging
  /\ staged' = FALSE
  /\ staging' = <<>>
  /\ pc' = "clear"
  /\ UNCHANGED <<run, checkpoint, source, recorded, budget>>

ClearState ==
  /\ pc = "clear"
  /\ checkpoint' = <<>>
  /\ pc' = IF keep THEN "commit" ELSE "sweep"
  /\ UNCHANGED <<run, staged, staging, source, target, recorded, budget>>

\* The final loop over E5_PARTS: unlink(missing_ok=True), one at a time.
Sweep ==
  /\ pc = "sweep"
  /\ IF \A p \in Parts : source[p] = "absent"
       THEN pc' = "commit" /\ UNCHANGED source
       ELSE /\ pc' = "sweep"
            /\ \E p \in Parts :
                 /\ source[p] # "absent"
                 /\ \A q \in 1..(p - 1) : source[q] = "absent"
                 /\ source' = [source EXCEPT ![p] = "absent"]
  /\ UNCHANGED <<run, staged, staging, checkpoint, target, recorded, budget>>

\* _download records the new index in the completion manifest.
Commit ==
  /\ pc = "commit"
  /\ recorded' = TRUE
  /\ pc' = "idle"
  /\ UNCHANGED <<run, staged, staging, checkpoint, source, target, budget>>

-----------------------------------------------------------------------------
\* The process dies between two changes of the disk.
Crash ==
  /\ pc # "idle"
  /\ crashes < MaxCrashes
  /\ crashes' = crashes + 1
  /\ pc' = "idle"
  /\ UNCHANGED <<run, disk, failures, losses>>

\* Between runs somebody deletes or damages what is on the disk.
LoseStaging ==
  /\ pc = "idle"
  /\ losses < MaxLosses
  /\ losses' = losses + 1
  /\ staged /\ staged' \in BOOLEAN
  /\ staging' = <<>>
  /\ UNCHANGED <<pc, run, checkpoint, source, target, recorded,
                 crashes, failures>>

LoseTarget ==
  /\ pc = "idle"
  /\ losses < MaxLosses
  /\ losses' = losses + 1
  /\ target # <<>>
  /\ target' = <<>>
  /\ UNCHANGED <<pc, run, staged, staging, checkpoint, source, recorded,
                 crashes, failures>>

\* Everything the program itself does; starting a run is the caller's part.
Step ==
  \/ Start \/ Reuse \/ Repair \/ SaveState \/ Fetch \/ FetchFails
  \/ CheckSize \/ CopyByte \/ Accept \/ Reject \/ Discard \/ Checkpoint
  \/ UnlinkPart \/ Install \/ ClearState \/ Sweep \/ Commit

Next == Step \/ Crash \/ LoseStaging \/ LoseTarget

Spec == Init /\ [][Next]_vars

\* A started run goes on, and an unfinished one is started again.
FairSpec == Spec /\ WF_vars(Step)

-----------------------------------------------------------------------------
(* Properties *)

\* Whatever a restarted run would keep of the staging file is, byte for byte,
\* the beginning of the pinned index: a crash in the middle of a copy, of a
\* rollback or between a copy and its checkpoint never lets an unverified byte
\* be trusted (repair_e5_assembly_prefix keeps bytes it does not hash again).
TrustedBytesAreVerified == IsIndexPrefix(staging, End[Len(Surviving)])

\* The size check before the rename never fails: by then the run has appended
\* every part exactly once, whatever earlier runs left in the staging file.
CompleteBeforeInstall == pc = "install" => Len(staging) = Total

\* Without --keep-source-archives a finished run leaves no downloaded part.
SweptBeforeCommit ==
  pc = "commit" /\ ~keep => \A p \in Parts : source[p] = "absent"

\* Every part is in the index once and, unless it is to be kept, its download
\* is nowhere else when the run ends.
PartsAreAccounted == TypeOK /\ CompleteBeforeInstall /\ SweptBeforeCommit

\* Only the whole, verified index ever becomes e5_Flat.index.
InstallsOnlyTheIndex ==
  [][target' # target /\ target' # <<>> => target' = Index]_vars

\* A verified download is deleted only once its bytes survive a restart, either
\* behind the checkpoint or in the installed index.
NoVerifiedPartIsDropped ==
  [][\A p \in Parts :
       source[p] = "good" /\ source'[p] = "absent" =>
         p <= Len(Surviving') \/ target' = Index]_vars

\* Progress is lost only to the environment: no crash, failed download or
\* rejected part makes a restarted run repeat a part it had checkpointed, or
\* download again one that it had verified.
Promise == INSTANCE ResumableFetch WITH verified <- Len(Surviving),
                                        installed <- (target = Index)
KeepsItsPromise == Promise!FSpec /\ NoVerifiedPartIsDropped

\* With finitely many crashes, failed downloads and losses the index ends up
\* installed and recorded for good.
EventuallyReady == <>[](recorded /\ target = Index)
=============================================================================
