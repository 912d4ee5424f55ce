------------------------------ MODULE HardAssets ------------------------------
(***************************************************************************)
(* The full-wiki asset cache (stackpilot/hard_assets.py): downloads that   *)
(* may be started by the background prefetch and by the foreground retry,  *)
(* exclude each other with the asset lock, install three components one    *)
(* after the other, and record each in the completion manifest; and the    *)
(* validity checks of other processes, which take no lock.                 *)
(*                                                                         *)
(* A download may die between any two changes of the disk; the kernel then *)
(* frees the flock.  File contents are abstracted to what the validators   *)
(* tell apart, and the assembly of the E5 index to ResumableFetch, which   *)
(* E5Assembly implements.                                                  *)
(***************************************************************************)
EXTENDS Naturals, Sequences

CONSTANTS
  Downloads,      \* processes that run "hard_assets download"
  E5Parts,        \* number of parts of the E5 index
  OldStagings,    \* corpus staging files earlier releases may have left
  OldLinks,       \* what may be at the bm25 compatibility path at first
  MaxCrashes, MaxFailures, MaxLosses

Nobody == "nobody"

ASSUME CacheAssumption ==
  /\ Nobody \notin Downloads
  /\ E5Parts \in Nat \ {0}
  /\ OldStagings \subseteq {"absent", "partial", "whole", "tar", "cut tar"}
  /\ OldLinks \subseteq {"absent", "canonical", "stale", "tree"}
  /\ MaxCrashes \in Nat /\ MaxFailures \in Nat /\ MaxLosses \in Nat

Components == {"corpus", "bm25", "e5"}
Order == <<"corpus", "bm25", "e5">>

VARIABLES
  lock,        \* the process that holds .hard-rq0-assets.lock, or Nobody
  pc,          \* where each download is
  missing,     \* the components each download still has to build
  then,        \* where each download goes on after ensure_bm25_link
  backedUp,    \* what each download has renamed to a backup of its own
  recorded,    \* components with an artifact record in the manifest
  corpus,      \* wiki-18.jsonl: "absent" or "good"
  staging,     \* .wiki-18.jsonl.decompressing
  archive,     \* wiki-18.jsonl.gz
  tree,        \* bm25-pinned-<revision>: "absent", "good" or "bad"
  treeStaging, \* .bm25-download-<revision>
  backups,     \* old trees renamed out of the way and not yet removed
  link,        \* the bm25 compatibility link, or the legacy tree in its place
  e5Verified, e5Installed,   \* the E5 index, as ResumableFetch sees it
  marker,      \* .hard-rq0-assets-incomplete exists
  damaged,     \* components lost from outside since they were last recorded
  seen, cpc,   \* the lock-free check: the manifest it read, and its place
  crashes, failures, losses

disk == <<recorded, corpus, staging, archive, tree, treeStaging, backups, link,
          e5Verified, e5Installed, marker>>
local == <<missing, then, backedUp>>
checker == <<seen, cpc>>
budget == <<crashes, failures, losses>>
vars == <<lock, pc, local, disk, damaged, checker, budget>>

E5 == INSTANCE ResumableFetch WITH
        NumParts <- E5Parts, verified <- e5Verified, installed <- e5Installed

\* What the cheap validators of reusable_artifacts accept on the disk.
Valid(c) == \/ c = "corpus" /\ corpus = "good"
            \/ c = "bm25"   /\ tree = "good"
            \/ c = "e5"     /\ e5Installed

Reusable == {c \in recorded : Valid(c)}

\* What check(root) asks of the manifest, the components and the link.
Ready == Reusable = Components /\ link = "canonical"

Places == {"out", "survey", "link", "relink", "unlegacy", "plan", "mark", "declare", "next",
           "corpus", "recover", "archive", "verify", "extract", "inflate",
           "promote", "tidy", "bm25", "adopt", "snapshot", "hash", "set aside",
           "swap", "drop", "e5", "commit", "last check", "clean"}

TypeOK ==
  /\ lock \in Downloads \cup {Nobody}
  /\ pc \in [Downloads -> Places]
  /\ missing \in [Downloads -> SUBSET Components]
  /\ then \in [Downloads -> Places]
  /\ backedUp \in [Downloads -> SUBSET {"tree", "link"}]
  /\ recorded \subseteq Components
  /\ corpus \in {"absent", "good"}
  /\ staging \in {"absent", "partial", "whole", "tar", "cut tar"}
  /\ archive \in {"absent", "good", "bad"}
  /\ tree \in {"absent", "good", "bad"}
  /\ treeStaging \in {"absent", "partial", "good"}
  /\ backups \in Nat
  /\ link \in {"absent", "canonical", "stale", "tree"}
  /\ e5Verified \in 0..E5Parts /\ e5Installed \in BOOLEAN
  /\ marker \in BOOLEAN
  /\ damaged \subseteq Components
  /\ seen \subseteq Components
  /\ cpc \in {"idle", "corpus", "bm25", "e5", "link", "passed"}
  /\ crashes \in 0..MaxCrashes
  /\ failures \in 0..MaxFailures
  /\ losses \in 0..MaxLosses

Init ==
  /\ lock = Nobody
  /\ pc = [p \in Downloads |-> "out"]
  /\ missing = [p \in Downloads |-> {}]
  /\ then = [p \in Downloads |-> "out"]
  /\ backedUp = [p \in Downloads |-> {}]
  /\ recorded = {} /\ corpus = "absent" /\ archive = "absent"
  /\ staging \in OldStagings
  /\ tree = "absent" /\ treeStaging = "absent" /\ backups = 0
  /\ link \in OldLinks
  /\ e5Verified = 0 /\ e5Installed = FALSE
  /\ marker = FALSE /\ damaged = {}
  /\ seen = {} /\ cpc = "idle"
  /\ crashes = 0 /\ failures = 0 /\ losses = 0

-----------------------------------------------------------------------------
(* _download: survey, then build what is missing                           *)

At(p, place) == pc[p] = place
Goes(p, place) == pc' = [pc EXCEPT ![p] = place]
Raises(p) == Goes(p, "out") /\ lock' = Nobody

\* What a step of a download leaves alone, besides what it names.
Frame == UNCHANGED <<damaged, checker, crashes, losses>>
KeepsLock == UNCHANGED lock

\* Mutant of Acquire: the lock is not waited for.
AcquireAtOnce(p) ==
  /\ At(p, "out")
  /\ lock' = p
  /\ Goes(p, "survey")
  /\ UNCHANGED <<local, disk, failures>> /\ Frame

\* asset_download_lock: flock(LOCK_EX) waits until the lock is free.
Acquire(p) ==
  /\ At(p, "out") /\ lock = Nobody
  /\ lock' = p
  /\ Goes(p, "survey")
  /\ UNCHANGED <<local, disk, failures>> /\ Frame

\* reusable_artifacts, and the link repair for a reusable BM25 tree.
Survey(p) ==
  /\ At(p, "survey")
  /\ missing' = [missing EXCEPT ![p] = Components \ Reusable]
  /\ then' = [then EXCEPT ![p] = "plan"]
  /\ Goes(p, IF "bm25" \in Reusable THEN "link" ELSE "plan")
  /\ UNCHANGED <<backedUp, disk, failures>> /\ Frame /\ KeepsLock

\* Nothing missing: rewrite the manifest and check.  Otherwise see to the free
\* space, which may not suffice, and go on.
Plan(p) ==
  /\ At(p, "plan")
  /\ \/ /\ missing[p] = {}
        /\ recorded' = Components
        /\ Goes(p, "last check")
        /\ UNCHANGED failures /\ KeepsLock
     \/ /\ missing[p] # {}
        /\ Goes(p, "mark")
        /\ UNCHANGED <<recorded, failures>> /\ KeepsLock
     \/ /\ missing[p] # {} /\ failures < MaxFailures
        /\ failures' = failures + 1
        /\ Raises(p)
        /\ UNCHANGED recorded
  /\ UNCHANGED <<local, corpus, staging, archive, tree, treeStaging, backups,
                 link, e5Verified, e5Installed, marker>> /\ Frame

\* The incomplete marker is written before the manifest drops anything.
Mark(p) ==
  /\ At(p, "mark")
  /\ marker' = TRUE
  /\ Goes(p, "declare")
  /\ UNCHANGED <<local, recorded, corpus, staging, archive, tree, treeStaging,
                 backups, link, e5Verified, e5Installed, failures>>
  /\ Frame /\ KeepsLock

\* Mutant of Declare: the manifest names what is still to be built.
DeclareAll(p) ==
  /\ At(p, "declare")
  /\ recorded' = Components
  /\ Goes(p, "next")
  /\ UNCHANGED <<local, corpus, staging, archive, tree, treeStaging, backups,
                 link, e5Verified, e5Installed, marker, failures>>
  /\ Frame /\ KeepsLock

Declare(p) ==
  /\ At(p, "declare")
  /\ recorded' = Components \ missing[p]
  /\ Goes(p, "next")
  /\ UNCHANGED <<local, corpus, staging, archive, tree, treeStaging, backups,
                 link, e5Verified, e5Installed, marker, failures>>
  /\ Frame /\ KeepsLock

\* The first component of the fixed order that is still missing.
Current(p) == Order[CHOOSE i \in 1..3 :
                /\ Order[i] \in missing[p]
                /\ \A k \in 1..(i - 1) : Order[k] \notin missing[p]]

BuildNext(p) ==
  /\ At(p, "next")
  /\ Goes(p, IF missing[p] = {} THEN "last check" ELSE Current(p))
  /\ UNCHANGED <<local, disk, failures>> /\ Frame /\ KeepsLock

\* atomic_json(manifest) after each component; BM25's link is then re-ensured.
Commit(p) ==
  /\ At(p, "commit")
  /\ recorded' = recorded \cup {Current(p)}
  /\ damaged' = damaged \ {Current(p)}
  /\ missing' = [missing EXCEPT ![p] = @ \ {Current(p)}]
  /\ then' = [then EXCEPT ![p] = "next"]
  /\ Goes(p, IF Current(p) = "bm25" THEN "link" ELSE "next")
  /\ UNCHANGED <<backedUp, corpus, staging, archive, tree, treeStaging, backups,
                 link, e5Verified, e5Installed, marker, checker, budget>>
  /\ KeepsLock

\* check(root) at the end, ...
LastCheck(p) ==
  /\ At(p, "last check")
  /\ IF Ready THEN Goes(p, "clean") /\ KeepsLock ELSE Raises(p)
  /\ UNCHANGED <<local, disk, failures>> /\ Frame

\* ... and the marker goes; the lock is released on return.
Clean(p) ==
  /\ At(p, "clean")
  /\ marker' = FALSE
  /\ Raises(p)
  /\ UNCHANGED <<local, recorded, corpus, staging, archive, tree, treeStaging,
                 backups, link, e5Verified, e5Installed, failures>>
  /\ Frame

-----------------------------------------------------------------------------
(* ensure_bm25_link                                                        *)

LinkFrame == UNCHANGED <<missing, then, recorded, corpus, staging, archive, tree,
                         treeStaging, e5Verified, e5Installed, marker>> /\ Frame

\* Mutant of Link: any link will do.
LinkOfAnyKind(p) ==
  /\ At(p, "link")
  /\ IF link # "absent"
       THEN Goes(p, then[p]) /\ UNCHANGED link
       ELSE Goes(p, "relink") /\ link' = "absent"
  /\ UNCHANGED <<backedUp, backups, failures>> /\ LinkFrame /\ KeepsLock

\* Remove what is at the compatibility path, unless it is right already; a
\* legacy tree is only renamed ...
Link(p) ==
  /\ At(p, "link")
  /\ IF link = "canonical"
       THEN Goes(p, then[p]) /\ UNCHANGED <<link, backedUp, backups>>
       ELSE /\ Goes(p, "relink")
            /\ link' = "absent"
            /\ IF link = "tree"
                 THEN /\ backups' = backups + 1
                      /\ backedUp' = [backedUp EXCEPT ![p] = @ \cup {"link"}]
                 ELSE UNCHANGED <<backedUp, backups>>
  /\ UNCHANGED failures /\ LinkFrame /\ KeepsLock

\* ... then rename a fresh symlink into its place.  When that fails, the legacy
\* tree is put back.
Relink(p) ==
  /\ At(p, "relink")
  /\ \/ /\ link' = "canonical"
        /\ Goes(p, IF "link" \in backedUp[p] THEN "unlegacy" ELSE then[p])
        /\ KeepsLock
        /\ UNCHANGED <<backedUp, backups, failures>>
     \/ /\ failures < MaxFailures
        /\ failures' = failures + 1
        /\ IF "link" \in backedUp[p]
             THEN link' = "tree" /\ backups' = backups - 1
             ELSE UNCHANGED <<link, backups>>
        /\ backedUp' = [backedUp EXCEPT ![p] = {}]
        /\ Raises(p)
  /\ LinkFrame

\* The unverified legacy tree goes last.
RemoveLegacy(p) ==
  /\ At(p, "unlegacy")
  /\ backups' = backups - 1
  /\ backedUp' = [backedUp EXCEPT ![p] = @ \ {"link"}]
  /\ Goes(p, then[p])
  /\ UNCHANGED <<link, failures>> /\ LinkFrame /\ KeepsLock

-----------------------------------------------------------------------------
(* decompress_corpus                                                       *)

CorpusFrame == UNCHANGED <<local, recorded, tree, treeStaging, backups, link,
                           e5Verified, e5Installed, marker>> /\ Frame

\* What an earlier run left in the staging file decides how to begin.  A tar of
\* the wrong size raises and is left alone.
Corpus(p) ==
  /\ At(p, "corpus")
  /\ \/ staging = "tar"     /\ Goes(p, "recover") /\ UNCHANGED staging /\ KeepsLock
     \/ staging = "cut tar" /\ Raises(p)          /\ UNCHANGED staging
     \/ staging = "whole"   /\ Goes(p, "promote") /\ UNCHANGED staging /\ KeepsLock
     \/ /\ staging \in {"partial", "absent"}
        /\ staging' = "absent"
        /\ Goes(p, "archive")
        /\ KeepsLock
  /\ UNCHANGED <<corpus, archive, failures>> /\ CorpusFrame

\* _recover_legacy_tar_corpus: the extracted member replaces the tar.
Recover(p) ==
  /\ At(p, "recover")
  /\ staging' = "whole"
  /\ Goes(p, "promote")
  /\ UNCHANGED <<corpus, archive, failures>> /\ CorpusFrame /\ KeepsLock

\* hf_hub_download of the archive, when there is none: it may raise, or bring
\* a file that does not have the pinned digest.
FetchArchive(p) ==
  /\ At(p, "archive")
  /\ \/ /\ archive # "absent"
        /\ Goes(p, "verify") /\ KeepsLock
        /\ UNCHANGED <<archive, failures>>
     \/ /\ archive = "absent"
        /\ archive' = "good"
        /\ Goes(p, "verify") /\ KeepsLock
        /\ UNCHANGED failures
     \/ /\ archive = "absent" /\ failures < MaxFailures
        /\ failures' = failures + 1
        /\ \/ archive' = "bad" /\ Goes(p, "verify") /\ KeepsLock
           \/ UNCHANGED archive /\ Raises(p)
  /\ UNCHANGED <<corpus, staging>> /\ CorpusFrame

\* Mutant of VerifyArchive: the wrong archive is left in place.
VerifyArchiveOnly(p) ==
  /\ At(p, "verify")
  /\ IF archive = "good" THEN Goes(p, "extract") /\ KeepsLock ELSE Raises(p)
  /\ UNCHANGED <<corpus, staging, archive, failures>> /\ CorpusFrame

\* verify_file; a wrong archive is deleted before the error goes out.
VerifyArchive(p) ==
  /\ At(p, "verify")
  /\ IF archive = "good"
       THEN Goes(p, "extract") /\ KeepsLock /\ UNCHANGED archive
       ELSE Raises(p) /\ archive' = "absent"
  /\ UNCHANGED <<corpus, staging, failures>> /\ CorpusFrame

\* The extraction grows the staging file ...
Extract(p) ==
  /\ At(p, "extract")
  /\ staging' = "partial"
  /\ Goes(p, "inflate")
  /\ UNCHANGED <<corpus, archive, failures>> /\ CorpusFrame /\ KeepsLock

\* ... until it is whole and has passed _validate_expected_corpus.
Inflate(p) ==
  /\ At(p, "inflate")
  /\ staging' = "whole"
  /\ Goes(p, "promote")
  /\ UNCHANGED <<corpus, archive, failures>> /\ CorpusFrame /\ KeepsLock

\* os.replace(temporary, target)
Promote(p) ==
  /\ At(p, "promote")
  /\ corpus' = IF staging = "whole" THEN "good" ELSE "absent"
  /\ staging' = "absent"
  /\ Goes(p, "tidy")
  /\ UNCHANGED <<archive, failures>> /\ CorpusFrame /\ KeepsLock

\* The archive goes, unless --keep-source-archives.
Tidy(p) ==
  /\ At(p, "tidy")
  /\ archive' \in {archive, "absent"}
  /\ Goes(p, "commit")
  /\ UNCHANGED <<corpus, staging, failures>> /\ CorpusFrame /\ KeepsLock

-----------------------------------------------------------------------------
(* download_bm25                                                           *)

TreeFrame == UNCHANGED <<missing, recorded, corpus, staging, archive, link,
                         e5Verified, e5Installed, marker>> /\ Frame

\* Mutant of Bm25: an installed tree is never adopted.
Bm25Anew(p) ==
  /\ At(p, "bm25")
  /\ Goes(p, "snapshot")
  /\ UNCHANGED <<then, backedUp, tree, treeStaging, backups, failures>>
  /\ TreeFrame /\ KeepsLock

\* An installed tree with the pinned hashes is adopted, link first.
Bm25(p) ==
  /\ At(p, "bm25")
  /\ IF tree = "good"
       THEN Goes(p, "link") /\ then' = [then EXCEPT ![p] = "adopt"]
       ELSE Goes(p, "snapshot") /\ UNCHANGED then
  /\ UNCHANGED <<backedUp, tree, treeStaging, backups, failures>>
  /\ TreeFrame /\ KeepsLock

Adopt(p) ==
  /\ At(p, "adopt")
  /\ treeStaging' = "absent"
  /\ Goes(p, "commit")
  /\ UNCHANGED <<then, backedUp, tree, backups, failures>>
  /\ TreeFrame /\ KeepsLock

\* snapshot_download resumes in the stable staging directory.
Snapshot(p) ==
  /\ At(p, "snapshot")
  /\ \/ /\ treeStaging' = "good"
        /\ Goes(p, "set aside") /\ KeepsLock
        /\ UNCHANGED failures
     \/ /\ failures < MaxFailures
        /\ failures' = failures + 1
        /\ treeStaging' = "partial"
        /\ Raises(p)
  /\ UNCHANGED <<then, backedUp, tree, backups>> /\ TreeFrame

\* canonical.replace(canonical_backup), when something is at its place.
SetAside(p) ==
  /\ At(p, "set aside")
  /\ tree' = "absent"
  /\ backups' = IF tree = "absent" THEN backups ELSE backups + 1
  /\ backedUp' = [backedUp EXCEPT ![p] = IF tree = "absent" THEN {} ELSE {"tree"}]
  /\ Goes(p, "swap")
  /\ UNCHANGED <<then, treeStaging, failures>> /\ TreeFrame /\ KeepsLock

\* staging.replace(canonical), then the link ...
Swap(p) ==
  /\ At(p, "swap")
  /\ tree' = IF treeStaging = "good" THEN "good" ELSE "bad"
  /\ treeStaging' = "absent"
  /\ then' = [then EXCEPT ![p] = "drop"]
  /\ Goes(p, "link")
  /\ UNCHANGED <<backedUp, backups, failures>> /\ TreeFrame /\ KeepsLock

\* ... or the rename fails, and the old tree is put back.
SwapFails(p) ==
  /\ At(p, "swap")
  /\ failures < MaxFailures
  /\ failures' = failures + 1
  /\ IF backedUp[p] = {}
       THEN UNCHANGED <<tree, backups>>
       ELSE tree' = "bad" /\ backups' = backups - 1
  /\ backedUp' = [backedUp EXCEPT ![p] = {}]
  /\ Raises(p)
  /\ UNCHANGED <<then, treeStaging>> /\ TreeFrame

DropBackup(p) ==
  /\ At(p, "drop")
  /\ backups' = IF "tree" \in backedUp[p] THEN backups - 1 ELSE backups
  /\ backedUp' = [backedUp EXCEPT ![p] = {}]
  /\ Goes(p, "commit")
  /\ UNCHANGED <<then, tree, treeStaging, failures>> /\ TreeFrame /\ KeepsLock

-----------------------------------------------------------------------------
(* assemble_e5, through the promise that E5Assembly implements             *)

E5Frame == UNCHANGED <<local, recorded, corpus, staging, archive, tree,
                       treeStaging, backups, link, marker, damaged, checker,
                       crashes>>

AssembleE5(p) ==
  /\ At(p, "e5")
  /\ \/ E5!VerifyPart /\ Goes(p, "e5")     /\ KeepsLock /\ UNCHANGED failures
     \/ E5!InstallAll /\ Goes(p, "commit") /\ KeepsLock /\ UNCHANGED failures
     \/ /\ failures < MaxFailures
        /\ failures' = failures + 1
        /\ Raises(p)
        /\ UNCHANGED <<e5Verified, e5Installed, losses>>
  /\ E5Frame

-----------------------------------------------------------------------------
(* What else happens                                                       *)

\* The process is killed; the kernel releases its flock.
Crash(p) ==
  /\ ~At(p, "out")
  /\ crashes < MaxCrashes
  /\ crashes' = crashes + 1
  /\ Raises(p)
  /\ backedUp' = [backedUp EXCEPT ![p] = {}]
  /\ UNCHANGED <<missing, then, disk, damaged, checker, failures, losses>>

\* Between downloads, somebody deletes or damages an installed component.
Damage(c) ==
  /\ lock = Nobody
  /\ losses < MaxLosses
  /\ Valid(c)
  /\ damaged' = damaged \cup {c}
  /\ corpus' = IF c = "corpus" THEN "absent" ELSE corpus
  /\ IF c = "bm25" THEN tree' \in {"absent", "bad"} ELSE UNCHANGED tree
  /\ IF c = "e5"
       THEN E5!Lose /\ ~e5Installed'
       ELSE losses' = losses + 1 /\ UNCHANGED <<e5Verified, e5Installed>>
  /\ UNCHANGED <<lock, pc, local, recorded, staging, archive, treeStaging,
                 backups, link, marker, checker, crashes, failures>>

\* check(root) in a process that holds no lock: it reads the manifest once ...
CheckReads ==
  /\ cpc \in {"idle", "passed"}
  /\ seen' = recorded
  /\ cpc' = "corpus"
  /\ UNCHANGED <<lock, pc, local, disk, damaged, budget>>

\* ... looks at one component after the other, and then at the link.
AfterCheckOf == [corpus |-> "bm25", bm25 |-> "e5", e5 |-> "link"]

CheckComponent ==
  /\ cpc \in Components
  /\ cpc' = IF cpc \in seen /\ Valid(cpc) THEN AfterCheckOf[cpc] ELSE "idle"
  /\ UNCHANGED <<lock, pc, local, disk, damaged, seen, budget>>

CheckLink ==
  /\ cpc = "link"
  /\ cpc' = IF link = "canonical" /\ tree # "absent" THEN "passed" ELSE "idle"
  /\ UNCHANGED <<lock, pc, local, disk, damaged, seen, budget>>

Step(p) ==
  \/ Acquire(p) \/ Survey(p) \/ Plan(p) \/ Mark(p) \/ Declare(p)
  \/ BuildNext(p) \/ Commit(p) \/ LastCheck(p) \/ Clean(p)
  \/ Link(p) \/ Relink(p) \/ RemoveLegacy(p)
  \/ Corpus(p) \/ Recover(p) \/ FetchArchive(p) \/ VerifyArchive(p)
  \/ Extract(p) \/ Inflate(p) \/ Promote(p) \/ Tidy(p)
  \/ Bm25(p) \/ Adopt(p) \/ Snapshot(p) \/ SetAside(p) \/ Swap(p)
  \/ SwapFails(p) \/ DropBackup(p) \/ AssembleE5(p)

Check == CheckReads \/ CheckComponent \/ CheckLink

Next ==
  \/ \E p \in Downloads : Step(p) \/ Crash(p)
  \/ \E c \in Components : Damage(c)
  \/ Check

Spec == Init /\ [][Next]_vars

\* An interrupted or failed download is started again (the background prefetch
\* is retried in the foreground, and reruns of the pipeline retry both).
FairSpec == Spec /\ WF_vars(\E p \in Downloads : Step(p))

-----------------------------------------------------------------------------
(* Properties *)

\* The manifest vouches only for what is there: whichever step a download dies
\* at, a recorded component is valid unless it was damaged after its record
\* was written (the builders install first and record afterwards).
ManifestIsHonest == \A c \in recorded : Valid(c) \/ c \in damaged

\* The check takes no lock and looks at the components one by one, while
\* downloads may be rewriting the manifest; when it passes, every component is
\* valid at that moment, save for outside damage.
CheckIsSound ==
  cpc = "passed" => \A c \in Components : Valid(c) \/ c \in damaged

\* The check that ends _download does not fail: by then all components are
\* recorded and valid and the compatibility link is right.
LastCheckPasses == \A p \in Downloads : At(p, "last check") => Ready

\* Without the incomplete marker the manifest is complete or still empty: the
\* marker goes up before the manifest drops a component and comes down after
\* the last one is recorded.
UnmarkedIsComplete == recorded \in {{}, Components} \/ marker

\* The manifest and the marker describe the disk, whatever step died.
RecordsAreTrue == TypeOK /\ ManifestIsHonest /\ UnmarkedIsComplete

\* Both checks, the one with the lock and the one without, pass when and only
\* when they should.
ChecksAreSound == CheckIsSound /\ LastCheckPasses

\* What is recorded and valid stays so: no download, rebuild or repair of
\* another component withdraws it, not even for a moment a check could see.
ReusableStays == [][losses' = losses => Reusable \subseteq Reusable']_vars

\* hard_assets.py:993 "A crash after installation but before the manifest write
\* must not trigger another network transfer."
InstalledTreeIsAdopted ==
  [][\A p \in Downloads : Snapshot(p) => tree # "good"]_vars

\* With finitely many crashes, failures and losses, the cache becomes ready and
\* stays so, unless an earlier release has left a tar of the wrong size, which
\* no rerun may delete and none can get past.
EventuallyReady == <>[]Ready \/ <>[](staging = "cut tar")
=============================================================================
