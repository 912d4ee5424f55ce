--------------------------- MODULE HardAssetsProofs ---------------------------
(***************************************************************************)
(* Proofs about HardAssets, for any number of downloads and of E5 parts,   *)
(* any leftovers of earlier releases and any bounds on crashes, failures   *)
(* and losses.                                                             *)
(***************************************************************************)
EXTENDS HardAssets, TLAPS

\* The detour through ensure_bm25_link, which three callers take ...
LinkPlaces == {"link", "relink", "unlegacy"}
\* ... the steps between the survey and the manifest's first rewrite ...
Surveyed == {"plan", "mark", "declare"}
\* ... and the builders.
CorpusPlaces == {"corpus", "recover", "archive", "verify", "extract", "inflate",
                 "promote", "tidy"}
TreePlaces == {"bm25", "adopt", "snapshot", "set aside", "swap", "drop"}
Building == CorpusPlaces \cup TreePlaces \cup {"next", "e5", "commit"}

\* Where a download is, a detour counting as the place it returns to.
Where(p) == IF pc[p] \in LinkPlaces THEN then[p] ELSE pc[p]

LockIsExclusive == \A p \in Downloads : pc[p] # "out" <=> lock = p

\* Every caller of ensure_bm25_link has a pinned tree to link to.
DetourIsKnown(p) ==
  pc[p] \in LinkPlaces =>
    tree = "good" /\ then[p] \in {"plan", "adopt", "drop", "next"}

\* The survey still describes the disk when the download acts on it.
SurveyIsTrue(p) ==
  Where(p) \in Surveyed => missing[p] = Components \ Reusable

\* While it builds, a download has withdrawn from the manifest exactly what it
\* is still to build, under the marker, and the rest is valid.
ManifestMatches(p) ==
  /\ pc[p] = "declare" => marker
  /\ Where(p) \in Building =>
       /\ marker
       /\ recorded = Components \ missing[p]
       /\ \A c \in recorded : Valid(c)

LinkIsRight(p) ==
  /\ pc[p] \in Surveyed \cup Building /\ "bm25" \notin missing[p] =>
       link = "canonical"
  /\ pc[p] = "unlegacy" => link = "canonical"

\* A builder works on a component that is withdrawn, the first one in order.
TargetIsMissing(p) ==
  /\ Where(p) \in CorpusPlaces => "corpus" \in missing[p]
  /\ Where(p) \in TreePlaces =>
       "bm25" \in missing[p] /\ "corpus" \notin missing[p]
  /\ Where(p) = "e5" => missing[p] = {"e5"}
  /\ pc[p] = "commit" => missing[p] # {} /\ Valid(Current(p))

\* What the next rename of a builder relies on.
PiecesAreReady(p) ==
  /\ pc[p] = "promote" => staging = "whole"
  /\ pc[p] = "tidy" => corpus = "good"
  /\ pc[p] \in {"set aside", "swap"} => treeStaging = "good"
  /\ pc[p] \in {"snapshot", "set aside", "swap"} => tree # "good"
  /\ pc[p] = "swap" => tree = "absent"
  /\ pc[p] \in {"adopt", "drop"} => tree = "good"

\* What a download still has to remove or to put back exists.
BackupsAreCounted(p) ==
  /\ "tree" \in backedUp[p] => Where(p) \in {"swap", "drop"} /\ backups >= 1
  /\ "link" \in backedUp[p] => pc[p] \in {"relink", "unlegacy"} /\ backups >= 1
  /\ "tree" \in backedUp[p] /\ "link" \in backedUp[p] => backups >= 2
  /\ pc[p] = "unlegacy" => "link" \in backedUp[p]

LastCheckIsReady(p) == pc[p] \in {"last check", "clean"} => Ready

LocalInv(p) ==
  /\ DetourIsKnown(p)
  /\ SurveyIsTrue(p)
  /\ ManifestMatches(p)
  /\ LinkIsRight(p)
  /\ TargetIsMissing(p)
  /\ PiecesAreReady(p)
  /\ BackupsAreCounted(p)
  /\ LastCheckIsReady(p)

\* What the lock-free check has looked at so far is vouched for.
Vouched(c) == Valid(c) \/ c \in damaged

CheckFollows ==
  /\ cpc \in {"bm25", "e5", "link", "passed"} => Vouched("corpus")
  /\ cpc \in {"e5", "link", "passed"} => Vouched("bm25")
  /\ cpc \in {"link", "passed"} => Vouched("e5")

IInv ==
  /\ TypeOK
  /\ LockIsExclusive
  /\ \A p \in Downloads : LocalInv(p)
  /\ ManifestIsHonest
  /\ UnmarkedIsComplete
  /\ CheckFollows

-----------------------------------------------------------------------------
(* Facts about the operators *)

LEMMA ConstantFacts ==
  /\ Nobody \notin Downloads
  /\ E5Parts \in Nat /\ MaxCrashes \in Nat /\ MaxFailures \in Nat /\ MaxLosses \in Nat
BY CacheAssumption

\* Current is the first missing component of the fixed order.
LEMMA CurrentIsFirst ==
  ASSUME NEW p \in Downloads, missing[p] \subseteq Components, missing[p] # {}
  PROVE  Current(p) = IF "corpus" \in missing[p] THEN "corpus"
                      ELSE IF "bm25" \in missing[p] THEN "bm25" ELSE "e5"
<1> DEFINE First(i) == /\ Order[i] \in missing[p]
                       /\ \A k \in 1..(i - 1) : Order[k] \notin missing[p]
           n == IF "corpus" \in missing[p] THEN 1
                ELSE IF "bm25" \in missing[p] THEN 2 ELSE 3
<1>1. Order[1] = "corpus" /\ Order[2] = "bm25" /\ Order[3] = "e5"
  BY DEF Order
<1>2. n \in 1..3 /\ First(n)
  <2>1. CASE "corpus" \in missing[p]
    BY <1>1, <2>1
  <2>2. CASE "corpus" \notin missing[p] /\ "bm25" \in missing[p]
    <3>1. \A k \in 1..(2 - 1) : k = 1
      OBVIOUS
    <3> QED
      BY <1>1, <2>2, <3>1
  <2>3. CASE "corpus" \notin missing[p] /\ "bm25" \notin missing[p]
    <3>1. \A k \in 1..(3 - 1) : k = 1 \/ k = 2
      OBVIOUS
    <3>2. "e5" \in missing[p]
      BY <2>3 DEF Components
    <3> QED
      BY <1>1, <2>3, <3>1, <3>2
  <2> QED
    BY <2>1, <2>2, <2>3
<1>3. \A i \in 1..3 : First(i) => i = n
  <2> SUFFICES ASSUME NEW i \in 1..3, First(i) PROVE i = n
    OBVIOUS
  <2>1. ~(i < n)
    BY <1>2
  <2>2. ~(n < i)
    BY <1>2
  <2> QED
    BY <1>2, <2>1, <2>2
<1>4. (CHOOSE i \in 1..3 : First(i)) = n
  BY <1>2, <1>3
<1>5. Current(p) = Order[n]
  BY <1>4 DEF Current
<1> QED
  BY <1>1, <1>5

LEMMA CurrentFacts ==
  \A p \in Downloads :
    missing[p] \subseteq Components /\ missing[p] # {} =>
      Current(p) = IF "corpus" \in missing[p] THEN "corpus"
                   ELSE IF "bm25" \in missing[p] THEN "bm25" ELSE "e5"
BY CurrentIsFirst

LEMMA CurrentFactsNext ==
  (\A p \in Downloads :
    missing[p] \subseteq Components /\ missing[p] # {} =>
      Current(p) = IF "corpus" \in missing[p] THEN "corpus"
                   ELSE IF "bm25" \in missing[p] THEN "bm25" ELSE "e5")'
BY CurrentFacts, PTL

\* Only the holder of the lock is anywhere, and nobody else has a backup.
LEMMA OthersAreOut ==
  ASSUME IInv, NEW p \in Downloads, pc[p] # "out" \/ lock = Nobody,
         NEW q \in Downloads, q # p
  PROVE  pc[q] = "out" /\ backedUp[q] = {}
<1>1. Nobody \notin Downloads
  BY CacheAssumption
<1>2. pc[q] = "out"
  BY <1>1 DEF IInv, LockIsExclusive
<1>3. BackupsAreCounted(q) /\ backedUp[q] \subseteq {"tree", "link"}
  BY DEF IInv, LocalInv, TypeOK
<1> QED
  BY <1>2, <1>3 DEF BackupsAreCounted, Where, LinkPlaces

LEMMA OutIsQuiet ==
  ASSUME NEW q \in Downloads, pc'[q] = "out", backedUp'[q] = {}
  PROVE  LocalInv(q)'
BY DEF LocalInv, DetourIsKnown, SurveyIsTrue, ManifestMatches, LinkIsRight,
       TargetIsMissing, PiecesAreReady, BackupsAreCounted, LastCheckIsReady,
       Where, LinkPlaces, Surveyed, Building, CorpusPlaces, TreePlaces

\* Outside the detour and the tree's swap, a download has nothing backed up.
LEMMA NothingBackedUp ==
  ASSUME IInv, NEW p \in Downloads, pc[p] \notin LinkPlaces \cup {"swap", "drop"}
  PROVE  backedUp[p] = {}
<1>1. BackupsAreCounted(p) /\ backedUp[p] \subseteq {"tree", "link"}
  BY DEF IInv, LocalInv, TypeOK
<1> QED
  BY <1>1 DEF BackupsAreCounted, Where, LinkPlaces

\* Wherever a detour through ensure_bm25_link returns to, the place finds the
\* link right and everything else as it was left.
LEMMA DetourReturns ==
  ASSUME IInv, NEW p \in Downloads, pc[p] \in LinkPlaces, pc'[p] = then[p],
         link' = "canonical",
         UNCHANGED <<missing, then, recorded, corpus, tree, e5Installed, marker>>,
         "link" \notin backedUp'[p],
         "tree" \in backedUp'[p] => then[p] = "drop" /\ backups' >= 1
  PROVE  LocalInv(p)'
<1> USE DEF LinkPlaces, Where
<1>1. DetourIsKnown(p) /\ SurveyIsTrue(p) /\ ManifestMatches(p) /\ TargetIsMissing(p)
  BY DEF IInv, LocalInv
<1>2. tree = "good" /\ then[p] \in {"plan", "adopt", "drop", "next"}
  BY <1>1 DEF DetourIsKnown
<1>3. Where(p) = then[p] /\ Where(p)' = then[p] /\ pc'[p] \notin LinkPlaces
  BY <1>2
<1>4. DetourIsKnown(p)' /\ LastCheckIsReady(p)' /\ LinkIsRight(p)'
  BY <1>2, <1>3 DEF DetourIsKnown, LastCheckIsReady, LinkIsRight
<1>5. (\A c : Valid(c) <=> Valid(c)') /\ Reusable' = Reusable
  BY DEF Reusable, Valid
<1>6. SurveyIsTrue(p)'
  BY <1>1, <1>3, <1>5 DEF SurveyIsTrue
<1>7. ManifestMatches(p)'
  BY <1>1, <1>2, <1>3, <1>5 DEF ManifestMatches
<1>8. TargetIsMissing(p)'
  BY <1>1, <1>2, <1>3 DEF TargetIsMissing, CorpusPlaces, TreePlaces
<1>9. PiecesAreReady(p)'
  BY <1>2 DEF PiecesAreReady
<1>10. BackupsAreCounted(p)'
  BY <1>2, <1>3 DEF BackupsAreCounted
<1> QED
  BY <1>4, <1>6, <1>7, <1>8, <1>9, <1>10 DEF LocalInv

-----------------------------------------------------------------------------
(* Every step of a download keeps what is known of it *)

\* A download that raises, or returns, keeps nothing.
LEMMA StepRaises ==
  ASSUME IInv, NEW p \in Downloads, Step(p), pc'[p] = "out"
  PROVE  LocalInv(p)'
<1> USE DEF At, Goes, Raises, KeepsLock, Frame, LinkFrame, CorpusFrame, TreeFrame,
            E5Frame, local, disk, checker, budget
<1>1. pc \in [Downloads -> Places] /\ backedUp \in [Downloads -> SUBSET {"tree", "link"}]
  BY DEF IInv, TypeOK
<1>2. pc[p] \in LinkPlaces => then[p] \in {"plan", "adopt", "drop", "next"}
  BY DEF IInv, LocalInv, DetourIsKnown
<1>3. CASE Relink(p) \/ SwapFails(p)
  <2>1. backedUp'[p] = {}
    BY <1>1, <1>2, <1>3 DEF Relink, SwapFails, LinkPlaces
  <2> QED
    BY <2>1, OutIsQuiet
<1>4. CASE pc[p] \notin LinkPlaces \cup {"swap", "drop"} /\ backedUp' = backedUp
  BY <1>4, NothingBackedUp, OutIsQuiet
<1>5. CASE ~(pc[p] \notin LinkPlaces \cup {"swap", "drop"} /\ backedUp' = backedUp)
  <2>1. Acquire(p) \/ Survey(p) \/ Plan(p) \/ Mark(p) \/ Declare(p) \/ BuildNext(p)
          \/ Commit(p) \/ LastCheck(p) \/ Clean(p) =>
          pc[p] \notin LinkPlaces \cup {"swap", "drop"} /\ backedUp' = backedUp
    BY DEF Acquire, Survey, Plan, Mark, Declare, BuildNext, Commit, LastCheck, Clean,
           LinkPlaces
  <2>2. Corpus(p) \/ Recover(p) \/ FetchArchive(p) \/ VerifyArchive(p) \/ Extract(p)
          \/ Inflate(p) \/ Promote(p) \/ Tidy(p) =>
          pc[p] \notin LinkPlaces \cup {"swap", "drop"} /\ backedUp' = backedUp
    BY DEF Corpus, Recover, FetchArchive, VerifyArchive, Extract, Inflate, Promote,
           Tidy, LinkPlaces
  <2>3. Bm25(p) \/ Adopt(p) \/ Snapshot(p) \/ AssembleE5(p) =>
          pc[p] \notin LinkPlaces \cup {"swap", "drop"} /\ backedUp' = backedUp
    BY DEF Bm25, Adopt, Snapshot, AssembleE5, LinkPlaces
  <2>4. Link(p) \/ RemoveLegacy(p) \/ SetAside(p) \/ Swap(p) \/ DropBackup(p) =>
          pc'[p] # "out"
    BY <1>1, <1>2 DEF Link, RemoveLegacy, SetAside, Swap, DropBackup, LinkPlaces
  <2> QED
    BY <1>3, <1>5, <2>1, <2>2, <2>3, <2>4 DEF Step
<1> QED
  BY <1>4, <1>5

\* The three ways out of the detour are returns.
LEMMA StepReturns ==
  ASSUME IInv, NEW p \in Downloads, Link(p) \/ Relink(p) \/ RemoveLegacy(p),
         pc'[p] \notin LinkPlaces \cup {"out"}
  PROVE  LocalInv(p)'
<1> USE DEF At, Goes, Raises, KeepsLock, Frame, LinkFrame, LinkPlaces
<1>1. /\ pc \in [Downloads -> Places]
      /\ backedUp \in [Downloads -> SUBSET {"tree", "link"}]
      /\ backups \in Nat
  BY DEF IInv, TypeOK
<1>2. /\ pc[p] \in LinkPlaces => then[p] \in {"plan", "adopt", "drop", "next"}
      /\ BackupsAreCounted(p) /\ LinkIsRight(p)
  BY DEF IInv, LocalInv, DetourIsKnown
<1>3. /\ pc[p] \in LinkPlaces /\ pc'[p] = then[p] /\ link' = "canonical"
      /\ UNCHANGED <<missing, then, recorded, corpus, tree, e5Installed, marker>>
  BY <1>1, <1>2 DEF Link, Relink, RemoveLegacy, LinkIsRight
<1>4. /\ "link" \notin backedUp'[p]
      /\ "tree" \in backedUp'[p] => then[p] = "drop" /\ backups' >= 1
  <2>1. CASE Link(p)
    BY <1>1, <1>2, <1>3, <2>1 DEF Link, BackupsAreCounted, Where
  <2>2. CASE Relink(p)
    BY <1>1, <1>2, <1>3, <2>2 DEF Relink, BackupsAreCounted, Where
  <2>3. CASE RemoveLegacy(p)
    BY <1>1, <1>2, <1>3, <2>3 DEF RemoveLegacy, BackupsAreCounted, Where
  <2> QED
    BY <2>1, <2>2, <2>3
<1> QED
  BY <1>3, <1>4, DetourReturns

LEMMA StepKeepsLocal ==
  ASSUME IInv, NEW p \in Downloads, Step(p)
  PROVE  LocalInv(p)'
<1>1. CASE pc'[p] = "out"
  BY <1>1, StepRaises
<1>2. CASE (Link(p) \/ Relink(p) \/ RemoveLegacy(p)) /\ pc'[p] \notin LinkPlaces \cup {"out"}
  BY <1>2, StepReturns
<1> USE DEF At, Goes, Raises, KeepsLock, Frame, LinkFrame, CorpusFrame, TreeFrame,
            E5Frame, local, disk, checker, budget,
            LocalInv, DetourIsKnown, SurveyIsTrue, ManifestMatches, LinkIsRight,
            TargetIsMissing, PiecesAreReady, BackupsAreCounted, LastCheckIsReady,
            Where, LinkPlaces, Surveyed, Building, CorpusPlaces, TreePlaces,
            Ready, Reusable, Valid
<1>3. /\ pc \in [Downloads -> Places] /\ then \in [Downloads -> Places]
      /\ missing \in [Downloads -> SUBSET Components]
      /\ backedUp \in [Downloads -> SUBSET {"tree", "link"}]
      /\ backups \in Nat
      /\ LocalInv(p)
  BY DEF IInv, TypeOK
<1>4. CASE Acquire(p)
  BY <1>3, <1>4 DEF Acquire
<1>5. CASE Survey(p)
  <2>1. CASE pc'[p] = "link"
    BY <1>3, <1>5, <2>1 DEF Survey, Components
  <2>2. CASE pc'[p] = "plan"
    BY <1>3, <1>5, <2>2 DEF Survey, Components
  <2> QED
    BY <1>1, <1>2, <1>3, <1>5, <2>1, <2>2 DEF Survey, Components
<1>6. CASE Plan(p)
  <2>1. CASE missing[p] # {} /\ pc'[p] = "mark"
    BY <1>3, <1>6, <2>1, ZenonT(60) DEF Plan
  <2>2. CASE missing[p] = {}
    <3>1. Components \subseteq Reusable /\ link = "canonical"
      BY <1>3, <1>6, <2>2 DEF Plan, Components
    <3>2. Ready'
      BY <1>6, <2>2, <3>1 DEF Plan
    <3>3. pc'[p] = "last check" /\ backedUp' = backedUp
      BY <1>3, <1>6, <2>2 DEF Plan
    <3>4. backedUp[p] = {}
      BY <1>6, NothingBackedUp DEF Plan
    <3> QED
      BY <3>2, <3>3, <3>4
  <2> QED
    BY <1>1, <1>3, <1>6, <2>1, <2>2 DEF Plan
<1>7. CASE Mark(p)
  BY <1>3, <1>7 DEF Mark
<1>8. CASE Declare(p)
  BY <1>3, <1>8 DEF Declare
<1>9. CASE BuildNext(p)
  <2>1. CASE missing[p] = {}
    <3>1. pc'[p] = "last check" /\ backedUp' = backedUp
      BY <1>3, <1>9, <2>1 DEF BuildNext
    <3>2. backedUp[p] = {}
      BY <1>9, NothingBackedUp DEF BuildNext
    <3>3. recorded = Components \ missing[p] /\ \A c \in recorded : Valid(c)
      BY <1>3, <1>9 DEF BuildNext
    <3>4. link = "canonical"
      BY <1>3, <1>9, <2>1 DEF BuildNext
    <3>5. Ready'
      BY <1>9, <2>1, <3>3, <3>4 DEF BuildNext
    <3> QED
      BY <3>1, <3>2, <3>5
  <2>2. CASE "corpus" \in missing[p]
    <3>1. pc'[p] = "corpus"
      BY <1>3, <1>9, <2>2, CurrentFacts DEF BuildNext
    <3> QED
      BY <1>3, <1>9, <2>2, <3>1 DEF BuildNext
  <2>3. CASE "corpus" \notin missing[p] /\ "bm25" \in missing[p]
    <3>1. pc'[p] = "bm25"
      BY <1>3, <1>9, <2>3, CurrentFacts DEF BuildNext
    <3> QED
      BY <1>3, <1>9, <2>3, <3>1 DEF BuildNext
  <2>4. CASE "corpus" \notin missing[p] /\ "bm25" \notin missing[p] /\ missing[p] # {}
    <3>1. missing[p] \subseteq Components
      BY <1>3
    <3>2. missing[p] = {"e5"}
      BY <2>4, <3>1 DEF Components
    <3>3. pc'[p] = "e5"
      BY <1>3, <1>9, <2>4, <3>1, CurrentFacts DEF BuildNext
    <3> QED
      BY <1>3, <1>9, <3>2, <3>3 DEF BuildNext
  <2> QED
    BY <2>1, <2>2, <2>3, <2>4
<1>10. CASE Commit(p)
  <2>1. CASE pc'[p] = "link"
    BY <1>3, <1>10, <2>1, CurrentFacts DEF Commit, Components
  <2>2. CASE pc'[p] = "next"
    BY <1>3, <1>10, <2>2, CurrentFacts DEF Commit, Components
  <2> QED
    BY <1>1, <1>2, <1>3, <1>10, <2>1, <2>2, CurrentFacts DEF Commit, Components
<1>11. CASE LastCheck(p)
  <2>1. CASE pc'[p] = "clean"
    BY <1>3, <1>11, <2>1, ZenonT(60) DEF LastCheck
  <2> QED
    BY <1>1, <1>2, <1>3, <1>11, <2>1 DEF LastCheck
<1>12. CASE Clean(p)
  BY <1>1, <1>2, <1>3, <1>12 DEF Clean
<1>13. CASE Link(p)
  <2>1. CASE link = "canonical"
    BY <1>1, <1>2, <1>3, <1>13, <2>1 DEF Link
  <2>2. CASE link # "canonical"
    <3>1. /\ pc[p] = "link" /\ pc'[p] = "relink"
          /\ then' = then /\ missing' = missing
          /\ then[p] \in {"plan", "adopt", "drop", "next"}
      BY <1>3, <1>13, <2>2 DEF Link
    <3>2. DetourIsKnown(p)' /\ SurveyIsTrue(p)' /\ ManifestMatches(p)'
      BY <1>3, <1>13, <3>1, ZenonT(60) DEF Link
    <3>3. LinkIsRight(p)' /\ PiecesAreReady(p)' /\ LastCheckIsReady(p)'
      BY <3>1
    <3>4. TargetIsMissing(p)'
      BY <1>3, <3>1
    <3>5. BackupsAreCounted(p)'
      <4>1. /\ "tree" \in backedUp[p] => then[p] = "drop" /\ backups >= 1
            /\ "link" \notin backedUp[p]
        BY <1>3, <3>1
      <4>2. CASE link = "tree"
        <5>1. /\ backups' = backups + 1 /\ backups \in Nat
              /\ backedUp'[p] = backedUp[p] \cup {"link"}
          BY <1>3, <1>13, <4>2 DEF Link
        <5> QED
          BY <3>1, <4>1, <5>1
      <4>3. CASE link # "tree"
        BY <1>13, <2>2, <3>1, <4>1, <4>3 DEF Link
      <4> QED
        BY <4>2, <4>3
    <3> QED
      BY <3>2, <3>3, <3>4, <3>5
  <2> QED
    BY <2>1, <2>2
<1>14. CASE Relink(p)
  <2>1. CASE pc'[p] = "unlegacy"
    BY <1>3, <1>14, <2>1, ZenonT(60) DEF Relink
  <2> QED
    BY <1>1, <1>2, <1>3, <1>14, <2>1, ZenonT(60) DEF Relink
<1>15. CASE RemoveLegacy(p)
  BY <1>1, <1>2, <1>3, <1>15 DEF RemoveLegacy
<1>16. CASE Corpus(p)
  <2>1. CASE pc'[p] = "recover"
    BY <1>3, <1>16, <2>1 DEF Corpus
  <2>2. CASE pc'[p] = "promote"
    BY <1>3, <1>16, <2>2 DEF Corpus
  <2>3. CASE pc'[p] = "archive"
    BY <1>3, <1>16, <2>3 DEF Corpus
  <2> QED
    BY <1>1, <1>2, <1>3, <1>16, <2>1, <2>2, <2>3 DEF Corpus
<1>17. CASE Recover(p)
  BY <1>3, <1>17 DEF Recover
<1>18. CASE FetchArchive(p)
  <2>1. CASE pc'[p] = "verify"
    BY <1>3, <1>18, <2>1 DEF FetchArchive
  <2> QED
    BY <1>1, <1>2, <1>3, <1>18, <2>1 DEF FetchArchive
<1>19. CASE VerifyArchive(p)
  <2>1. CASE pc'[p] = "extract"
    BY <1>3, <1>19, <2>1 DEF VerifyArchive
  <2> QED
    BY <1>1, <1>2, <1>3, <1>19, <2>1 DEF VerifyArchive
<1>20. CASE Extract(p)
  BY <1>3, <1>20 DEF Extract
<1>21. CASE Inflate(p)
  BY <1>3, <1>21 DEF Inflate
<1>22. CASE Promote(p)
  BY <1>3, <1>22 DEF Promote
<1>23. CASE Tidy(p)
  BY <1>3, <1>23, CurrentFactsNext DEF Tidy, Components
<1>24. CASE Bm25(p)
  <2>1. CASE pc'[p] = "link"
    BY <1>3, <1>24, <2>1, ZenonT(60) DEF Bm25
  <2>2. CASE pc'[p] = "snapshot"
    BY <1>3, <1>24, <2>2 DEF Bm25
  <2> QED
    BY <1>1, <1>2, <1>3, <1>24, <2>1, <2>2 DEF Bm25
<1>25. CASE Adopt(p)
  BY <1>3, <1>25, CurrentFactsNext DEF Adopt, Components
<1>26. CASE Snapshot(p)
  <2>1. CASE pc'[p] = "set aside"
    BY <1>3, <1>26, <2>1 DEF Snapshot
  <2> QED
    BY <1>1, <1>2, <1>3, <1>26, <2>1 DEF Snapshot
<1>27. CASE SetAside(p)
  <2>1. /\ pc[p] = "set aside" /\ pc'[p] = "swap"
        /\ tree' = "absent" /\ treeStaging' = treeStaging /\ missing' = missing
    BY <1>3, <1>27 DEF SetAside
  <2>2. /\ backedUp'[p] \subseteq {"tree"}
        /\ "tree" \in backedUp'[p] => backups' >= 1
    <3>1. CASE tree = "absent"
      BY <1>3, <1>27, <3>1 DEF SetAside
    <3>2. CASE tree # "absent"
      <4>1. backups' = backups + 1 /\ backups \in Nat /\ backedUp'[p] = {"tree"}
        BY <1>3, <1>27, <3>2 DEF SetAside
      <4> QED
        BY <4>1
    <3> QED
      BY <3>1, <3>2
  <2>3. BackupsAreCounted(p)'
    BY <2>1, <2>2
  <2>4. PiecesAreReady(p)' /\ TargetIsMissing(p)' /\ LastCheckIsReady(p)'
    BY <1>3, <2>1
  <2>5. SurveyIsTrue(p)' /\ DetourIsKnown(p)' /\ LinkIsRight(p)'
    BY <1>3, <1>27, <2>1 DEF SetAside
  <2>6. ManifestMatches(p)'
    <3>1. "bm25" \notin recorded
      BY <1>3, <2>1
    <3> QED
      BY <1>3, <1>27, <2>1, <3>1 DEF SetAside
  <2> QED
    BY <2>3, <2>4, <2>5, <2>6
<1>28. CASE Swap(p)
  BY <1>3, <1>28 DEF Swap
<1>29. CASE SwapFails(p)
  BY <1>1, <1>2, <1>3, <1>29 DEF SwapFails
<1>30. CASE DropBackup(p)
  BY <1>3, <1>30, CurrentFactsNext DEF DropBackup, Components
<1>31. CASE AssembleE5(p)
  <2>1. CASE pc'[p] = "e5"
    BY <1>3, <1>31, <2>1 DEF AssembleE5, E5!VerifyPart
  <2>2. CASE pc'[p] = "commit"
    BY <1>3, <1>31, <2>2, CurrentFactsNext DEF AssembleE5, E5!InstallAll, Components
  <2> QED
    BY <1>1, <1>3, <1>31, <2>1, <2>2 DEF AssembleE5
<1> QED
  BY <1>4, <1>5, <1>6, <1>7, <1>8, <1>9, <1>10, <1>11, <1>12, <1>13, <1>14, <1>15, <1>16,
     <1>17, <1>18, <1>19, <1>20, <1>21, <1>22, <1>23, <1>24, <1>25, <1>26, <1>27, <1>28,
     <1>29, <1>30, <1>31 DEF Step

\* What a step of a download may do to each variable, whichever step it is.
Effects(p) ==
  /\ lock' = (IF pc'[p] = "out" THEN Nobody ELSE p)
  /\ pc[p] # "out" \/ lock = Nobody
  /\ pc' = [pc EXCEPT ![p] = pc'[p]]
  /\ pc'[p] \in Places \cup {then[p]} \/ (pc'[p] = Current(p) /\ missing[p] # {})
  /\ missing' = missing
     \/ \E m \in SUBSET Components : missing' = [missing EXCEPT ![p] = m]
  /\ then' = then
     \/ \E t \in {"plan", "next", "adopt", "drop"} : then' = [then EXCEPT ![p] = t]
  /\ \E b \in SUBSET {"tree", "link"} : backedUp' = [backedUp EXCEPT ![p] = b]
  /\ \/ recorded' = recorded
     \/ recorded' = Components \ missing[p] /\ pc[p] = "declare"
     \/ recorded' = Components /\ missing[p] = {} /\ pc[p] = "plan"
     \/ recorded' = recorded \cup {Current(p)} /\ pc[p] = "commit" /\ marker' = marker
  /\ corpus' \in {corpus, "good"} \/ (corpus' = "absent" /\ pc[p] = "promote" /\ staging # "whole")
  /\ staging' \in {staging, "absent", "partial", "whole"}
  /\ archive' \in {archive, "good", "bad", "absent"}
  /\ tree' \in {tree, "good"} \/ (tree' \in {"absent", "bad"} /\ pc[p] \in {"set aside", "swap"})
  /\ treeStaging' \in {treeStaging, "absent", "good", "partial"}
  /\ \/ backups' \in {backups, backups + 1}
     \/ backups' = backups - 1 /\ (backedUp[p] # {} \/ pc[p] = "unlegacy")
  /\ link' \in {link, "absent", "canonical", "tree"}
  /\ \/ e5Verified' \in {e5Verified, 0}
     \/ e5Verified < E5Parts /\ e5Verified' = e5Verified + 1
  /\ e5Installed' = e5Installed \/ e5Installed' = TRUE
  /\ \/ marker' = marker \/ marker' = TRUE
     \/ marker' = FALSE /\ pc[p] = "clean" /\ recorded' = recorded
  /\ damaged' = damaged \/ (pc[p] = "commit" /\ damaged' = damaged \ {Current(p)})
  /\ UNCHANGED <<seen, cpc, crashes, losses>>
  /\ failures' = failures \/ (failures < MaxFailures /\ failures' = failures + 1)

LEMMA WhatAStepDoes ==
  ASSUME IInv, NEW p \in Downloads, Step(p)
  PROVE  Effects(p)
<1> USE DEF At, Goes, Raises, KeepsLock, Frame, LinkFrame, CorpusFrame, TreeFrame,
            E5Frame, local, disk, checker, budget, Step, Acquire, Survey, Plan,
            Mark, Declare, BuildNext, Commit, LastCheck, Clean, Link, Relink,
            RemoveLegacy, Corpus, Recover, FetchArchive, VerifyArchive, Extract,
            Inflate, Promote, Tidy, Bm25, Adopt, Snapshot, SetAside, Swap,
            SwapFails, DropBackup, AssembleE5
<1>1. pc' = [pc EXCEPT ![p] = pc'[p]] /\ (pc[p] # "out" \/ lock = Nobody)
  BY DEF IInv, TypeOK
<1>2. lock' = (IF pc'[p] = "out" THEN Nobody ELSE p)
  <2>1. /\ pc \in [Downloads -> Places] /\ missing[p] \subseteq Components
        /\ pc[p] # "out" <=> lock = p
        /\ pc[p] \in LinkPlaces => then[p] # "out"
    BY DEF IInv, TypeOK, LockIsExclusive, LocalInv, DetourIsKnown
  <2>2. missing[p] # {} => Current(p) # "out"
    BY <2>1, CurrentFacts
  <2> QED
    BY <2>1, <2>2 DEF LinkPlaces
<1>3. missing' = missing
      \/ \E m \in SUBSET Components : missing' = [missing EXCEPT ![p] = m]
  <2>1. missing[p] \subseteq Components
    BY DEF IInv, TypeOK
  <2> QED
    BY <2>1
<1>4. then' = then
      \/ \E t \in {"plan", "next", "adopt", "drop"} : then' = [then EXCEPT ![p] = t]
  OBVIOUS
<1>5. \E b \in SUBSET {"tree", "link"} : backedUp' = [backedUp EXCEPT ![p] = b]
  <2>1. /\ backedUp \in [Downloads -> SUBSET {"tree", "link"}]
        /\ backedUp[p] \subseteq {"tree", "link"}
    BY DEF IInv, TypeOK
  <2>2. backedUp = [backedUp EXCEPT ![p] = backedUp[p]]
    BY <2>1
  <2> QED
    BY <2>1, <2>2
<1>6. \/ recorded' = recorded
      \/ recorded' = Components \ missing[p] /\ pc[p] = "declare"
      \/ recorded' = Components /\ missing[p] = {} /\ pc[p] = "plan"
      \/ recorded' = recorded \cup {Current(p)} /\ pc[p] = "commit" /\ marker' = marker
  OBVIOUS
<1>7. /\ corpus' \in {corpus, "good"}
         \/ (corpus' = "absent" /\ pc[p] = "promote" /\ staging # "whole")
      /\ staging' \in {staging, "absent", "partial", "whole"}
      /\ archive' \in {archive, "good", "bad", "absent"}
  OBVIOUS
<1>8. /\ tree' \in {tree, "good"}
         \/ (tree' \in {"absent", "bad"} /\ pc[p] \in {"set aside", "swap"})
      /\ treeStaging' \in {treeStaging, "absent", "good", "partial"}
  OBVIOUS
<1>9. /\ \/ backups' \in {backups, backups + 1}
         \/ backups' = backups - 1 /\ (backedUp[p] # {} \/ pc[p] = "unlegacy")
      /\ link' \in {link, "absent", "canonical", "tree"}
  OBVIOUS
<1>10. /\ UNCHANGED <<seen, cpc, crashes, losses>>
       /\ damaged' = damaged \/ (pc[p] = "commit" /\ damaged' = damaged \ {Current(p)})
       /\ failures' = failures \/ (failures < MaxFailures /\ failures' = failures + 1)
  BY DEF E5!VerifyPart, E5!InstallAll
<1>11. \/ e5Verified' \in {e5Verified, 0}
       \/ e5Verified < E5Parts /\ e5Verified' = e5Verified + 1
  <2>1. CASE AssembleE5(p)
    BY <2>1, CacheAssumption DEF E5!VerifyPart, E5!InstallAll
  <2>2. CASE ~AssembleE5(p)
    <3>1. e5Verified' = e5Verified
      BY <2>2
    <3> QED
      BY <3>1
  <2> QED
    BY <2>1, <2>2
<1>12. e5Installed' = e5Installed \/ e5Installed' = TRUE
  BY Zenon DEF E5!VerifyPart, E5!InstallAll
<1>13. marker' = marker \/ marker' = TRUE
       \/ (marker' = FALSE /\ pc[p] = "clean" /\ recorded' = recorded)
  BY Zenon
<1>14. pc'[p] \in Places \cup {then[p]} \/ (pc'[p] = Current(p) /\ missing[p] # {})
  <2>1. pc \in [Downloads -> Places]
    BY DEF IInv, TypeOK
  <2> HIDE DEF Step
  <2>2. Acquire(p) \/ Survey(p) \/ Plan(p) \/ Mark(p) \/ Declare(p) \/ BuildNext(p) =>
          \/ pc'[p] \in {"survey", "link", "plan", "mark", "declare", "next", "last check", "out"}
          \/ pc'[p] = Current(p) /\ missing[p] # {}
    BY <2>1
  <2>3. Commit(p) \/ LastCheck(p) \/ Clean(p) \/ Link(p) \/ Relink(p) \/ RemoveLegacy(p) =>
          pc'[p] \in {"link", "next", "clean", "out", "relink", "unlegacy", then[p]}
    BY <2>1
  <2>4. Corpus(p) \/ Recover(p) \/ FetchArchive(p) \/ VerifyArchive(p) \/ Extract(p)
        \/ Inflate(p) \/ Promote(p) \/ Tidy(p) =>
          pc'[p] \in {"recover", "out", "promote", "archive", "verify", "extract",
                     "inflate", "tidy", "commit"}
    BY <2>1
  <2>5. Bm25(p) \/ Adopt(p) \/ Snapshot(p) \/ SetAside(p) \/ Swap(p) \/ SwapFails(p)
        \/ DropBackup(p) \/ AssembleE5(p) =>
          pc'[p] \in {"link", "snapshot", "commit", "set aside", "out", "swap", "e5"}
    BY <2>1
  <2> HIDE DEF Acquire, Survey, Plan, Mark, Declare, BuildNext, Commit, LastCheck, Clean,
           Link, Relink, RemoveLegacy, Corpus, Recover, FetchArchive, VerifyArchive,
           Extract, Inflate, Promote, Tidy, Bm25, Adopt, Snapshot, SetAside, Swap,
           SwapFails, DropBackup, AssembleE5
  <2> QED
    BY <2>2, <2>3, <2>4, <2>5, Zenon DEF Step, Places
<1> HIDE DEF Step
<1> QED
  BY <1>14, <1>2, <1>1, <1>3, <1>4, <1>5, <1>6, <1>7, <1>8, <1>9, <1>10, <1>11, <1>12, <1>13,
     Zenon DEF Effects

LEMMA StepKeepsTypes ==
  ASSUME IInv, NEW p \in Downloads, Step(p)
  PROVE  TypeOK'
<1>1. Effects(p) /\ TypeOK /\ LocalInv(p)
  BY WhatAStepDoes DEF IInv
<1>2. missing[p] \subseteq Components /\ then[p] \in Places
  BY <1>1 DEF TypeOK
<1>3. missing[p] # {} => Current(p) \in Components \cap Places
  BY <1>2, CurrentFacts DEF Components, Places
<1>4. pc[p] = "commit" => missing[p] # {}
  BY <1>1 DEF LocalInv, TargetIsMissing
<1>5. pc' \in [Downloads -> Places] /\ lock' \in Downloads \cup {Nobody}
  <2>1. pc'[p] \in Places
    BY <1>1, <1>2, <1>3 DEF Effects
  <2> QED
    BY <1>1, <2>1 DEF Effects, TypeOK
<1>6. missing' \in [Downloads -> SUBSET Components]
  <2>1. missing' = missing
        \/ \E m \in SUBSET Components : missing' = [missing EXCEPT ![p] = m]
    BY <1>1 DEF Effects
  <2> QED
    BY <1>1, <2>1 DEF TypeOK
<1>7. then' \in [Downloads -> Places]
  <2>1. {"plan", "next", "adopt", "drop"} \subseteq Places
    BY DEF Places
  <2>2. then' = then \/ \E t \in Places : then' = [then EXCEPT ![p] = t]
    BY <1>1, <2>1 DEF Effects
  <2> QED
    BY <1>1, <2>2 DEF TypeOK
<1>8. backedUp' \in [Downloads -> SUBSET {"tree", "link"}]
  <2>1. \E b \in SUBSET {"tree", "link"} : backedUp' = [backedUp EXCEPT ![p] = b]
    BY <1>1 DEF Effects
  <2> QED
    BY <1>1, <2>1 DEF TypeOK
<1>9. recorded' \subseteq Components /\ damaged' \subseteq Components
  BY <1>1, <1>2, <1>3, <1>4 DEF Effects, TypeOK
<1>10. /\ corpus' \in {"absent", "good"}
       /\ staging' \in {"absent", "partial", "whole", "tar", "cut tar"}
       /\ archive' \in {"absent", "good", "bad"}
  BY <1>1 DEF Effects, TypeOK
<1>11. /\ tree' \in {"absent", "good", "bad"}
       /\ treeStaging' \in {"absent", "partial", "good"}
       /\ link' \in {"absent", "canonical", "stale", "tree"}
  BY <1>1 DEF Effects, TypeOK
<1>12. backups' \in Nat
  <2>1. backups \in Nat /\ backedUp[p] \subseteq {"tree", "link"}
    BY <1>1 DEF TypeOK
  <2>2. backedUp[p] # {} \/ pc[p] = "unlegacy" => backups >= 1
    BY <1>1, <2>1 DEF LocalInv, BackupsAreCounted
  <2>3. \/ backups' \in {backups, backups + 1}
        \/ backups' = backups - 1 /\ (backedUp[p] # {} \/ pc[p] = "unlegacy")
    BY <1>1 DEF Effects
  <2> QED
    BY <2>1, <2>2, <2>3
<1>13. e5Verified' \in 0..E5Parts
  <2>1. \/ e5Verified' \in {e5Verified, 0}
        \/ e5Verified < E5Parts /\ e5Verified' = e5Verified + 1
    BY <1>1 DEF Effects
  <2>2. e5Verified \in 0..E5Parts /\ E5Parts \in Nat
    BY <1>1, CacheAssumption DEF TypeOK
  <2> QED
    BY <2>1, <2>2
<1>14. e5Installed' \in BOOLEAN /\ marker' \in BOOLEAN
  BY <1>1, Zenon DEF Effects, TypeOK
<1>15. failures' \in 0..MaxFailures
  <2>1. failures' = failures \/ (failures < MaxFailures /\ failures' = failures + 1)
    BY <1>1 DEF Effects
  <2>2. failures \in 0..MaxFailures /\ MaxFailures \in Nat
    BY <1>1, CacheAssumption DEF TypeOK
  <2> QED
    BY <2>1, <2>2
<1>16. /\ seen' \subseteq Components
       /\ cpc' \in {"idle", "corpus", "bm25", "e5", "link", "passed"}
       /\ crashes' \in 0..MaxCrashes /\ losses' \in 0..MaxLosses
  BY <1>1 DEF Effects, TypeOK
<1> QED
  BY <1>5, <1>6, <1>7, <1>8, <1>9, <1>10, <1>11, <1>12, <1>13, <1>14, <1>15, <1>16
     DEF TypeOK

-----------------------------------------------------------------------------
(* What the manifest and the checks vouch for *)

\* No step of a download invalidates a valid component.
LEMMA StepKeepsValid ==
  ASSUME IInv, NEW p \in Downloads, Step(p), NEW c, Valid(c)
  PROVE  Valid(c)'
<1>1. Effects(p) /\ PiecesAreReady(p)
  BY WhatAStepDoes DEF IInv, LocalInv
<1>2. CASE c = "corpus" /\ corpus = "good"
  BY <1>1, <1>2 DEF Effects, PiecesAreReady, Valid
<1>3. CASE c = "bm25" /\ tree = "good"
  BY <1>1, <1>3 DEF Effects, PiecesAreReady, Valid
<1>4. CASE c = "e5" /\ e5Installed
  <2>1. e5Installed'
    BY <1>1, <1>4, Zenon DEF Effects
  <2> QED
    BY <1>4, <2>1 DEF Valid
<1> QED
  BY <1>2, <1>3, <1>4 DEF Valid

\* What a step records, or no longer counts as damaged, is valid.
LEMMA StepRecordsValid ==
  ASSUME IInv, NEW p \in Downloads, Step(p)
  PROVE  /\ \A c \in recorded' : c \in recorded \/ Valid(c)'
         /\ \A c \in damaged : c \in damaged' \/ Valid(c)'
<1>1. Effects(p) /\ LocalInv(p)
  BY WhatAStepDoes DEF IInv
<1>2. pc[p] = "commit" => \A c : c = Current(p) => Valid(c)'
  BY <1>1, StepKeepsValid DEF LocalInv, TargetIsMissing
<1>3. \A c \in damaged : c \in damaged' \/ Valid(c)'
  BY <1>1, <1>2 DEF Effects
<1>4. pc[p] \in {"declare", "plan"} => Components \ missing[p] \subseteq recorded
  BY <1>1 DEF LocalInv, SurveyIsTrue, Surveyed, Where, LinkPlaces, Reusable
<1>5. \A c \in recorded' : c \in recorded \/ Valid(c)'
  BY <1>1, <1>2, <1>4 DEF Effects
<1> QED
  BY <1>3, <1>5

-----------------------------------------------------------------------------
(* The inductive invariant *)

LEMMA StepKeepsIInv ==
  ASSUME IInv, NEW p \in Downloads, Step(p)
  PROVE  IInv'
<1>1. Effects(p) /\ LocalInv(p) /\ LocalInv(p)' /\ TypeOK'
  BY WhatAStepDoes, StepKeepsLocal, StepKeepsTypes DEF IInv
<1>2. pc \in [Downloads -> Places] /\ backedUp \in [Downloads -> SUBSET {"tree", "link"}]
  BY DEF IInv, TypeOK
<1>3. \A q \in Downloads : q # p => pc[q] = "out" /\ backedUp[q] = {}
  <2>1. pc[p] # "out" \/ lock = Nobody
    BY <1>1 DEF Effects
  <2> QED
    BY <2>1, OthersAreOut
<1>4. \A q \in Downloads : q # p => pc'[q] = "out" /\ backedUp'[q] = {}
  BY <1>1, <1>2, <1>3 DEF Effects
<1>5. LockIsExclusive'
  <2>1. Nobody \notin Downloads
    BY CacheAssumption
  <2> QED
    BY <1>1, <1>2, <1>4, <2>1 DEF Effects, LockIsExclusive
<1>6. \A q \in Downloads : LocalInv(q)'
  BY <1>1, <1>4, OutIsQuiet
<1>7. \A c : Vouched(c) => Vouched(c)'
  BY StepKeepsValid, StepRecordsValid DEF Vouched
<1>8. ManifestIsHonest'
  BY <1>7, StepRecordsValid DEF IInv, ManifestIsHonest, Vouched
<1>9. CheckFollows'
  <2>1. cpc' = cpc
    BY <1>1 DEF Effects
  <2> QED
    BY <1>7, <2>1 DEF IInv, CheckFollows
<1>10. UnmarkedIsComplete'
  <2>1. pc[p] \in {"declare", "commit"} => marker
    BY <1>1 DEF LocalInv, ManifestMatches, Where, LinkPlaces, Building
  <2>2. pc[p] = "clean" => recorded = Components
    BY <1>1 DEF IInv, TypeOK, LocalInv, LastCheckIsReady, Ready, Reusable
  <2>3. pc[p] # "clean" => (marker => marker')
    BY <1>1 DEF Effects
  <2> QED
    BY <1>1, <2>1, <2>2, <2>3 DEF Effects, IInv, UnmarkedIsComplete
<1> QED
  BY <1>1, <1>5, <1>6, <1>8, <1>9, <1>10 DEF IInv

LEMMA CrashKeepsIInv ==
  ASSUME IInv, NEW p \in Downloads, Crash(p)
  PROVE  IInv'
<1> USE DEF Crash, Raises, Goes, At, disk, checker
<1>1. pc \in [Downloads -> Places] /\ backedUp \in [Downloads -> SUBSET {"tree", "link"}]
  BY DEF IInv, TypeOK
<1>2. \A q \in Downloads : pc'[q] = "out" /\ backedUp'[q] = {}
  <2>1. \A q \in Downloads : q # p => pc[q] = "out" /\ backedUp[q] = {}
    BY OthersAreOut
  <2> QED
    BY <1>1, <2>1
<1>3. TypeOK'
  <2>1. crashes' \in 0..MaxCrashes
    <3>1. crashes \in 0..MaxCrashes
      BY DEF IInv, TypeOK
    <3>2. crashes < MaxCrashes /\ crashes' = crashes + 1
      OBVIOUS
    <3> HIDE DEF Crash
    <3> QED
      BY <3>1, <3>2, ConstantFacts
  <2>2. pc' \in [Downloads -> Places] /\ backedUp' \in [Downloads -> SUBSET {"tree", "link"}]
    BY <1>1 DEF Places
  <2>3. UNCHANGED <<missing, then, disk, damaged, checker, failures, losses>>
    OBVIOUS
  <2>4. lock' = Nobody
    OBVIOUS
  <2> HIDE DEF Crash
  <2>5. marker' \in BOOLEAN /\ e5Installed' \in BOOLEAN
    BY <2>3, Zenon DEF IInv, TypeOK
  <2>6. TypeOK
    BY DEF IInv
  <2>7. /\ missing' \in [Downloads -> SUBSET Components] /\ then' \in [Downloads -> Places]
        /\ recorded' \subseteq Components /\ damaged' \subseteq Components
        /\ seen' \subseteq Components
        /\ cpc' \in {"idle", "corpus", "bm25", "e5", "link", "passed"}
    BY <2>3, <2>6 DEF TypeOK
  <2>8. /\ corpus' \in {"absent", "good"} /\ archive' \in {"absent", "good", "bad"}
        /\ staging' \in {"absent", "partial", "whole", "tar", "cut tar"}
        /\ tree' \in {"absent", "good", "bad"} /\ treeStaging' \in {"absent", "partial", "good"}
        /\ link' \in {"absent", "canonical", "stale", "tree"}
    BY <2>3, <2>6 DEF TypeOK
  <2>9. /\ backups' \in Nat /\ e5Verified' \in 0..E5Parts
        /\ failures' \in 0..MaxFailures /\ losses' \in 0..MaxLosses
    BY <2>3, <2>6 DEF TypeOK
  <2> QED
    BY <2>1, <2>2, <2>4, <2>5, <2>7, <2>8, <2>9 DEF TypeOK
<1>4. LockIsExclusive'
  BY <1>2, CacheAssumption DEF LockIsExclusive
<1>5. \A q \in Downloads : LocalInv(q)'
  BY <1>2, OutIsQuiet
<1>6. \A c : Valid(c)' <=> Valid(c)
  BY DEF Valid
<1>7. ManifestIsHonest' /\ CheckFollows'
  BY <1>6 DEF IInv, ManifestIsHonest, CheckFollows, Vouched
<1>8. UnmarkedIsComplete'
  BY DEF IInv, UnmarkedIsComplete
<1> QED
  BY <1>3, <1>4, <1>5, <1>7, <1>8 DEF IInv

LEMMA DamageKeepsIInv ==
  ASSUME IInv, NEW c \in Components, Damage(c)
  PROVE  IInv'
<1> USE DEF Damage
<1>1. \A q \in Downloads : pc'[q] = "out" /\ backedUp'[q] = {}
  <2>1. \A q \in Downloads : pc[q] = "out"
    BY CacheAssumption DEF IInv, LockIsExclusive
  <2>2. \A q \in Downloads : backedUp[q] = {}
    BY <2>1, NothingBackedUp DEF LinkPlaces
  <2> QED
    BY <2>1, <2>2 DEF local
<1>2. UNCHANGED <<lock, pc, missing, then, backedUp, recorded, staging, archive,
                  treeStaging, backups, link, marker, seen, cpc, crashes, failures>>
  BY DEF local, checker
<1>3. /\ damaged' = damaged \cup {c}
      /\ \A d : Valid(d) => Valid(d)' \/ d = c
  <2>1. c # "e5" => e5Installed' = e5Installed
    BY Zenon
  <2>2. c # "corpus" => corpus' = corpus
    OBVIOUS
  <2>3. c # "bm25" => tree' = tree
    OBVIOUS
  <2> QED
    BY <2>1, <2>2, <2>3 DEF Valid
<1>4. /\ corpus' \in {corpus, "absent"} /\ tree' \in {tree, "absent", "bad"}
      /\ e5Verified' \in {e5Verified, 0}
      /\ losses' = losses + 1 /\ losses < MaxLosses
  BY DEF E5!Lose
<1>5. e5Installed' = e5Installed \/ e5Installed' = FALSE
  <2>1. CASE c = "e5"
    <3>1. e5Installed' \in {FALSE, e5Installed}
      BY <2>1, Zenon DEF E5!Lose
    <3> QED
      BY <3>1, Zenon
  <2>2. CASE c # "e5"
    BY <2>2, Zenon
  <2> QED
    BY <2>1, <2>2
<1> HIDE DEF Damage
<1>6. TypeOK'
  <2>1. TypeOK
    BY DEF IInv
  <2>2. corpus' \in {"absent", "good"} /\ tree' \in {"absent", "good", "bad"}
    BY <1>4, <2>1 DEF TypeOK
  <2>3. e5Verified' \in 0..E5Parts /\ losses' \in 0..MaxLosses
    <3>1. e5Verified \in 0..E5Parts /\ losses \in 0..MaxLosses
      BY <2>1 DEF TypeOK
    <3> QED
      BY <1>4, <3>1, ConstantFacts
  <2>4. e5Installed' \in BOOLEAN /\ marker' \in BOOLEAN
    BY <1>2, <1>5, <2>1, Zenon DEF TypeOK
  <2>5. damaged' \subseteq Components
    BY <1>3, <2>1 DEF TypeOK
  <2>6. /\ lock' \in Downloads \cup {Nobody} /\ pc' \in [Downloads -> Places]
        /\ missing' \in [Downloads -> SUBSET Components] /\ then' \in [Downloads -> Places]
        /\ backedUp' \in [Downloads -> SUBSET {"tree", "link"}]
        /\ recorded' \subseteq Components /\ seen' \subseteq Components
        /\ cpc' \in {"idle", "corpus", "bm25", "e5", "link", "passed"}
    BY <1>2, <2>1 DEF TypeOK
  <2>7. /\ archive' \in {"absent", "good", "bad"}
        /\ staging' \in {"absent", "partial", "whole", "tar", "cut tar"}
        /\ treeStaging' \in {"absent", "partial", "good"} /\ backups' \in Nat
        /\ link' \in {"absent", "canonical", "stale", "tree"}
        /\ crashes' \in 0..MaxCrashes /\ failures' \in 0..MaxFailures
    BY <1>2, <2>1 DEF TypeOK
  <2> QED
    BY <2>2, <2>3, <2>4, <2>5, <2>6, <2>7 DEF TypeOK
<1>7. LockIsExclusive'
  BY <1>2 DEF IInv, LockIsExclusive
<1>8. \A q \in Downloads : LocalInv(q)'
  BY <1>1, OutIsQuiet
<1>9. \A d : Vouched(d) => Vouched(d)'
  BY <1>3 DEF Vouched
<1>10. ManifestIsHonest' /\ CheckFollows'
  BY <1>2, <1>9 DEF IInv, ManifestIsHonest, CheckFollows, Vouched
<1>11. UnmarkedIsComplete'
  BY <1>2 DEF IInv, UnmarkedIsComplete
<1> QED
  BY <1>6, <1>10, <1>11, <1>7, <1>8 DEF IInv

\* Whatever leaves the downloads and the disk alone keeps what is known of them.
LEMMA QuietKeepsRecords ==
  ASSUME IInv, UNCHANGED <<lock, pc, local, disk, damaged, budget>>
  PROVE  /\ LockIsExclusive' /\ ManifestIsHonest' /\ UnmarkedIsComplete'
         /\ \A q \in Downloads : LocalInv(q)'
         /\ seen' \subseteq Components
            /\ cpc' \in {"idle", "corpus", "bm25", "e5", "link", "passed"} => TypeOK'
<1> USE DEF local, disk, budget
<1>1. LockIsExclusive' /\ UnmarkedIsComplete'
  BY DEF IInv, LockIsExclusive, UnmarkedIsComplete
<1>2. (\A c : Valid(c)' <=> Valid(c)) /\ Reusable' = Reusable
  BY DEF Valid, Reusable
<1>3. ManifestIsHonest'
  BY <1>2 DEF IInv, ManifestIsHonest
<1>4. ASSUME NEW q \in Downloads PROVE LocalInv(q)'
  <2>1. LocalInv(q) /\ Where(q)' = Where(q) /\ Current(q)' = Current(q)
    BY DEF IInv, Where, Current
  <2>2. DetourIsKnown(q)' /\ SurveyIsTrue(q)' /\ ManifestMatches(q)' /\ LinkIsRight(q)'
    BY <1>2, <2>1 DEF LocalInv, DetourIsKnown, SurveyIsTrue, ManifestMatches, LinkIsRight
  <2>3. TargetIsMissing(q)' /\ PiecesAreReady(q)' /\ BackupsAreCounted(q)'
    BY <1>2, <2>1, ZenonT(60) DEF LocalInv, TargetIsMissing, PiecesAreReady, BackupsAreCounted
  <2>4. LastCheckIsReady(q)'
    BY <1>2, <2>1 DEF LocalInv, LastCheckIsReady, Ready
  <2> QED
    BY <2>2, <2>3, <2>4 DEF LocalInv
<1>5. seen' \subseteq Components
      /\ cpc' \in {"idle", "corpus", "bm25", "e5", "link", "passed"} => TypeOK'
  BY DEF IInv, TypeOK
<1> QED
  BY <1>1, <1>3, <1>4, <1>5

LEMMA CheckKeepsIInv ==
  ASSUME IInv, Check
  PROVE  IInv'
<1>1. UNCHANGED <<lock, pc, local, disk, damaged, budget>>
  BY DEF Check, CheckReads, CheckComponent, CheckLink
<1>2. \A c : Vouched(c)' <=> Vouched(c)
  BY <1>1 DEF Vouched, Valid, disk
<1>3. /\ seen' \subseteq Components
      /\ cpc' \in {"idle", "corpus", "bm25", "e5", "link", "passed"}
      /\ CheckFollows'
  <2>1. CASE CheckReads
    BY <2>1 DEF CheckReads, IInv, TypeOK, CheckFollows
  <2>2. CASE CheckComponent
    <3>1. AfterCheckOf["corpus"] = "bm25" /\ AfterCheckOf["bm25"] = "e5"
          /\ AfterCheckOf["e5"] = "link"
      BY DEF AfterCheckOf
    <3>2. cpc \in {"corpus", "bm25", "e5"} /\ seen' = seen
      BY <2>2 DEF CheckComponent, Components
    <3>3. cpc' = "idle" \/ (cpc' = AfterCheckOf[cpc] /\ Valid(cpc))
      <4>1. CASE cpc \in seen /\ Valid(cpc)
        BY <2>2, <4>1 DEF CheckComponent
      <4>2. CASE ~(cpc \in seen /\ Valid(cpc))
        BY <2>2, <4>2 DEF CheckComponent
      <4> QED
        BY <4>1, <4>2
    <3> QED
      BY <1>2, <3>1, <3>2, <3>3 DEF IInv, TypeOK, CheckFollows, Vouched
  <2>3. CASE CheckLink
    BY <1>2, <2>3 DEF CheckLink, IInv, TypeOK, CheckFollows
  <2> QED
    BY <2>1, <2>2, <2>3 DEF Check
<1> QED
  BY <1>1, <1>3, QuietKeepsRecords DEF IInv

LEMMA NextKeepsIInv == IInv /\ [Next]_vars => IInv'
<1> SUFFICES ASSUME IInv, [Next]_vars PROVE IInv'
  OBVIOUS
<1>1. CASE \E p \in Downloads : Step(p) \/ Crash(p)
  BY <1>1, StepKeepsIInv, CrashKeepsIInv
<1>2. CASE \E c \in Components : Damage(c)
  BY <1>2, DamageKeepsIInv
<1>3. CASE Check
  BY <1>3, CheckKeepsIInv
<1>4. CASE UNCHANGED vars
  <2>1. UNCHANGED <<lock, pc, local, disk, damaged, budget, seen, cpc>>
    BY <1>4 DEF vars, checker
  <2>2. CheckFollows'
    BY <2>1 DEF IInv, CheckFollows, Vouched, Valid, disk
  <2>3. seen' \subseteq Components /\ cpc' \in {"idle", "corpus", "bm25", "e5", "link", "passed"}
    BY <2>1 DEF IInv, TypeOK
  <2> QED
    BY <2>1, <2>2, <2>3, QuietKeepsRecords DEF IInv
<1> QED
  BY <1>1, <1>2, <1>3, <1>4 DEF Next

LEMMA InitIInv == Init => IInv
<1> SUFFICES ASSUME Init PROVE IInv
  OBVIOUS
<1>1. TypeOK
  <2>1. marker \in BOOLEAN /\ e5Installed \in BOOLEAN
    BY Zenon DEF Init
  <2>2. e5Verified = 0 /\ backups = 0 /\ crashes = 0 /\ failures = 0 /\ losses = 0
    BY DEF Init
  <2>3. /\ e5Verified \in 0..E5Parts /\ backups \in Nat /\ crashes \in 0..MaxCrashes
        /\ failures \in 0..MaxFailures /\ losses \in 0..MaxLosses
    BY <2>2, ConstantFacts
  <2>4. staging \in {"absent", "partial", "whole", "tar", "cut tar"}
        /\ link \in {"absent", "canonical", "stale", "tree"}
    BY CacheAssumption DEF Init
  <2>5. pc \in [Downloads -> Places] /\ then \in [Downloads -> Places]
    BY DEF Init, Places
  <2> QED
    BY <2>1, <2>3, <2>4, <2>5 DEF Init, TypeOK
<1>2. LockIsExclusive /\ ManifestIsHonest /\ UnmarkedIsComplete /\ CheckFollows
  BY CacheAssumption DEF Init, LockIsExclusive, ManifestIsHonest, UnmarkedIsComplete,
                         CheckFollows
<1>3. \A q \in Downloads : pc[q] = "out" /\ backedUp[q] = {}
  BY DEF Init
<1>4. \A q \in Downloads : LocalInv(q)
  BY <1>3, ZenonT(60) DEF LocalInv, DetourIsKnown, SurveyIsTrue, ManifestMatches, LinkIsRight,
              TargetIsMissing, PiecesAreReady, BackupsAreCounted, LastCheckIsReady,
              Where, LinkPlaces, Surveyed, Building, CorpusPlaces, TreePlaces
<1> QED
  BY <1>1, <1>2, <1>4 DEF IInv

LEMMA Invariance == Spec => []IInv
<1>1. Init => IInv
  BY InitIInv
<1>2. IInv /\ [Next]_vars => IInv'
  BY NextKeepsIInv
<1> QED
  BY <1>1, <1>2, PTL DEF Spec

-----------------------------------------------------------------------------
(* The theorems *)

\* Whichever step a download dies at and whatever is lost from outside, every
\* component with an artifact record in the manifest is valid or was damaged
\* after its record was written, and without the incomplete marker the manifest
\* is complete or empty (_download of hard_assets.py).
THEOREM RecordsStayTrue == Spec => []RecordsAreTrue
<1>1. IInv => RecordsAreTrue
  BY DEF IInv, RecordsAreTrue
<1> QED
  BY <1>1, Invariance, PTL

\* The lock-free check passes only on components that are valid at that moment,
\* however its reads interleave with a download that rewrites the manifest; and
\* the check that ends _download never fails.
THEOREM ChecksStaySound == Spec => []ChecksAreSound
<1>1. IInv => CheckIsSound
  BY DEF IInv, CheckFollows, CheckIsSound, Vouched, Components
<1>2. IInv => LastCheckPasses
  BY DEF IInv, LocalInv, LastCheckIsReady, LastCheckPasses, At
<1>3. IInv => ChecksAreSound
  BY <1>1, <1>2 DEF ChecksAreSound
<1> QED
  BY <1>3, Invariance, PTL

\* No step of any download withdraws or invalidates a component that is recorded
\* and valid, not even for a moment; only a loss from outside does.
THEOREM NothingReusableIsLost == Spec => ReusableStays
<1>1. IInv /\ [Next]_vars => [losses' = losses => Reusable \subseteq Reusable']_vars
  <2> SUFFICES ASSUME IInv, Next, losses' = losses
               PROVE  Reusable \subseteq Reusable'
    BY DEF vars
  <2>1. CASE \E p \in Downloads : Step(p)
    <3> PICK p \in Downloads : Step(p)
      BY <2>1
    <3>1. \A c : Valid(c) => Valid(c)'
      BY StepKeepsValid
    <3>2. Effects(p) /\ SurveyIsTrue(p)
      BY WhatAStepDoes DEF IInv, LocalInv
    <3>3. pc[p] = "declare" => Reusable \subseteq Components \ missing[p]
      BY <3>2 DEF SurveyIsTrue, Surveyed, Where, LinkPlaces, IInv, TypeOK, Reusable
    <3>4. Reusable \subseteq recorded'
      BY <3>2, <3>3 DEF Effects, Reusable, IInv, TypeOK
    <3> QED
      BY <3>1, <3>4 DEF Reusable
  <2>2. CASE \E p \in Downloads : Crash(p)
    BY <2>2 DEF Crash, disk, Reusable, Valid
  <2>3. CASE \E c \in Components : Damage(c)
    <3>1. losses' = losses + 1
      BY <2>3 DEF Damage, E5!Lose
    <3>2. losses \in 0..MaxLosses
      BY DEF IInv, TypeOK
    <3> QED
      BY <3>1, <3>2, ConstantFacts
  <2>4. CASE Check
    BY <2>4 DEF Check, CheckReads, CheckComponent, CheckLink, disk, Reusable, Valid
  <2> QED
    BY <2>1, <2>2, <2>3, <2>4 DEF Next
<1> QED
  BY <1>1, Invariance, PTL DEF Spec, ReusableStays

\* A retry after a crash between installing the BM25 tree and recording it does
\* not download it again (hard_assets.py:993): a snapshot is only fetched when
\* no pinned tree is in place.
THEOREM NoTreeIsFetchedTwice == Spec => InstalledTreeIsAdopted
<1>1. IInv /\ [Next]_vars => [\A p \in Downloads : Snapshot(p) => tree # "good"]_vars
  BY DEF IInv, LocalInv, PiecesAreReady, Snapshot, At
<1> QED
  BY <1>1, Invariance, PTL DEF Spec, InstalledTreeIsAdopted
=============================================================================
