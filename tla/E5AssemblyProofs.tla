--------------------------- MODULE E5AssemblyProofs ---------------------------
(***************************************************************************)
(* Proofs about E5Assembly, for any number and size of parts, any leftover *)
(* of earlier releases and any bounds on crashes, failures and losses.     *)
(***************************************************************************)
EXTENDS E5Assembly, TLAPS

\* The steps at which the run holds a part list it works from ...
Working == {"save", "fetch", "size", "copy", "verify", "discard",
            "checkpoint", "unlink", "install"}
\* ... those at which a part is still to come ...
InPart == {"fetch", "size", "copy", "verify", "discard"}
\* ... and those at which the staging file ends at the verified prefix.
AtPrefix == {"save", "fetch", "size", "discard", "checkpoint", "unlink",
             "install"}
\* The steps at which the state file on the disk agrees with the run.
Saved == InPart \cup {"unlink", "install"}

\* The run's own list and offset describe a verified part of the staging file.
RunIsHonest ==
  pc \in Working =>
    /\ IsPartPrefix(completed)
    /\ expectedPrefix = End[Len(completed)]
    /\ staged
    /\ Len(staging) >= expectedPrefix
    /\ IsIndexPrefix(staging, expectedPrefix)

\* How far the staging file reaches at each step.
StagingLength ==
  /\ pc \in AtPrefix => Len(staging) = expectedPrefix
  /\ pc \in InPart => Len(completed) < NumParts
  /\ pc = "copy" => Len(staging) < End[NextPart]
  /\ pc = "verify" => Len(staging) = End[NextPart]
  /\ pc = "install" => Len(completed) = NumParts

\* The bytes of a good part are right as soon as they are copied.
CopyIsFaithful ==
  pc \in {"copy", "verify"} /\ source[NextPart] = "good" =>
    IsIndexPrefix(staging, Len(staging))

\* The state file is at most one part behind the run.
CheckpointFollows ==
  /\ pc \in Saved => checkpoint = completed
  /\ pc = "checkpoint" =>
       /\ IsPartPrefix(checkpoint)
       /\ Len(completed) = Len(checkpoint) + 1

IInv ==
  /\ TypeOK
  /\ TrustedBytesAreVerified
  /\ RunIsHonest
  /\ StagingLength
  /\ CopyIsFaithful
  /\ CheckpointFollows

-----------------------------------------------------------------------------
(* Facts about the offsets and about what survives *)

\* The offsets are naturals, increase, and bound every part.
LEMMA EndFacts ==
  /\ NumParts \in Nat \ {0}
  /\ Total \in Nat
  /\ \A n \in 0..NumParts : End[n] \in Nat /\ End[n] <= Total
  /\ \A m, n \in 0..NumParts : m <= n => End[m] <= End[n]
  /\ End[0] = 0
  /\ \A p \in Parts : PartSize(p) \in Nat /\ PartSize(p) > 0
  /\ \A p \in Parts : End[p - 1] + PartSize(p) = End[p]
BY PartsAssumption DEF Total, Parts, PartSize

\* What survives is a part prefix that the staging file is long enough for.
SurvivingIsSound ==
  /\ Surviving \in Seq(Parts)
  /\ IsPartPrefix(Surviving)
  /\ Len(Surviving) \in 0..NumParts
  /\ End[Len(Surviving)] \in Nat
  /\ End[Len(Surviving)] <= Len(staging)

LEMMA SurvivingFacts == TypeOK => SurvivingIsSound
<1> SUFFICES ASSUME TypeOK PROVE SurvivingIsSound
  OBVIOUS
<1>1. /\ checkpoint \in Seq(Parts)
      /\ Len(checkpoint) \in Nat
      /\ Len(staging) \in Nat
  BY DEF TypeOK
<1>2. /\ <<>> \in Seq(Parts)
      /\ IsPartPrefix(<<>>)
      /\ Len(<<>>) = 0
  BY EndFacts DEF IsPartPrefix
<1>3. CASE IsPartPrefix(checkpoint) /\ staged
           /\ Len(staging) >= End[Len(checkpoint)]
  <2>1. Surviving = checkpoint
    BY <1>3 DEF Surviving
  <2>2. Len(checkpoint) \in 0..NumParts
    BY <1>1, <1>3, EndFacts DEF IsPartPrefix
  <2> QED
    BY <1>1, <1>3, <2>1, <2>2, EndFacts DEF SurvivingIsSound
<1>4. CASE ~(IsPartPrefix(checkpoint) /\ staged
             /\ Len(staging) >= End[Len(checkpoint)])
  <2>1. Surviving = <<>>
    BY <1>4 DEF Surviving
  <2> QED
    BY <1>1, <1>2, <2>1, EndFacts DEF SurvivingIsSound
<1> QED
  BY <1>3, <1>4

LEMMA SurvivingFactsNext == TypeOK' => SurvivingIsSound'
BY SurvivingFacts, PTL

\* A part prefix can be extended by the next part only.
LEMMA ExtendPrefix ==
  ASSUME NEW names \in Seq(Parts), IsPartPrefix(names), Len(names) < NumParts
  PROVE  /\ Append(names, Len(names) + 1) \in Seq(Parts)
         /\ IsPartPrefix(Append(names, Len(names) + 1))
<1> DEFINE longer == Append(names, Len(names) + 1)
<1>1. /\ Len(names) \in Nat
      /\ Len(names) + 1 \in Parts
  BY EndFacts DEF Parts
<1>2. longer \in Seq(Parts) /\ Len(longer) = Len(names) + 1
  BY <1>1
<1>3. \A i \in 1..Len(longer) : longer[i] = i
  BY <1>1, <1>2 DEF IsPartPrefix
<1> QED
  BY <1>1, <1>2, <1>3, EndFacts DEF IsPartPrefix

-----------------------------------------------------------------------------
(* The inductive invariant *)

LEMMA InitIInv == Init => IInv
<1> SUFFICES ASSUME Init PROVE IInv
  OBVIOUS
<1>1. TypeOK
  <2>1. pc \in RunSteps \cup {"idle"} /\ source \in [Parts -> FileStates]
    BY DEF Init, RunSteps, FileStates
  <2>2. keep \in BOOLEAN /\ recorded \in BOOLEAN
    BY DEF Init
  <2>3. staged \in BOOLEAN
    BY Zenon DEF Init
  <2>4. completed \in Seq(Parts) /\ expectedPrefix \in Nat
    BY DEF Init
  <2>5. /\ staging \in Seq(Byte)
        /\ target \in Seq(Byte)
        /\ checkpoint \in Seq(Parts)
    BY EnvironmentAssumption DEF Init
  <2>6. crashes \in 0..MaxCrashes /\ failures \in 0..MaxFailures
        /\ losses \in 0..MaxLosses
    BY EnvironmentAssumption DEF Init
  <2> QED
    BY <2>1, <2>2, <2>3, <2>4, <2>5, <2>6 DEF TypeOK
<1>2. Surviving = <<>>
  BY EnvironmentAssumption DEF Init, Surviving
<1>3. TrustedBytesAreVerified
  BY <1>2, EndFacts DEF TrustedBytesAreVerified, IsIndexPrefix
<1> QED
  BY <1>1, <1>3 DEF Init, IInv, RunIsHonest, StagingLength, CopyIsFaithful,
     CheckpointFollows, Working, AtPrefix, InPart, Saved

\* Cutting a sequence of bytes keeps what is before the cut.
LEMMA CutFacts ==
  ASSUME NEW bytes \in Seq(Byte), NEW n \in 0..Len(bytes)
  PROVE  /\ SubSeq(bytes, 1, n) \in Seq(Byte)
         /\ Len(SubSeq(bytes, 1, n)) = n
         /\ \A k \in 1..n : SubSeq(bytes, 1, n)[k] = bytes[k]
OBVIOUS

\* Surviving is unchanged by a step that leaves its three variables alone.
LEMMA SurvivingUnchanged ==
  ASSUME UNCHANGED <<staged, staging, checkpoint>>
  PROVE  Surviving' = Surviving
BY DEF Surviving, IsPartPrefix

\* When the state file agrees with an honest run, all of its list survives.
LEMMA SavedSurvives ==
  ASSUME TypeOK, IsPartPrefix(checkpoint), staged,
         Len(staging) >= End[Len(checkpoint)]
  PROVE  Surviving = checkpoint
BY DEF Surviving

\* ... and so then are the trusted bytes.
LEMMA TrustedUnchanged ==
  ASSUME TrustedBytesAreVerified, UNCHANGED <<staged, staging, checkpoint>>
  PROVE  TrustedBytesAreVerified'
BY SurvivingUnchanged DEF TrustedBytesAreVerified, IsIndexPrefix

\* Bytes that are verified up to the end of the file can all be trusted.
LEMMA TrustedNext ==
  ASSUME TypeOK', NEW n \in Nat, IsIndexPrefix(staging', n),
         End[Len(Surviving')] <= n
  PROVE  TrustedBytesAreVerified'
<1>1. Len(Surviving') \in 0..NumParts
  BY SurvivingFactsNext DEF SurvivingIsSound
<1> QED
  BY <1>1, EndFacts DEF TrustedBytesAreVerified, IsIndexPrefix

-----------------------------------------------------------------------------
(* One lemma per action *)

LEMMA StartStep == IInv /\ Start => IInv'
<1> SUFFICES ASSUME IInv, Start PROVE IInv'
  OBVIOUS
<1>1. TypeOK'
  BY EnvironmentAssumption DEF IInv, Start, TypeOK, RunSteps, budget
<1>2. TrustedBytesAreVerified'
  BY TrustedUnchanged DEF IInv, Start
<1> QED
  BY <1>1, <1>2 DEF IInv, Start, RunIsHonest, StagingLength, CopyIsFaithful,
     CheckpointFollows, Working, AtPrefix, InPart, Saved

LEMMA RepairStep == IInv /\ Repair => IInv'
<1> SUFFICES ASSUME IInv, Repair PROVE IInv'
  OBVIOUS
<1> DEFINE n == End[Len(Surviving)]
<1>1. /\ Surviving \in Seq(Parts) /\ IsPartPrefix(Surviving)
      /\ Len(Surviving) \in 0..NumParts
      /\ n \in Nat /\ n <= Len(staging)
  BY SurvivingFacts DEF IInv, SurvivingIsSound
<1>2. staging \in Seq(Byte)
  BY DEF IInv, TypeOK
<1>3. /\ staging' \in Seq(Byte)
      /\ Len(staging') = n
      /\ \A k \in 1..n : staging'[k] = staging[k]
  BY <1>1, <1>2, CutFacts DEF Repair
<1>4. IsIndexPrefix(staging', n)
  BY <1>3 DEF IInv, TrustedBytesAreVerified, IsIndexPrefix
<1>5. TypeOK'
  BY <1>1, <1>3 DEF IInv, TypeOK, Repair, RunSteps, budget
<1>6. TrustedBytesAreVerified'
  <2>1. End[Len(Surviving')] <= n
    BY <1>3, <1>5, SurvivingFactsNext DEF SurvivingIsSound
  <2> QED
    BY <1>1, <1>4, <1>5, <2>1, TrustedNext
<1>7. RunIsHonest'
  BY <1>1, <1>3, <1>4 DEF RunIsHonest, Repair, IsPartPrefix, IsIndexPrefix
<1> QED
  BY <1>3, <1>5, <1>6, <1>7 DEF IInv, Repair, StagingLength, CopyIsFaithful,
     CheckpointFollows, AtPrefix, InPart, Saved

LEMMA SaveStateStep == IInv /\ SaveState => IInv'
<1> SUFFICES ASSUME IInv, SaveState PROVE IInv'
  OBVIOUS
<1>1. /\ IsPartPrefix(completed)
      /\ expectedPrefix = End[Len(completed)] /\ staged
      /\ Len(staging) = expectedPrefix
      /\ IsIndexPrefix(staging, expectedPrefix)
  BY DEF IInv, SaveState, RunIsHonest, StagingLength, Working, AtPrefix
<1>2. TypeOK'
  BY DEF IInv, TypeOK, SaveState, RunSteps, NextInLoop, run, budget
<1>3. TrustedBytesAreVerified'
  <2>1. End[Len(Surviving')] <= expectedPrefix
    BY <1>1, <1>2, SurvivingFactsNext DEF SurvivingIsSound, SaveState
  <2>2. expectedPrefix \in Nat /\ IsIndexPrefix(staging', expectedPrefix)
    BY <1>1 DEF IInv, TypeOK, SaveState, IsIndexPrefix
  <2> QED
    BY <1>2, <2>1, <2>2, TrustedNext
<1>4. RunIsHonest'
  BY <1>1 DEF RunIsHonest, SaveState, IsPartPrefix, IsIndexPrefix, run
<1>5. StagingLength'
  <2>1. Len(completed) \in Nat /\ Len(completed) <= NumParts
    BY <1>1 DEF IInv, TypeOK, IsPartPrefix
  <2>2. Len(completed) = NumParts \/ Len(completed) < NumParts
    BY <2>1, EndFacts
  <2> QED
    BY <1>1, <2>2 DEF StagingLength, SaveState, NextInLoop, AtPrefix, InPart,
       run
<1>6. CopyIsFaithful' /\ CheckpointFollows'
  BY DEF SaveState, NextInLoop, CopyIsFaithful, CheckpointFollows, Saved, InPart,
     run
<1> QED
  BY <1>2, <1>3, <1>4, <1>5, <1>6 DEF IInv

LEMMA FetchStep == IInv /\ Fetch => IInv'
<1> SUFFICES ASSUME IInv, Fetch PROVE IInv'
  OBVIOUS
<1>1. /\ source' \in [Parts -> FileStates]
      /\ failures' \in {failures, failures + 1} /\ failures' <= MaxFailures
  <2>1. \/ UNCHANGED source
        \/ \E f \in FileStates : source' = [source EXCEPT ![NextPart] = f]
    BY DEF Fetch, FileStates
  <2>2. source \in [Parts -> FileStates]
    BY DEF IInv, TypeOK
  <2>3. source' \in [Parts -> FileStates]
    BY <2>1, <2>2
  <2>4. failures' \in {failures, failures + 1} /\ failures' <= MaxFailures
    BY EnvironmentAssumption DEF IInv, TypeOK, Fetch
  <2> QED
    BY <2>3, <2>4
<1>2. TypeOK'
  BY <1>1, EnvironmentAssumption DEF IInv, TypeOK, Fetch, RunSteps, run
<1>3. TrustedBytesAreVerified'
  BY TrustedUnchanged DEF IInv, Fetch
<1>4. RunIsHonest'
  BY DEF IInv, RunIsHonest, Fetch, IsPartPrefix, IsIndexPrefix, run, Working
<1> QED
  BY <1>2, <1>3, <1>4 DEF IInv, Fetch, StagingLength, CopyIsFaithful,
     CheckpointFollows, AtPrefix, InPart, Saved, run

LEMMA FailStep ==
  ASSUME IInv, pc' = "idle", TypeOK',
         UNCHANGED <<staged, staging, checkpoint>>
  PROVE  IInv'
BY TrustedUnchanged DEF IInv, RunIsHonest, StagingLength, CopyIsFaithful,
   CheckpointFollows, Working, AtPrefix, InPart, Saved

LEMMA CheckSizeStep == IInv /\ CheckSize => IInv'
<1> SUFFICES ASSUME IInv, CheckSize PROVE IInv'
  OBVIOUS
<1>1. TypeOK'
  BY DEF IInv, TypeOK, CheckSize, Fail, RunSteps, run, disk, budget
<1>2. CASE source[NextPart] = "short"
  BY <1>1, <1>2, FailStep DEF CheckSize, Fail, disk
<1>3. CASE source[NextPart] # "short"
  <2>1. /\ pc = "size" /\ pc' = "copy"
        /\ UNCHANGED <<run, disk, budget>>
    BY <1>3 DEF CheckSize
  <2>2. TrustedBytesAreVerified'
    BY <2>1, TrustedUnchanged DEF IInv, disk
  <2>3. /\ IsPartPrefix(completed) /\ staged
        /\ expectedPrefix = End[Len(completed)]
        /\ Len(staging) = expectedPrefix
        /\ IsIndexPrefix(staging, expectedPrefix)
        /\ Len(completed) < NumParts
        /\ checkpoint = completed
    BY <2>1 DEF IInv, RunIsHonest, StagingLength, CheckpointFollows, Working,
       AtPrefix, InPart, Saved
  <2>4. Len(staging) < End[NextPart]
    BY <2>3, PartsAssumption DEF IInv, TypeOK, NextPart
  <2>5. RunIsHonest'
    BY <2>1, <2>3 DEF IInv, RunIsHonest, IsPartPrefix, IsIndexPrefix, run, disk
  <2>6. StagingLength' /\ CopyIsFaithful' /\ CheckpointFollows'
    BY <2>1, <2>3, <2>4 DEF StagingLength, CopyIsFaithful, CheckpointFollows,
       AtPrefix, InPart, Saved, NextPart, IsIndexPrefix, run, disk
  <2> QED
    BY <1>1, <2>2, <2>5, <2>6 DEF IInv
<1> QED
  BY <1>2, <1>3

LEMMA CopyByteStep == IInv /\ CopyByte => IInv'
<1> SUFFICES ASSUME IInv, CopyByte PROVE IInv'
  OBVIOUS
<1> DEFINE p == NextPart
           copied == Len(staging) - expectedPrefix
           byte == IF source[p] = "good" THEN End[p - 1] + copied + 1 ELSE 0
<1>1. /\ pc = "copy" /\ copied < PartSize(p)
      /\ staging' = Append(staging, byte)
      /\ pc' = IF copied + 1 = PartSize(p) THEN "verify" ELSE "copy"
      /\ UNCHANGED <<run, staged, checkpoint, source, target, recorded, budget>>
  BY DEF CopyByte
<1>2. /\ IsPartPrefix(completed) /\ staged
      /\ expectedPrefix = End[Len(completed)]
      /\ Len(staging) >= expectedPrefix
      /\ IsIndexPrefix(staging, expectedPrefix)
      /\ Len(completed) < NumParts
      /\ checkpoint = completed
      /\ source[p] = "good" => IsIndexPrefix(staging, Len(staging))
  BY <1>1 DEF IInv, RunIsHonest, StagingLength, CheckpointFollows,
     CopyIsFaithful, Working, InPart, Saved
<1>3. /\ p \in Parts /\ p - 1 = Len(completed)
      /\ expectedPrefix = End[p - 1] /\ expectedPrefix \in Nat
      /\ End[p - 1] + PartSize(p) = End[p] /\ PartSize(p) \in Nat
      /\ End[p] \in Nat /\ End[p] <= Total
      /\ staging \in Seq(Byte) /\ Len(staging) \in Nat
  <2>1. Len(completed) \in Nat /\ staging \in Seq(Byte)
    BY DEF IInv, TypeOK
  <2>2. p \in Parts /\ p - 1 = Len(completed)
    BY <2>1, <1>2, EndFacts DEF NextPart, Parts
  <2> QED
    BY <1>2, <2>1, <2>2, EndFacts, SMTT(30) DEF Parts
<1>4. /\ Len(staging) + 1 <= End[p]
      /\ copied + 1 = PartSize(p) <=> Len(staging) + 1 = End[p]
  BY <1>1, <1>2, <1>3, SMTT(30)
<1>5. byte \in Byte /\ (source[p] = "good" => byte = Len(staging) + 1)
  <2>1. End[p - 1] + copied + 1 = Len(staging) + 1
    BY <1>3
  <2>2. 0 \in Byte /\ Len(staging) + 1 \in Byte
    BY <1>3, <1>4, EndFacts DEF Byte
  <2> HIDE DEF copied
  <2> QED
    BY <2>1, <2>2
<1> HIDE DEF byte, copied
<1>6. /\ staging' \in Seq(Byte) /\ Len(staging') = Len(staging) + 1
      /\ staging'[Len(staging) + 1] = byte
      /\ \A k \in 1..Len(staging) : staging'[k] = staging[k]
  BY <1>1, <1>3, <1>5
<1>7. TypeOK'
  BY <1>1, <1>6 DEF IInv, TypeOK, RunSteps, run, budget
<1>8. IsIndexPrefix(staging', expectedPrefix)
  BY <1>2, <1>3, <1>6 DEF IsIndexPrefix
<1>9. TrustedBytesAreVerified'
  <2>1. Len(staging') >= End[Len(completed)]
    BY <1>2, <1>3, <1>6
  <2>2. Surviving' = completed
    BY <1>1, <1>2, <2>1 DEF Surviving, IsPartPrefix
  <2> QED
    BY <1>2, <1>3, <1>7, <1>8, <2>2, TrustedNext
<1>10. RunIsHonest'
  BY <1>1, <1>2, <1>3, <1>6, <1>8 DEF RunIsHonest, IsPartPrefix, IsIndexPrefix,
     run
<1>11. CopyIsFaithful'
  <2>1. source[p] = "good" =>
          \A k \in 1..(Len(staging) + 1) : staging'[k] = k
    BY <1>2, <1>3, <1>5, <1>6 DEF IsIndexPrefix
  <2> QED
    BY <1>1, <1>6, <2>1 DEF CopyIsFaithful, IsIndexPrefix, NextPart, run
<1>12. StagingLength'
  BY <1>1, <1>2, <1>3, <1>4, <1>6 DEF StagingLength, AtPrefix, InPart, NextPart,
     run
<1>13. CheckpointFollows'
  BY <1>1, <1>2 DEF CheckpointFollows, Saved, InPart, run
<1> QED
  BY <1>7, <1>9, <1>10, <1>11, <1>12, <1>13 DEF IInv

LEMMA AcceptStep == IInv /\ Accept => IInv'
<1> SUFFICES ASSUME IInv, Accept PROVE IInv'
  OBVIOUS
<1>1. /\ pc = "verify" /\ pc' = "checkpoint" /\ source[NextPart] = "good"
      /\ expectedPrefix' = expectedPrefix + PartSize(NextPart)
      /\ completed' = Append(completed, NextPart)
      /\ UNCHANGED <<keep, disk, budget>>
  BY DEF Accept
<1>2. /\ IsPartPrefix(completed) /\ staged
      /\ expectedPrefix = End[Len(completed)]
      /\ Len(completed) < NumParts
      /\ Len(staging) = End[NextPart]
      /\ checkpoint = completed
      /\ IsIndexPrefix(staging, Len(staging))
  BY <1>1 DEF IInv, RunIsHonest, StagingLength, CheckpointFollows,
     CopyIsFaithful, Working, InPart, Saved
<1>3. completed \in Seq(Parts) /\ Len(completed) \in Nat
  BY DEF IInv, TypeOK
<1>4. /\ completed' \in Seq(Parts) /\ IsPartPrefix(completed')
      /\ Len(completed') = Len(completed) + 1
  BY <1>1, <1>2, <1>3, ExtendPrefix DEF NextPart
<1>5. NextPart \in Parts /\ NextPart = Len(completed) + 1
  BY <1>2, <1>3, EndFacts DEF NextPart, Parts
<1>6. expectedPrefix' = End[Len(completed')] /\ expectedPrefix' \in Nat
      /\ expectedPrefix' = Len(staging)
  <2>1. expectedPrefix' = End[NextPart] /\ End[NextPart] \in Nat
    BY <1>1, <1>2, <1>3, <1>5, EndFacts DEF Parts
  <2> QED
    BY <1>2, <1>4, <1>5, <2>1
<1>7. TypeOK'
  BY <1>1, <1>4, <1>6 DEF IInv, TypeOK, RunSteps, disk, budget
<1>8. TrustedBytesAreVerified'
  BY <1>1, TrustedUnchanged DEF IInv, disk
<1>9. RunIsHonest'
  BY <1>1, <1>2, <1>4, <1>6 DEF RunIsHonest, IsPartPrefix, IsIndexPrefix, disk
<1> QED
  BY <1>1, <1>2, <1>4, <1>6, <1>7, <1>8, <1>9 DEF IInv, StagingLength,
     CopyIsFaithful, CheckpointFollows, AtPrefix, InPart, Saved, disk,
     IsPartPrefix

LEMMA RejectStep == IInv /\ Reject => IInv'
<1> SUFFICES ASSUME IInv, Reject PROVE IInv'
  OBVIOUS
<1>1. /\ pc = "verify" /\ pc' = "discard"
      /\ staging' = SubSeq(staging, 1, expectedPrefix)
      /\ UNCHANGED <<run, staged, checkpoint, source, target, recorded, budget>>
  BY DEF Reject
<1>2. /\ IsPartPrefix(completed) /\ staged
      /\ expectedPrefix = End[Len(completed)]
      /\ Len(staging) >= expectedPrefix
      /\ IsIndexPrefix(staging, expectedPrefix)
      /\ Len(completed) < NumParts
      /\ checkpoint = completed
  BY <1>1 DEF IInv, RunIsHonest, StagingLength, CheckpointFollows,
     Working, InPart, Saved
<1>3. staging \in Seq(Byte) /\ expectedPrefix \in 0..Len(staging)
  BY <1>2 DEF IInv, TypeOK
<1>4. /\ staging' \in Seq(Byte) /\ Len(staging') = expectedPrefix
      /\ \A k \in 1..expectedPrefix : staging'[k] = staging[k]
  BY <1>1, <1>3, CutFacts
<1>5. TypeOK'
  BY <1>1, <1>4 DEF IInv, TypeOK, RunSteps, run, budget
<1>6. IsIndexPrefix(staging', expectedPrefix)
  BY <1>2, <1>4 DEF IsIndexPrefix
<1>7. TrustedBytesAreVerified'
  <2>1. Surviving' = completed
    BY <1>1, <1>2, <1>3, <1>4 DEF Surviving, IsPartPrefix
  <2> QED
    BY <1>2, <1>3, <1>5, <1>6, <2>1, TrustedNext
<1>8. RunIsHonest'
  BY <1>1, <1>2, <1>3, <1>4, <1>6 DEF RunIsHonest, IsPartPrefix, IsIndexPrefix,
     run
<1> QED
  BY <1>1, <1>2, <1>4, <1>5, <1>7, <1>8 DEF IInv, StagingLength,
     CopyIsFaithful, CheckpointFollows, AtPrefix, InPart, Saved, run

LEMMA DiscardStep == IInv /\ Discard => IInv'
<1> SUFFICES ASSUME IInv, Discard PROVE IInv'
  OBVIOUS
<1>1. TypeOK'
  BY DEF IInv, TypeOK, Discard, Fail, FileStates, RunSteps, run, budget
<1> QED
  BY <1>1, FailStep DEF Discard, Fail

LEMMA CheckpointStep == IInv /\ Checkpoint => IInv'
<1> SUFFICES ASSUME IInv, Checkpoint PROVE IInv'
  OBVIOUS
<1>1. /\ pc = "checkpoint" /\ checkpoint' = completed
      /\ pc' \in {"unlink", NextInLoop(completed)}
      /\ UNCHANGED <<run, staged, staging, source, target, recorded, budget>>
  BY DEF Checkpoint
<1>2. /\ IsPartPrefix(completed) /\ staged
      /\ expectedPrefix = End[Len(completed)] /\ expectedPrefix \in Nat
      /\ Len(staging) = expectedPrefix
      /\ IsIndexPrefix(staging, expectedPrefix)
      /\ completed \in Seq(Parts)
  BY <1>1 DEF IInv, TypeOK, RunIsHonest, StagingLength, Working, AtPrefix
<1>3. TypeOK'
  BY <1>1, <1>2 DEF IInv, TypeOK, RunSteps, NextInLoop, run, budget
<1>4. TrustedBytesAreVerified'
  <2>1. End[Len(Surviving')] <= expectedPrefix
    BY <1>1, <1>2, <1>3, SurvivingFactsNext DEF SurvivingIsSound
  <2> QED
    BY <1>1, <1>2, <1>3, <2>1, TrustedNext DEF IsIndexPrefix
<1>5. RunIsHonest'
  BY <1>1, <1>2 DEF RunIsHonest, IsPartPrefix, IsIndexPrefix, run
<1>6. Len(completed) = NumParts \/ Len(completed) < NumParts
  BY <1>2, EndFacts DEF IsPartPrefix
<1> QED
  BY <1>1, <1>2, <1>3, <1>4, <1>5, <1>6 DEF IInv, StagingLength,
     CopyIsFaithful, CheckpointFollows, NextInLoop, AtPrefix, InPart, Saved, run

LEMMA UnlinkPartStep == IInv /\ UnlinkPart => IInv'
<1> SUFFICES ASSUME IInv, UnlinkPart PROVE IInv'
  OBVIOUS
<1>1. /\ pc = "unlink" /\ pc' = NextInLoop(completed)
      /\ source' = [source EXCEPT ![Len(completed)] = "absent"]
      /\ UNCHANGED <<run, staged, staging, checkpoint, target, recorded, budget>>
  BY DEF UnlinkPart
<1>2. TypeOK'
  BY <1>1 DEF IInv, TypeOK, RunSteps, FileStates, NextInLoop, run, budget
<1>3. TrustedBytesAreVerified'
  BY <1>1, TrustedUnchanged DEF IInv
<1>4. RunIsHonest'
  BY <1>1 DEF IInv, RunIsHonest, IsPartPrefix, IsIndexPrefix, Working, run
<1>5. Len(completed) = NumParts \/ Len(completed) < NumParts
  BY <1>1, EndFacts DEF IInv, TypeOK, RunIsHonest, Working, IsPartPrefix
<1> QED
  BY <1>1, <1>2, <1>3, <1>4, <1>5 DEF IInv, StagingLength, CopyIsFaithful,
     CheckpointFollows, NextInLoop, AtPrefix, InPart, Saved, run

LEMMA InstallStep == IInv /\ Install => IInv'
<1> SUFFICES ASSUME IInv, Install PROVE IInv'
  OBVIOUS
<1>1. TypeOK'
  <2>1. /\ staging \in Seq(Byte) /\ target' = staging
        /\ staging' = <<>> /\ staged' = FALSE
    BY DEF IInv, TypeOK, Install
  <2>2. staging' \in Seq(Byte) /\ target' \in Seq(Byte) /\ staged' \in BOOLEAN
    <3>1. <<>> \in Seq(Byte)
      OBVIOUS
    <3> QED
      BY <2>1, <3>1, Zenon
  <2>3. /\ pc' = "clear"
        /\ UNCHANGED <<run, checkpoint, source, recorded, budget>>
    BY DEF Install
  <2> QED
    BY <2>3, <2>2 DEF IInv, TypeOK, RunSteps, run, budget
<1>2. TrustedBytesAreVerified'
  <2>1. Surviving' = <<>>
    BY DEF Install, Surviving
  <2> QED
    BY <2>1, EndFacts DEF TrustedBytesAreVerified, IsIndexPrefix
<1> QED
  BY <1>1, <1>2 DEF IInv, Install, RunIsHonest, StagingLength, CopyIsFaithful,
     CheckpointFollows, Working, AtPrefix, InPart, Saved

LEMMA ClearStateStep == IInv /\ ClearState => IInv'
<1> SUFFICES ASSUME IInv, ClearState PROVE IInv'
  OBVIOUS
<1>1. TypeOK'
  BY DEF IInv, TypeOK, ClearState, RunSteps, run, budget
<1>2. TrustedBytesAreVerified'
  <2>1. Surviving' = <<>>
    BY DEF ClearState, Surviving
  <2> QED
    BY <2>1, EndFacts DEF TrustedBytesAreVerified, IsIndexPrefix
<1> QED
  BY <1>1, <1>2 DEF IInv, ClearState, RunIsHonest, StagingLength,
     CopyIsFaithful, CheckpointFollows, Working, AtPrefix, InPart, Saved

LEMMA SweepStep == IInv /\ Sweep => IInv'
<1> SUFFICES ASSUME IInv, Sweep PROVE IInv'
  OBVIOUS
<1>1. TypeOK'
  <2>1. \/ UNCHANGED source
        \/ \E p \in Parts : source' = [source EXCEPT ![p] = "absent"]
    BY DEF Sweep
  <2>2. source \in [Parts -> FileStates]
    BY DEF IInv, TypeOK
  <2>3. source' \in [Parts -> FileStates]
    BY <2>1, <2>2 DEF FileStates
  <2>4. /\ pc' \in {"sweep", "commit"}
        /\ UNCHANGED <<run, staged, staging, checkpoint, target, recorded, budget>>
    BY Zenon DEF Sweep
  <2> QED
    BY <2>3, <2>4 DEF IInv, TypeOK, RunSteps, run, budget
<1>2. TrustedBytesAreVerified'
  BY TrustedUnchanged DEF IInv, Sweep
<1> QED
  BY <1>1, <1>2 DEF IInv, Sweep, RunIsHonest, StagingLength,
     CopyIsFaithful, CheckpointFollows, Working, AtPrefix, InPart, Saved

LEMMA EndOfRunStep == IInv /\ (FetchFails \/ Commit \/ Crash) => IInv'
<1> SUFFICES ASSUME IInv, FetchFails \/ Commit \/ Crash PROVE IInv'
  OBVIOUS
<1>1. pc' = "idle" /\ UNCHANGED <<run, staged, staging, checkpoint, source,
                                   target, losses>>
  BY DEF FetchFails, Fail, Commit, Crash, run, disk, budget
<1>2. /\ recorded' \in BOOLEAN
      /\ crashes' \in 0..MaxCrashes
      /\ failures' \in 0..MaxFailures
  <2> USE EnvironmentAssumption DEF IInv, TypeOK
  <2>1. CASE FetchFails
    BY <2>1 DEF FetchFails, disk
  <2>2. CASE Commit
    BY <2>2 DEF Commit, budget
  <2>3. CASE Crash
    BY <2>3 DEF Crash, disk
  <2> QED
    BY <2>1, <2>2, <2>3
<1>3. TypeOK'
  BY <1>1, <1>2 DEF IInv, TypeOK, RunSteps, run
<1> QED
  BY <1>1, <1>3, FailStep

LEMMA LossStep == IInv /\ (LoseStaging \/ LoseTarget) => IInv'
<1> SUFFICES ASSUME IInv, LoseStaging \/ LoseTarget PROVE IInv'
  OBVIOUS
<1>1. /\ pc = "idle" /\ pc' = "idle"
      /\ losses' = losses + 1 /\ losses < MaxLosses
      /\ UNCHANGED <<run, checkpoint, source, recorded, crashes, failures>>
  BY DEF LoseStaging, LoseTarget, run
<1>2. staged' \in BOOLEAN /\ staging' \in Seq(Byte) /\ target' \in Seq(Byte)
  <2>1. CASE LoseStaging
    BY <2>1 DEF IInv, TypeOK, LoseStaging
  <2>2. CASE LoseTarget
    BY <2>2 DEF IInv, TypeOK, LoseTarget
  <2> QED
    BY <2>1, <2>2
<1>3. TypeOK'
  BY <1>1, <1>2, EnvironmentAssumption DEF IInv, TypeOK, run
<1>4. TrustedBytesAreVerified'
  <2>1. CASE LoseTarget
    BY <2>1, TrustedUnchanged DEF IInv, LoseTarget
  <2>2. CASE LoseStaging
    <3>1. End[Len(Surviving')] <= 0
      BY <1>3, <2>2, SurvivingFactsNext DEF SurvivingIsSound, LoseStaging
    <3> QED
      BY <1>3, <3>1, TrustedNext DEF IsIndexPrefix
  <2> QED
    BY <2>1, <2>2
<1> QED
  BY <1>1, <1>3, <1>4 DEF IInv, RunIsHonest, StagingLength,
     CopyIsFaithful, CheckpointFollows, Working, AtPrefix, InPart, Saved

LEMMA StutterStep == IInv /\ UNCHANGED vars => IInv'
<1> SUFFICES ASSUME IInv, UNCHANGED vars PROVE IInv'
  OBVIOUS
<1> USE DEF vars, run, disk, budget
<1>1. TypeOK'
  BY DEF IInv, TypeOK
<1>2. TrustedBytesAreVerified'
  BY TrustedUnchanged DEF IInv
<1>3. RunIsHonest'
  BY DEF IInv, RunIsHonest, IsPartPrefix, IsIndexPrefix
<1> QED
  BY <1>1, <1>2, <1>3 DEF IInv, StagingLength, CopyIsFaithful,
     CheckpointFollows, NextPart, IsIndexPrefix, IsPartPrefix

\* Every step of the program and of its environment keeps the invariant.
THEOREM NextIInv == IInv /\ [Next]_vars => IInv'
<1> SUFFICES ASSUME IInv, [Next]_vars PROVE IInv'
  OBVIOUS
<1>1. CASE Step
  <2>1. Reuse => IInv'
    BY StutterStep DEF Reuse
  <2> QED
    BY <1>1, <2>1, StartStep, RepairStep, SaveStateStep, FetchStep,
       CheckSizeStep, CopyByteStep, AcceptStep, RejectStep, DiscardStep,
       CheckpointStep, UnlinkPartStep, InstallStep, ClearStateStep, SweepStep,
       EndOfRunStep DEF Step
<1> QED
  BY <1>1, EndOfRunStep, LossStep, StutterStep DEF Next

\* Type correctness, for every execution.
THEOREM TypeCorrect == Spec => []TypeOK
<1>1. IInv => TypeOK
  BY DEF IInv
<1> QED
  BY <1>1, InitIInv, NextIInv, PTL DEF Spec

\* No execution ever lets a restarted run trust a byte that was not verified.
THEOREM TrustedBytes == Spec => []TrustedBytesAreVerified
<1>1. IInv => TrustedBytesAreVerified
  BY DEF IInv
<1> QED
  BY <1>1, InitIInv, NextIInv, PTL DEF Spec

LEMMA InstallSize == IInv => CompleteBeforeInstall
<1> SUFFICES ASSUME IInv, pc = "install" PROVE Len(staging) = Total
  BY DEF CompleteBeforeInstall
<1> QED
  BY DEF IInv, RunIsHonest, StagingLength, Working, AtPrefix, Total

\* The size check in front of the rename never fails.
THEOREM SizeCheckHolds == Spec => []CompleteBeforeInstall
BY InstallSize, InitIInv, NextIInv, PTL DEF Spec

\* The last loop over the parts ends once no download is left.
LEMMA SweepIsComplete ==
  /\ Init => SweptBeforeCommit
  /\ SweptBeforeCommit /\ [Next]_vars => SweptBeforeCommit'
<1>1. Init => SweptBeforeCommit
  BY DEF Init, SweptBeforeCommit
<1>2. ASSUME SweptBeforeCommit, [Next]_vars PROVE SweptBeforeCommit'
  <2>1. CASE ClearState
    BY <2>1 DEF ClearState, SweptBeforeCommit, run
  <2>2. CASE Sweep
    BY <2>2 DEF Sweep, SweptBeforeCommit, run
  <2>3. CASE UNCHANGED vars
    BY <1>2, <2>3 DEF SweptBeforeCommit, vars, run, disk
  <2>4. CASE Start \/ Repair \/ SaveState \/ Fetch \/ FetchFails \/ CheckSize
             \/ CopyByte \/ Accept \/ Reject \/ Discard \/ Checkpoint
             \/ UnlinkPart \/ Install \/ Commit \/ Crash \/ LoseStaging
             \/ LoseTarget
    <3>1. pc' # "commit"
      BY <2>4 DEF Start, Repair, SaveState, Fetch, FetchFails, CheckSize,
         CopyByte, Accept, Reject, Discard, Checkpoint, UnlinkPart, Install,
         Commit, Crash, LoseStaging, LoseTarget, Fail, NextInLoop
    <3> QED
      BY <3>1 DEF SweptBeforeCommit
  <2> QED
    BY <1>2, <2>1, <2>2, <2>3, <2>4 DEF Next, Step, Reuse
<1> QED
  BY <1>1, <1>2

\* Every part is in the index once, and no download is left behind.
THEOREM PartsAccounted == Spec => []PartsAreAccounted
<1>1. Spec => []SweptBeforeCommit
  BY SweepIsComplete, PTL DEF Spec
<1>2. TypeOK /\ CompleteBeforeInstall /\ SweptBeforeCommit <=> PartsAreAccounted
  BY DEF PartsAreAccounted
<1> QED
  BY <1>1, <1>2, TypeCorrect, SizeCheckHolds, PTL

\* What the rename installs is the pinned index.
LEMMA InstallGivesIndex == IInv /\ Install => target' = Index
<1> SUFFICES ASSUME IInv, Install PROVE target' = Index
  OBVIOUS
<1>1. /\ Len(staging) = Total /\ target' = staging
      /\ expectedPrefix = Total /\ IsIndexPrefix(staging, expectedPrefix)
  BY InstallSize DEF Install, IInv, RunIsHonest, StagingLength, Working, AtPrefix,
     Total
<1>2. staging \in Seq(Byte)
  BY DEF IInv, TypeOK
<1>3. /\ staging = [k \in 1..Len(staging) |-> staging[k]]
      /\ \A k \in 1..Total : staging[k] = k
  BY <1>1, <1>2 DEF IsIndexPrefix
<1> QED
  BY <1>1, <1>3 DEF Index

\* Every step either leaves e5_Flat.index alone, removes it, or installs the
\* pinned index.
THEOREM OnlyTheIndexIsInstalled == Spec => InstallsOnlyTheIndex
<1> DEFINE Changes == target' # target /\ target' # <<>> => target' = Index
<1>1. IInv /\ [Next]_vars => [Changes]_vars
  <2> SUFFICES ASSUME IInv, [Next]_vars PROVE Changes
    OBVIOUS
  <2>1. CASE Install
    BY <2>1, InstallGivesIndex
  <2>2. CASE ~Install
    <3>1. target' = target \/ target' = <<>>
      BY <2>2 DEF Next, Step, Start, Reuse, Repair, SaveState, Fetch, FetchFails,
         CheckSize, CopyByte, Accept, Reject, Discard, Checkpoint, UnlinkPart,
         ClearState, Sweep, Commit, Crash, LoseStaging, LoseTarget, vars, disk
    <3> QED
      BY <3>1
  <2> QED
    BY <2>1, <2>2
<1>2. IInv /\ [Next]_vars => IInv'
  BY NextIInv
<1> QED
  BY <1>1, <1>2, InitIInv, PTL DEF Spec, InstallsOnlyTheIndex

-----------------------------------------------------------------------------
(* The promise of ResumableFetch is kept *)

\* Truncating to what survives does not change what survives.
LEMMA RepairKeepsSurviving == IInv /\ Repair => Surviving' = Surviving
<1> SUFFICES ASSUME IInv, Repair PROVE Surviving' = Surviving
  OBVIOUS
<1>1. TypeOK'
  BY RepairStep DEF IInv
<1>2. /\ Surviving \in Seq(Parts) /\ IsPartPrefix(Surviving)
      /\ Len(Surviving) \in 0..NumParts
      /\ End[Len(Surviving)] \in 0..Len(staging)
  BY SurvivingFacts DEF IInv, SurvivingIsSound, TypeOK
<1>3. /\ staged' /\ Len(staging') = End[Len(Surviving)]
      /\ UNCHANGED checkpoint
  BY <1>2, CutFacts DEF Repair, IInv, TypeOK
<1>4. CASE Surviving = checkpoint
  BY <1>2, <1>3, <1>4 DEF Surviving, IsPartPrefix
<1>5. CASE Surviving # checkpoint
  <2>1. Surviving = <<>>
    BY <1>5 DEF Surviving
  <2>2. Len(staging') = 0
    BY <1>3, <2>1, EndFacts
  <2>3. Surviving' \in Seq(Parts) /\ Len(Surviving') \in 0..NumParts
        /\ End[Len(Surviving')] <= 0
    BY <1>1, <2>2, SurvivingFactsNext DEF SurvivingIsSound
  <2>4. Len(Surviving') = 0
    BY <2>3, PartsAssumption
  <2> QED
    BY <2>1, <2>3, <2>4
<1> QED
  BY <1>4, <1>5

\* While the state file agrees with the run, the run's list survives.
LEMMA SavedIsSurviving ==
  ASSUME IInv, pc \in Saved
  PROVE  Surviving = completed /\ completed \in Seq(Parts)
BY DEF IInv, TypeOK, RunIsHonest, CheckpointFollows, Saved, InPart, Working,
   Surviving

LEMMA IndexNotEmpty == Index # <<>>
<1>1. DOMAIN Index = 1..Total /\ 1 \in 1..Total
  BY EndFacts, PartsAssumption DEF Index, Total
<1>2. DOMAIN <<>> = {}
  OBVIOUS
<1> QED
  BY <1>1, <1>2

\* What the refinement needs besides IInv: the repaired list is what survives,
\* after the rename nothing is staged and the index is in place, and a
\* discarded part failed its digest.
Promoted ==
  /\ pc = "save" => completed = Surviving
  /\ pc \in {"clear", "sweep", "commit"} => ~staged /\ target = Index
  /\ pc = "discard" => source[NextPart] # "good"

LEMMA InitPromoted == Init => Promoted
BY DEF Init, Promoted

LEMMA NextPromoted == IInv /\ Promoted /\ [Next]_vars => Promoted'
<1> SUFFICES ASSUME IInv, Promoted, [Next]_vars PROVE Promoted'
  OBVIOUS
<1>1. CASE Install
  BY <1>1, InstallGivesIndex DEF Install, Promoted
<1>2. CASE Reject
  BY <1>2 DEF Reject, Promoted, NextPart, run
<1>3. CASE ClearState \/ Sweep
  BY <1>3 DEF ClearState, Sweep, Promoted
<1>4. CASE UNCHANGED vars
  BY <1>4, SurvivingUnchanged DEF vars, run, disk, Promoted, NextPart
<1>5. CASE Repair
  BY <1>5, RepairKeepsSurviving DEF Repair, Promoted
<1>6. CASE Start \/ SaveState \/ Fetch \/ FetchFails \/ CheckSize
           \/ CopyByte \/ Accept \/ Discard \/ Checkpoint \/ UnlinkPart \/ Commit
           \/ Crash \/ LoseStaging \/ LoseTarget
  <2>1. pc' \notin {"save", "clear", "sweep", "commit", "discard"}
    BY <1>6 DEF Start, SaveState, Fetch, FetchFails, CheckSize,
       CopyByte, Accept, Discard, Checkpoint, UnlinkPart, Commit, Crash,
       LoseStaging, LoseTarget, Fail, NextInLoop
  <2> QED
    BY <2>1 DEF Promoted
<1> QED
  BY <1>1, <1>2, <1>3, <1>4, <1>5, <1>6 DEF Next, Step, Reuse

\* The only steps that change what a restarted run could keep, or whether the
\* index is installed, are the promised ones.
LEMMA StepKeepsPromise ==
  ASSUME IInv, Promoted, [Next]_vars
  PROVE  [Promise!FNext]_(Promise!fvars)
<1> DEFINE Same == UNCHANGED <<Surviving, target, losses>>
<1>1. Same => UNCHANGED Promise!fvars
  BY DEF Promise!fvars
<1> HIDE DEF Same
<1>2. CASE UNCHANGED <<staged, staging, checkpoint, target, losses>>
  BY <1>1, <1>2, SurvivingUnchanged DEF Same
<1>3. CASE Repair
  BY <1>1, <1>3, RepairKeepsSurviving DEF Same, Repair, budget
<1>4. CASE SaveState
  <2>1. /\ IsPartPrefix(completed) /\ staged /\ checkpoint' = completed
        /\ Len(staging) >= End[Len(completed)]
        /\ completed = Surviving
        /\ UNCHANGED <<staged, staging, target, losses>>
    BY <1>4 DEF SaveState, IInv, RunIsHonest, Working, Promoted, budget
  <2>2. Surviving' = completed
    BY <2>1 DEF Surviving, IsPartPrefix
  <2> QED
    BY <1>1, <2>1, <2>2 DEF Same
<1>5. CASE CopyByte \/ Reject
  <2>1. Surviving = completed /\ UNCHANGED <<completed, target, losses>>
    BY <1>5, SavedIsSurviving DEF CopyByte, Reject, Saved, InPart, run, budget
  <2>2. pc' \in Saved
    BY <1>5 DEF CopyByte, Reject, Saved, InPart
  <2>3. IInv'
    BY NextIInv
  <2>4. Surviving' = completed'
    BY <2>2, <2>3 DEF IInv, TypeOK, RunIsHonest, CheckpointFollows, Saved,
       InPart, Working, Surviving
  <2> QED
    BY <1>1, <2>1, <2>4 DEF Same
<1>6. CASE Checkpoint
  <2>1. /\ IsPartPrefix(checkpoint) /\ checkpoint \in Seq(Parts)
        /\ IsPartPrefix(completed) /\ completed \in Seq(Parts)
        /\ Len(completed) = Len(checkpoint) + 1
        /\ staged /\ Len(staging) = End[Len(completed)]
        /\ checkpoint' = completed
        /\ UNCHANGED <<staged, staging, target, losses>>
    BY <1>6 DEF Checkpoint, IInv, TypeOK, RunIsHonest, StagingLength,
       CheckpointFollows, Working, AtPrefix, budget
  <2>2. /\ Len(checkpoint) \in 0..NumParts /\ Len(completed) \in 0..NumParts
        /\ End[Len(checkpoint)] <= Len(staging)
        /\ End[Len(completed)] <= Len(staging)
    BY <2>1, EndFacts DEF IsPartPrefix
  <2>3. Surviving = checkpoint
    BY <2>1, <2>2 DEF Surviving
  <2>4. Surviving' = completed
    BY <2>1, <2>2 DEF Surviving, IsPartPrefix
  <2>5. /\ Len(Surviving) < NumParts
        /\ Len(Surviving') = Len(Surviving) + 1
    <3>1. Len(Surviving) = Len(checkpoint) /\ Len(Surviving') = Len(completed)
      BY <2>3, <2>4, Zenon
    <3> QED
      BY <2>1, <2>2, <3>1, EndFacts
  <2>6. (target = Index)' = (target = Index) /\ UNCHANGED losses
    BY <2>1 DEF Index, Total
  <2>7. Promise!VerifyPart
    BY <2>5, <2>6, Zenon DEF Promise!VerifyPart
  <2> QED
    BY <2>7 DEF Promise!FNext
<1>7. CASE Install
  <2>1. Surviving = completed /\ Len(completed) = NumParts
    BY <1>7, SavedIsSurviving DEF Install, Saved, IInv, StagingLength
  <2>2. Surviving' = <<>> /\ UNCHANGED losses
    BY <1>7 DEF Install, Surviving, budget
  <2>3. target' = Index
    BY <1>7, InstallGivesIndex
  <2>4. Promise!InstallAll
    BY <2>1, <2>2, <2>3, Zenon DEF Promise!InstallAll, Index, Total
  <2> QED
    BY <2>4 DEF Promise!FNext
<1>8. CASE ClearState
  <2>1. Surviving = <<>> /\ Surviving' = <<>>
    BY <1>8 DEF ClearState, Promoted, Surviving
  <2> QED
    BY <1>1, <1>8, <2>1 DEF Same, ClearState, budget
<1>9. CASE LoseStaging
  <2>1. /\ checkpoint \in Seq(Parts) /\ staging' = <<>>
        /\ losses' = losses + 1
        /\ UNCHANGED <<checkpoint, target>>
    BY <1>9 DEF LoseStaging, IInv, TypeOK
  <2>2. TypeOK'
    BY NextIInv DEF IInv
  <2>3. Len(Surviving') \in 0..NumParts /\ End[Len(Surviving')] <= 0
    BY <2>1, <2>2, SurvivingFactsNext DEF SurvivingIsSound
  <2>4. Len(Surviving') = 0
    BY <2>3, PartsAssumption
  <2>5. (target = Index)' = (target = Index)
    BY <2>1 DEF Index, Total
  <2>6. Promise!Lose
    BY <2>1, <2>4, <2>5, Zenon DEF Promise!Lose
  <2> QED
    BY <2>6 DEF Promise!FNext
<1>10. CASE LoseTarget
  <2>1. /\ UNCHANGED <<staged, staging, checkpoint>>
        /\ target' = <<>> /\ losses' = losses + 1
    BY <1>10 DEF LoseTarget
  <2>2. Surviving' = Surviving
    BY <2>1, SurvivingUnchanged
  <2>3. (target = Index)' = FALSE
    BY <2>1, IndexNotEmpty DEF Index, Total
  <2>4. Promise!Lose
    BY <2>1, <2>2, <2>3, Zenon DEF Promise!Lose
  <2> QED
    BY <2>4 DEF Promise!FNext
<1>11. Start \/ Reuse \/ Fetch \/ FetchFails \/ CheckSize \/ Accept \/ Discard
       \/ UnlinkPart \/ Sweep \/ Commit \/ Crash \/ UNCHANGED vars
         => UNCHANGED <<staged, staging, checkpoint, target, losses>>
  BY Zenon DEF Start, Reuse, Fetch, FetchFails, CheckSize, Accept, Discard,
     UnlinkPart, Sweep, Commit, Crash, vars, disk, budget
<1> QED
  BY <1>2, <1>3, <1>4, <1>5, <1>6, <1>7, <1>8, <1>9, <1>10, <1>11
     DEF Next, Step

LEMMA InitKeepsPromise == Init => Promise!FInit
<1> SUFFICES ASSUME Init PROVE Promise!FInit
  OBVIOUS
<1>1. Len(Surviving) = 0 /\ losses = 0
  BY EnvironmentAssumption DEF Init, Surviving
<1>2. (target = Index) \in BOOLEAN
  OBVIOUS
<1> QED
  BY <1>1, <1>2, Zenon DEF Promise!FInit

\* A verified download disappears in two places: behind its checkpoint, and in
\* the last loop, when the index is installed.
LEMMA StepDropsNoVerifiedPart ==
  ASSUME IInv, Promoted, [Next]_vars, NEW p \in Parts,
         source[p] = "good", source'[p] = "absent"
  PROVE  p <= Len(Surviving') \/ target' = Index
<1>1. source \in [Parts -> FileStates]
  BY DEF IInv, TypeOK
<1>2. CASE UnlinkPart
  <2>1. p = Len(completed)
    BY <1>1, <1>2 DEF UnlinkPart
  <2>2. Surviving = completed
    BY <1>2, SavedIsSurviving DEF UnlinkPart, Saved
  <2>3. Surviving' = Surviving
    BY <1>2, SurvivingUnchanged DEF UnlinkPart
  <2> QED
    BY <2>1, <2>2, <2>3 DEF Parts
<1>3. CASE Sweep
  BY <1>3 DEF Sweep, Promoted
<1>4. CASE Discard
  <2>1. p # NextPart
    BY <1>4 DEF Discard, Promoted
  <2> QED
    BY <1>1, <1>4, <2>1 DEF Discard
<1>5. CASE Fetch
  BY <1>1, <1>5 DEF Fetch
<1>6. CASE Start \/ Reuse \/ Repair \/ SaveState \/ FetchFails \/ CheckSize
           \/ CopyByte \/ Accept \/ Reject \/ Checkpoint \/ Install \/ ClearState
           \/ Commit \/ Crash \/ LoseStaging \/ LoseTarget \/ UNCHANGED vars
  <2>1. UNCHANGED source
    BY <1>6, Zenon DEF Start, Reuse, Repair, SaveState, FetchFails, CheckSize,
       CopyByte, Accept, Reject, Checkpoint, Install, ClearState, Commit, Crash,
       LoseStaging, LoseTarget, vars, disk
  <2> QED
    BY <2>1
<1> QED
  BY <1>2, <1>3, <1>4, <1>5, <1>6 DEF Next, Step

\* The assembly implements the resumable download: a crash, a failed download
\* or a rejected part never takes back a part that had been verified.
THEOREM AssemblyKeepsItsPromise == Spec => KeepsItsPromise
<1> DEFINE Kept == \A p \in Parts :
                     source[p] = "good" /\ source'[p] = "absent" =>
                       p <= Len(Surviving') \/ target' = Index
<1>1. Init => IInv /\ Promoted /\ Promise!FInit
  BY InitIInv, InitPromoted, InitKeepsPromise
<1>2. IInv /\ Promoted /\ [Next]_vars => IInv' /\ Promoted'
  BY NextIInv, NextPromoted
<1>3. IInv /\ Promoted /\ [Next]_vars => [Promise!FNext]_(Promise!fvars)
  BY StepKeepsPromise
<1>4. IInv /\ Promoted /\ [Next]_vars => [Kept]_vars
  BY StepDropsNoVerifiedPart
<1>5. [][Kept]_vars => NoVerifiedPartIsDropped
  BY DEF NoVerifiedPartIsDropped
<1> HIDE DEF Kept
<1> QED
  BY <1>1, <1>2, <1>3, <1>4, <1>5, PTL DEF Spec, KeepsItsPromise, Promise!FSpec
=============================================================================
