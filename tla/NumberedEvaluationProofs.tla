------------------------ MODULE NumberedEvaluationProofs ------------------------
(***************************************************************************)
(* Theorems about NumberedEvaluation, for any episodes, signatures, batch  *)
(* size and number of faults: the manifest tells the truth, the checkpoint *)
(* keeps every durable row and is torn at its end only, no episode of the  *)
(* file is run again, and the report accepts what it has digested.         *)
(***************************************************************************)
EXTENDS NumberedEvaluation, FiniteSetTheorems, TLAPS

\* The row of a key of the batch, for the run under way.
BatchRow(i) == [key |-> batch[i], sig |-> sig]

\* Between its two halves the rewriting of the cache loses nothing: a row is
\* archived or about to be written again.
RowsAreSafe ==
  pc = "rewrite" =>
    \A row \in RowsIn(lines) : row \in archive \/ (row.sig = sig /\ row.key \in current)

\* From then on the file holds lines of this run alone, for keys of its cache,
\* and what is still to be done is not among them.
Going == {"run", "append", "write", "part", "newline", "final"}
LinesAreCurrent ==
  pc \in Going => \A i \in 1..Len(lines) : lines[i].sig = sig /\ lines[i].key \in current
TodoIsTheRest ==
  pc \in Going \cup {"rewrite"} => todo \cap current = {}
BatchIsCurrent ==
  /\ \A i \in 1..Len(batch) : batch[i] \in current
  /\ pc \in {"idle", "archive", "rewrite"} => batch = <<>>

\* An append goes on where it has got to.
TornIsLast == ~ended => lines # <<>>
AppendIsFaithful ==
  /\ pc = "write" => ended /\ \A i \in 1..written : BatchRow(i) \in RowsIn(lines)
  /\ pc = "part" =>
       /\ ~ended /\ written > 0
       /\ Last(lines) = [key |-> batch[written], sig |-> sig, form |-> "part"]
       /\ \A i \in 1..(written - 1) : BatchRow(i) \in RowsIn(lines)
  /\ pc = "newline" =>
       /\ ~ended /\ IsRow(Last(lines))
       /\ \A i \in 1..written : BatchRow(i) \in RowsIn(lines)

\* A manifest stands only between runs; a run that is about to write one has
\* written what it declares.
ManifestIsLast ==
  /\ manifest # None => pc = "idle"
  /\ pc \in {"summary", "csv", "manifest"} => ended /\ lines = WholeGrid(sig)
  /\ pc = "manifest" => summary = sig

\* What the report holds was true when it read it.
HeldWasTrue ==
  rpc # "idle" =>
    /\ held # None /\ held.sig \in Signatures
    /\ held.digest = WholeGrid(held.sig)

IInv ==
  /\ TypeOK /\ RowsAreSafe /\ LinesAreCurrent /\ TodoIsTheRest /\ BatchIsCurrent
  /\ TornIsLast /\ OnlyTailIsTorn /\ AppendIsFaithful /\ DurableIsKept
  /\ ManifestIsLast /\ CompletionIsTrue /\ HeldWasTrue

----------------------------------------------------------------------------
(* Files and their rows.                                                   *)

LEMMA ConstantFacts ==
  /\ Order \in Seq(Keys) /\ Len(Order) \in Nat /\ Keys \subseteq Nat /\ IsFiniteSet(Keys)
  /\ None \notin Signatures /\ ChunkSize \in Nat /\ ChunkSize > 0
  /\ MaxCrashes \in Nat /\ MaxFailures \in Nat
<1>1. Order \in Seq(Nat) /\ Len(Order) \in Nat
  BY EvaluationAssumption
<1>2. Order \in Seq(Keys) /\ Keys \subseteq Nat
  BY <1>1 DEF Keys
<1>3. IsFiniteSet(1..Len(Order))
  <2>1. 1 \in Int /\ Len(Order) \in Int
    BY <1>1
  <2> QED
    BY <2>1, FS_Interval
<1> DEFINE f == [i \in 1..Len(Order) |-> Order[i]]
<1>4. f \in Surjection(1..Len(Order), Keys)
  <2>1. f \in [1..Len(Order) -> Keys]
    BY DEF Keys
  <2>2. \A k \in Keys : \E i \in 1..Len(Order) : f[i] = k
    BY DEF Keys
  <2> QED
    BY <2>1, <2>2 DEF Surjection
<1>5. IsFiniteSet(Keys)
  BY <1>3, <1>4, FS_Surjection
<1> QED
  BY <1>1, <1>2, <1>5, EvaluationAssumption

\* The rows of a file.
LEMMA RowsOfAFile ==
  ASSUME NEW file
  PROVE  \A row : row \in RowsIn(file) <=>
                   \E i \in 1..Len(file) : IsRow(file[i]) /\ row = RowOf(file[i])
  BY DEF RowsIn

\* A file that is written as a whole.
LEMMA WholeFile ==
  ASSUME NEW ks \in Seq(Keys), NEW s \in Signatures
  PROVE  /\ FileOf(ks, s) \in Seq(Lines) /\ Len(FileOf(ks, s)) = Len(ks)
         /\ \A i \in 1..Len(ks) : /\ FileOf(ks, s)[i].key = ks[i]
                                  /\ FileOf(ks, s)[i].sig = s
                                  /\ IsRow(FileOf(ks, s)[i])
         /\ RowsIn(FileOf(ks, s)) = {[key |-> ks[i], sig |-> s] : i \in 1..Len(ks)}
<1>1. /\ Len(ks) \in Nat /\ Len(FileOf(ks, s)) = Len(ks)
      /\ \A i \in 1..Len(ks) : FileOf(ks, s)[i] = [key |-> ks[i], sig |-> s, form |-> "row"]
  BY DEF FileOf, Line
<1>2. FileOf(ks, s) \in Seq(Lines)
  <2>1. \A i \in 1..Len(ks) : ks[i] \in Keys
    OBVIOUS
  <2>2. \A i \in 1..Len(ks) : Line(ks[i], s) \in Lines
    BY <2>1 DEF Lines, Line
  <2> QED
    BY <1>1, <2>2 DEF FileOf
<1>3. \A i \in 1..Len(ks) : /\ FileOf(ks, s)[i].key = ks[i] /\ FileOf(ks, s)[i].sig = s
                           /\ IsRow(FileOf(ks, s)[i])
  <2> TAKE i \in 1..Len(ks)
  <2> DEFINE line == FileOf(ks, s)[i]
  <2>1. line = [key |-> ks[i], sig |-> s, form |-> "row"]
    BY <1>1
  <2> HIDE DEF line
  <2>2. line.key = ks[i] /\ line.sig = s /\ line.form = "row"
    BY <2>1
  <2> QED
    BY <2>2 DEF line, IsRow
<1>4. \A row : row \in RowsIn(FileOf(ks, s)) <=>
               \E i \in 1..Len(ks) : row = [key |-> ks[i], sig |-> s]
  <2>1. \A i \in 1..Len(ks) : /\ IsRow(FileOf(ks, s)[i])
                              /\ RowOf(FileOf(ks, s)[i]) = [key |-> ks[i], sig |-> s]
    BY <1>3 DEF RowOf
  <2> DEFINE file == FileOf(ks, s)
  <2> HIDE DEF file
  <2>2. \A row : row \in RowsIn(file) <=>
                 \E i \in 1..Len(file) : IsRow(file[i]) /\ row = RowOf(file[i])
    BY RowsOfAFile
  <2>3. Len(file) = Len(ks) /\ \A i \in 1..Len(ks) : IsRow(file[i])
                            /\ RowOf(file[i]) = [key |-> ks[i], sig |-> s]
    BY <1>1, <2>1 DEF file
  <2>4. \A row : row \in RowsIn(file) <=>
                 \E i \in 1..Len(ks) : row = [key |-> ks[i], sig |-> s]
    <3>1. ASSUME NEW row, row \in RowsIn(file)
          PROVE  \E i \in 1..Len(ks) : row = [key |-> ks[i], sig |-> s]
      <4>1. PICK i \in 1..Len(ks) : row = RowOf(file[i])
        BY <2>2, <2>3, <3>1
      <4> QED
        BY <2>3, <4>1
    <3>2. ASSUME NEW row, NEW i \in 1..Len(ks), row = [key |-> ks[i], sig |-> s]
          PROVE  row \in RowsIn(file)
      <4>1. IsRow(file[i]) /\ row = RowOf(file[i]) /\ i \in 1..Len(file)
        BY <2>3, <3>2
      <4> QED
        BY <2>2, <4>1
    <3> QED
      BY <3>1, <3>2
  <2> QED
    BY <2>4 DEF file
<1>5. RowsIn(FileOf(ks, s)) = {[key |-> ks[i], sig |-> s] : i \in 1..Len(ks)}
  BY <1>4
<1> QED
  BY <1>1, <1>2, <1>3, <1>5

\* The whole grid is a file with a row for every key.
LEMMA GridFacts ==
  ASSUME NEW s \in Signatures
  PROVE  /\ WholeGrid(s) \in Seq(Lines) /\ Len(WholeGrid(s)) = Len(Order)
         /\ \A i \in 1..Len(Order) : IsRow(WholeGrid(s)[i])
         /\ RowsIn(WholeGrid(s)) = {[key |-> k, sig |-> s] : k \in Keys}
<1>1. RowsIn(WholeGrid(s)) = {[key |-> Order[i], sig |-> s] : i \in 1..Len(Order)}
  BY ConstantFacts, WholeFile DEF WholeGrid
<1>2. RowsIn(WholeGrid(s)) = {[key |-> k, sig |-> s] : k \in Keys}
  BY <1>1 DEF Keys
<1> QED
  BY <1>2, ConstantFacts, WholeFile DEF WholeGrid

\* The sorted keys are the keys: each has its own number of smaller ones.
LEMMA SortedKeysAreTheKeys ==
  ASSUME NEW ks \in SUBSET Keys
  PROVE  /\ SortedKeys(ks) \in Seq(Keys)
         /\ \A i \in 1..Len(SortedKeys(ks)) : SortedKeys(ks)[i] \in ks
         /\ \A k \in ks : \E i \in 1..Len(SortedKeys(ks)) : SortedKeys(ks)[i] = k
<1> DEFINE Below(k) == {j \in ks : j < k}
           n == Cardinality(ks)
           rank == [k \in ks |-> Cardinality(Below(k)) + 1]
<1>1. IsFiniteSet(ks) /\ n \in Nat /\ ks \subseteq Nat
  BY ConstantFacts, FS_Subset, FS_CardinalityType
<1>2. ASSUME NEW k \in ks
      PROVE  IsFiniteSet(Below(k)) /\ Cardinality(Below(k)) \in Nat
             /\ Cardinality(Below(k)) < n
  <2>1. Below(k) \subseteq ks /\ k \notin Below(k)
    BY <1>1
  <2>2. IsFiniteSet(Below(k)) /\ Cardinality(Below(k)) \in Nat /\ Cardinality(Below(k)) <= n
        /\ Cardinality(Below(k)) # n
    <3>1. IsFiniteSet(Below(k)) /\ Cardinality(Below(k)) <= n
          /\ (n = Cardinality(Below(k)) => ks = Below(k))
      BY <1>1, <2>1, FS_Subset
    <3>2. Cardinality(Below(k)) \in Nat
      BY <3>1, FS_CardinalityType
    <3> QED
      BY <2>1, <3>1, <3>2
  <2> QED
    BY <1>1, <2>2
<1>3. ASSUME NEW j \in ks, NEW k \in ks, j < k
      PROVE  Cardinality(Below(j)) < Cardinality(Below(k))
  <2>1. Below(j) \subseteq Below(k) /\ j \in Below(k) /\ j \notin Below(j)
    <3>1. \A i \in ks : i \in Nat
      BY <1>1
    <3>2. \A i \in ks : i < j => i < k
      BY <1>3, <3>1
    <3>3. ~(j < j)
      BY <3>1
    <3> QED
      BY <1>3, <3>2, <3>3
  <2>2. Cardinality(Below(j)) <= Cardinality(Below(k))
        /\ (Cardinality(Below(k)) = Cardinality(Below(j)) => Below(k) = Below(j))
    BY <1>2, <2>1, FS_Subset
  <2> HIDE DEF Below
  <2> QED
    BY <1>2, <2>1, <2>2
<1>4. rank \in [ks -> 1..n]
  <2> HIDE DEF Below, n
  <2>1. \A k \in ks : Cardinality(Below(k)) + 1 \in 1..n
    BY <1>1, <1>2
  <2> QED
    BY <2>1
<1>5. \A j, k \in ks : rank[j] = rank[k] => j = k
  <2> SUFFICES ASSUME NEW j \in ks, NEW k \in ks, j # k PROVE rank[j] # rank[k]
    OBVIOUS
  <2>1. j < k \/ k < j
    BY <1>1
  <2>2. rank[j] = Cardinality(Below(j)) + 1 /\ rank[k] = Cardinality(Below(k)) + 1
    OBVIOUS
  <2> HIDE DEF Below, rank
  <2> QED
    BY <1>2, <1>3, <2>1, <2>2
<1>6. rank \in Surjection(ks, 1..n)
  <2>1. rank \in Injection(ks, 1..n)
    BY <1>4, <1>5 DEF Injection, IsInjective
  <2>2. IsFiniteSet(1..n) /\ Cardinality(1..n) = n
    <3>1. 1 \in Int /\ n \in Int /\ (1 > n => n = 0)
      BY <1>1
    <3>2. IsFiniteSet(1..n) /\ Cardinality(1..n) = IF 1 > n THEN 0 ELSE n - 1 + 1
      BY <3>1, FS_Interval
    <3> HIDE DEF n
    <3> QED
      BY <1>1, <3>1, <3>2
  <2> QED
    BY <2>1, <2>2, FS_Injection
<1>7. ASSUME NEW i \in 1..n
      PROVE  \E k \in ks : Cardinality(Below(k)) = i - 1
  <2>1. PICK k \in ks : rank[k] = i
    BY <1>6 DEF Surjection
  <2>2. Cardinality(Below(k)) + 1 = i /\ Cardinality(Below(k)) \in Nat
    BY <1>2, <2>1
  <2> HIDE DEF Below
  <2> QED
    BY <2>2
<1> DEFINE At(i) == CHOOSE k \in ks : Cardinality(Below(k)) = i - 1
<1>8. ASSUME NEW i \in 1..n
      PROVE  At(i) \in ks /\ Cardinality(Below(At(i))) = i - 1
  <2> HIDE DEF Below
  <2> QED
    BY <1>7
<1>9. SortedKeys(ks) = [i \in 1..n |-> At(i)]
  BY DEF SortedKeys
<1>10. SortedKeys(ks) \in Seq(Keys) /\ Len(SortedKeys(ks)) = n
       /\ \A i \in 1..n : SortedKeys(ks)[i] = At(i)
  <2>1. \A i \in 1..n : At(i) \in Keys
    BY <1>8
  <2> HIDE DEF At, n
  <2> QED
    BY <1>1, <1>9, <2>1
<1>11. ASSUME NEW k \in ks
       PROVE  \E i \in 1..n : At(i) = k
  <2>1. rank[k] \in 1..n /\ Cardinality(Below(k)) = rank[k] - 1
    <3>1. rank[k] \in 1..n
      BY <1>4
    <3>2. rank[k] = Cardinality(Below(k)) + 1 /\ Cardinality(Below(k)) \in Nat
      BY <1>2
    <3> HIDE DEF Below, rank
    <3> QED
      BY <3>1, <3>2
  <2>2. At(rank[k]) \in ks /\ Cardinality(Below(At(rank[k]))) = rank[k] - 1
    BY <1>8, <2>1
  <2> DEFINE a == At(rank[k])
  <2>3. a \in ks /\ Cardinality(Below(a)) = Cardinality(Below(k))
    BY <2>1, <2>2
  <2> HIDE DEF a
  <2>4. rank[a] = rank[k]
    BY <2>3
  <2>5. a = k
    BY <1>5, <2>3, <2>4
  <2> QED
    BY <2>1, <2>5 DEF a
<1> HIDE DEF At, n
<1> QED
  BY <1>8, <1>10, <1>11

\* A part of a row at the end of a file ...
LEMMA StartedLine ==
  ASSUME NEW file \in Seq(Lines), NEW k \in Keys, NEW s \in Signatures, NEW line,
         line = [key |-> k, sig |-> s, form |-> "part"]
  PROVE  /\ Append(file, line) \in Seq(Lines) /\ Len(file) \in Nat
         /\ Len(Append(file, line)) = Len(file) + 1
         /\ \A i \in 1..Len(file) : Append(file, line)[i] = file[i]
         /\ Append(file, line)[Len(file) + 1] = line
         /\ Last(Append(file, line)) = line /\ Append(file, line) # <<>>
         /\ RowsIn(Append(file, line)) = RowsIn(file)
<1>1. line \in Lines /\ ~IsRow(line)
  BY DEF Lines, IsRow
<1> DEFINE new == Append(file, line)
<1>2. /\ new \in Seq(Lines) /\ Len(file) \in Nat /\ Len(new) = Len(file) + 1
      /\ \A i \in 1..Len(file) : new[i] = file[i]
      /\ new[Len(file) + 1] = line /\ new # <<>>
  BY <1>1
<1>3. \A i : i \in 1..Len(new) <=> i \in 1..Len(file) \/ i = Len(file) + 1
  BY <1>2
<1> HIDE DEF new
<1>4. \A row : row \in RowsIn(new) <=> row \in RowsIn(file)
  BY <1>1, <1>2, <1>3, RowsOfAFile
<1>5. RowsIn(new) = RowsIn(file)
  BY <1>4 DEF RowsIn
<1>6. Last(new) = line
  BY <1>2 DEF Last
<1> QED
  BY <1>2, <1>5, <1>6 DEF new

\* ... may be cut off again ...
LEMMA CutLine ==
  ASSUME NEW file \in Seq(Lines), file # <<>>, ~IsRow(Last(file))
  PROVE  /\ Front(file) \in Seq(Lines) /\ Len(file) \in Nat /\ Len(file) > 0
         /\ Len(Front(file)) = Len(file) - 1
         /\ \A i \in 1..Len(Front(file)) : Front(file)[i] = file[i] /\ i \in 1..Len(file)
                                          /\ i # Len(file)
         /\ RowsIn(Front(file)) = RowsIn(file)
<1> DEFINE new == Front(file)
<1>1. /\ new \in Seq(Lines) /\ Len(file) \in Nat /\ Len(file) > 0 /\ Len(new) = Len(file) - 1
      /\ \A i \in 1..Len(new) : new[i] = file[i]
  <2>1. Len(file) \in Nat /\ Len(file) > 0 /\ Len(file) - 1 \in Nat
    OBVIOUS
  <2>2. SubSeq(file, 1, Len(file) - 1) = [i \in 1..(Len(file) - 1) |-> file[i]]
    BY <2>1
  <2>3. /\ new = [i \in 1..(Len(file) - 1) |-> file[i]]
        /\ \A i \in 1..(Len(file) - 1) : file[i] \in Lines
    BY <2>1, <2>2 DEF Front
  <2> HIDE DEF new
  <2> QED
    BY <2>1, <2>3
<1>2. \A i : i \in 1..Len(file) <=> i \in 1..Len(new) \/ i = Len(file)
  BY <1>1
<1>3. \A i \in 1..Len(new) : i # Len(file)
  BY <1>1
<1>4. ~IsRow(file[Len(file)])
  BY DEF Last
<1> HIDE DEF new
<1>5. \A row : row \in RowsIn(new) <=> row \in RowsIn(file)
  BY <1>1, <1>2, <1>4, RowsOfAFile
<1>6. RowsIn(new) = RowsIn(file)
  BY <1>5 DEF RowsIn
<1> QED
  BY <1>1, <1>2, <1>3, <1>6 DEF new

\* The tail of a file, once it has become a row.
Finished(file) == [file EXCEPT ![Len(file)].form = "row"]

\* ... or finished.
LEMMA FinishedLine ==
  ASSUME NEW file \in Seq(Lines), file # <<>>, Last(file).form = "part"
  PROVE  /\ Finished(file) \in Seq(Lines) /\ Len(file) \in Nat /\ Len(file) > 0
         /\ Len(Finished(file)) = Len(file)
         /\ \A i \in 1..Len(file) : /\ Finished(file)[i].key = file[i].key
                                   /\ Finished(file)[i].sig = file[i].sig
         /\ \A i \in 1..Len(file) : i # Len(file) => Finished(file)[i] = file[i]
         /\ IsRow(Last(Finished(file))) /\ Last(Finished(file)) = Finished(file)[Len(file)]
         /\ RowsIn(Finished(file)) =
              RowsIn(file) \cup {[key |-> Last(file).key, sig |-> Last(file).sig]}
<1> DEFINE new == Finished(file)
           k == Last(file).key
           s == Last(file).sig
<1>0. new = [file EXCEPT ![Len(file)].form = "row"]
  BY DEF Finished
<1> HIDE DEF new
<1>1. Len(file) \in Nat /\ Len(file) > 0 /\ Len(file) \in 1..Len(file)
      /\ file[Len(file)] = [key |-> k, sig |-> s, form |-> "part"] /\ file[Len(file)] \in Lines
  <2>1. Len(file) \in Nat /\ Len(file) > 0 /\ Len(file) \in 1..Len(file)
    OBVIOUS
  <2>2. file[Len(file)] \in Lines /\ Last(file) = file[Len(file)]
    BY <2>1 DEF Last
  <2> QED
    BY <2>1, <2>2 DEF Lines
<1> HIDE DEF k, s
<1> DEFINE line == [key |-> k, sig |-> s, form |-> "row"]
<1>2. [file[Len(file)] EXCEPT !.form = "row"] = line /\ line \in Lines
  BY <1>1 DEF Lines
<1>3. new = [file EXCEPT ![Len(file)] = line]
  BY <1>0, <1>2
<1>4. line.key = k /\ line.sig = s /\ IsRow(line) /\ RowOf(line) = [key |-> k, sig |-> s]
  BY DEF IsRow, RowOf
<1>5. file[Len(file)].key = k /\ file[Len(file)].sig = s /\ ~IsRow(file[Len(file)])
  BY <1>1 DEF IsRow
<1> HIDE DEF line
<1>6. /\ new \in Seq(Lines) /\ Len(new) = Len(file) /\ new[Len(file)] = line
      /\ \A i \in 1..Len(file) : i # Len(file) => new[i] = file[i]
  BY <1>1, <1>2, <1>3
<1>7. \A i \in 1..Len(file) : new[i].key = file[i].key /\ new[i].sig = file[i].sig
  BY <1>4, <1>5, <1>6
<1>8. \A row : row \in RowsIn(new) <=> row \in RowsIn(file) \/ row = RowOf(line)
  <2>1. ASSUME NEW row \in RowsIn(new), row # RowOf(line)
        PROVE  row \in RowsIn(file)
    <3>1. PICK i \in 1..Len(file) : IsRow(new[i]) /\ row = RowOf(new[i])
      BY <1>6, RowsOfAFile
    <3>2. new[i] = file[i]
      BY <1>6, <2>1, <3>1
    <3> QED
      BY <3>1, <3>2, RowsOfAFile
  <2>2. ASSUME NEW row \in RowsIn(file)
        PROVE  row \in RowsIn(new)
    <3>1. PICK i \in 1..Len(file) : IsRow(file[i]) /\ row = RowOf(file[i])
      BY RowsOfAFile
    <3>2. new[i] = file[i] /\ i \in 1..Len(new)
      BY <1>5, <1>6, <3>1
    <3> QED
      BY <3>1, <3>2, RowsOfAFile
  <2>3. RowOf(line) \in RowsIn(new)
    BY <1>1, <1>4, <1>6, RowsOfAFile
  <2> QED
    BY <2>1, <2>2, <2>3
<1>9. RowsIn(new) = RowsIn(file) \cup {[key |-> k, sig |-> s]}
  BY <1>4, <1>8
<1>10. Last(new) = line
  BY <1>6 DEF Last
<1> QED
  BY <1>1, <1>4, <1>6, <1>7, <1>9, <1>10 DEF new, k, s

LEMMA EmptyBatch == <<>> \in Seq(Keys) /\ Len(<<>>) = 0 /\ 0 \in 0..Len(<<>>)
  OBVIOUS

----------------------------------------------------------------------------
(* The steps of a run.                                                     *)

\* A run starts, ...
LEMMA StartKeepsIInv ==
  ASSUME IInv, NEW s \in Signatures, Start(s)
  PROVE  IInv'
<1>1. /\ pc = "idle" /\ pc' = "archive" /\ sig' = s /\ manifest' = None
      /\ UNCHANGED <<lines, ended, archive, summary, current, todo, batch, written,
                     aborting, durable, rpc, held, crashes, failures>>
  BY DEF Start, disk, memory, report, RunFrame
<1> USE <1>1 DEF IInv
<1>11. TypeOK'
  BY DEF TypeOK
<1>12. RowsAreSafe'
  BY DEF RowsAreSafe
<1>13. LinesAreCurrent'
  BY DEF LinesAreCurrent, Going
<1>14. TodoIsTheRest'
  BY DEF TodoIsTheRest, Going
<1>15. BatchIsCurrent'
  BY DEF BatchIsCurrent
<1>16. TornIsLast'
  BY DEF TornIsLast
<1>17. OnlyTailIsTorn'
  BY DEF OnlyTailIsTorn
<1>18. AppendIsFaithful'
  BY DEF AppendIsFaithful, BatchRow
<1>19. DurableIsKept'
  BY DEF DurableIsKept
<1>20. ManifestIsLast'
  BY DEF ManifestIsLast
<1>21. CompletionIsTrue'
  BY DEF CompletionIsTrue
<1>22. HeldWasTrue'
  BY DEF HeldWasTrue
<1> QED
  BY <1>11, <1>12, <1>13, <1>14, <1>15, <1>16, <1>17, <1>18, <1>19, <1>20,
     <1>21, <1>22 DEF IInv

\* ... archives what is stale, ...
LEMMA ArchiveKeepsIInv ==
  ASSUME IInv, ArchiveStale
  PROVE  IInv'
<1>1. /\ pc = "archive" /\ pc' = "rewrite"
      /\ archive' = archive \cup
           {RowOf(lines[i]) : i \in {j \in 1..Len(lines) : IsRow(lines[j])} \ Kept}
      /\ current' = KeptKeys /\ todo' = Keys \ KeptKeys
      /\ UNCHANGED <<lines, ended, summary, manifest, sig, batch, written, aborting,
                     durable, rpc, held, crashes, failures>>
  BY DEF ArchiveStale, disk, memory, report, RunFrame
<1>2. \A i \in 1..Len(lines) :
        lines[i] \in Lines /\ lines[i].key \in Keys /\ lines[i].sig \in Signatures
  <2>1. \A i \in 1..Len(lines) : lines[i] \in Lines
    BY DEF IInv, TypeOK
  <2> QED
    BY <2>1 DEF Lines
<1>3. archive \subseteq archive' /\ archive' \subseteq Rows
  BY <1>1, <1>2 DEF IInv, TypeOK, Rows, RowOf
<1>4. current' \subseteq Keys /\ todo' \subseteq Keys /\ todo' \cap current' = {}
  BY <1>1, <1>2 DEF KeptKeys, Kept
<1>5. \A row \in RowsIn(lines) : row \in archive' \/ (row.sig = sig /\ row.key \in current')
  <2> SUFFICES ASSUME NEW row \in RowsIn(lines), row \notin archive'
               PROVE  row.sig = sig /\ row.key \in current'
    OBVIOUS
  <2>1. PICK i \in 1..Len(lines) : IsRow(lines[i]) /\ row = RowOf(lines[i])
    BY RowsOfAFile
  <2>2. i \in Kept
    BY <1>1, <2>1
  <2>3. lines[i].sig = sig /\ lines[i].key \in KeptKeys
    BY <2>2 DEF Kept, KeptKeys, Usable
  <2> QED
    BY <1>1, <2>1, <2>3 DEF RowOf
<1>6. \A i \in 1..Len(batch') : batch'[i] \in current'
  BY <1>1 DEF IInv, BatchIsCurrent, TypeOK
<1> USE <1>1, <1>3, <1>4, <1>5, <1>6 DEF IInv
<1>11. TypeOK'
  BY DEF TypeOK
<1>12. RowsAreSafe'
  BY DEF RowsAreSafe
<1>13. LinesAreCurrent'
  BY DEF LinesAreCurrent, Going
<1>14. TodoIsTheRest'
  BY DEF TodoIsTheRest, Going
<1>15. BatchIsCurrent'
  BY DEF BatchIsCurrent
<1>16. TornIsLast'
  BY DEF TornIsLast
<1>17. OnlyTailIsTorn'
  BY DEF OnlyTailIsTorn
<1>18. AppendIsFaithful'
  BY DEF AppendIsFaithful, BatchRow
<1>19. DurableIsKept'
  BY DEF DurableIsKept
<1>20. ManifestIsLast'
  BY DEF ManifestIsLast
<1>21. CompletionIsTrue'
  BY DEF CompletionIsTrue
<1>22. HeldWasTrue'
  BY DEF HeldWasTrue
<1> QED
  BY <1>11, <1>12, <1>13, <1>14, <1>15, <1>16, <1>17, <1>18, <1>19, <1>20,
     <1>21, <1>22 DEF IInv

\* ... rewrites its cache, ...
LEMMA RewriteKeepsIInv ==
  ASSUME IInv, RewriteCache
  PROVE  IInv'
<1>1. /\ pc = "rewrite" /\ pc' = "run" /\ ended' = TRUE
      /\ lines' = FileOf(SortedKeys(current), sig) /\ durable' = durable \cup RowsIn(lines')
      /\ UNCHANGED <<archive, summary, manifest, sig, current, todo, batch, written,
                     aborting, rpc, held, crashes, failures>>
  BY DEF RewriteCache, disk, memory, report, RunFrame
<1>2. manifest = None
  BY <1>1 DEF IInv, ManifestIsLast
<1>3. current \in SUBSET Keys /\ sig \in Signatures
  BY DEF IInv, TypeOK
<1>4. /\ SortedKeys(current) \in Seq(Keys)
      /\ \A i \in 1..Len(SortedKeys(current)) : SortedKeys(current)[i] \in current
      /\ \A k \in current : \E i \in 1..Len(SortedKeys(current)) : SortedKeys(current)[i] = k
  BY <1>3, SortedKeysAreTheKeys
<1>5. /\ lines' \in Seq(Lines)
      /\ \A i \in 1..Len(lines') : /\ lines'[i].sig = sig /\ lines'[i].key \in current
                                /\ IsRow(lines'[i])
      /\ RowsIn(lines') = {[key |-> k, sig |-> sig] : k \in current}
  <2> DEFINE ks == SortedKeys(current)
             new == FileOf(ks, sig)
  <2>1. /\ new \in Seq(Lines) /\ Len(new) = Len(ks)
        /\ \A i \in 1..Len(ks) : new[i].key = ks[i] /\ new[i].sig = sig /\ IsRow(new[i])
        /\ RowsIn(new) = {[key |-> ks[i], sig |-> sig] : i \in 1..Len(ks)}
    BY <1>3, <1>4, WholeFile
  <2> HIDE DEF new, ks
  <2>2. /\ \A i \in 1..Len(ks) : ks[i] \in current
        /\ \A k \in current : \E i \in 1..Len(ks) : ks[i] = k
    BY <1>4 DEF ks
  <2>3. RowsIn(new) = {[key |-> k, sig |-> sig] : k \in current}
    BY <2>1, <2>2
  <2>4. lines' = new
    BY <1>1 DEF new, ks
  <2> QED
    BY <2>1, <2>2, <2>3, <2>4
<1>6. RowsIn(lines') \subseteq Rows
  BY <1>3, <1>5 DEF Rows
<1>7. \A row \in RowsIn(lines) : row \in archive \/ row \in RowsIn(lines')
  <2> SUFFICES ASSUME NEW row \in RowsIn(lines), row \notin archive
               PROVE  row \in RowsIn(lines')
    OBVIOUS
  <2>1. row.sig = sig /\ row.key \in current
    BY <1>1 DEF IInv, RowsAreSafe
  <2>2. row = [key |-> row.key, sig |-> row.sig]
    <3>1. PICK i \in 1..Len(lines) : row = RowOf(lines[i])
      BY RowsOfAFile
    <3> QED
      BY <3>1 DEF RowOf
  <2> QED
    BY <1>5, <2>1, <2>2
<1> USE <1>1, <1>2, <1>5, <1>6, <1>7 DEF IInv
<1>11. TypeOK'
  BY DEF TypeOK
<1>12. RowsAreSafe'
  BY DEF RowsAreSafe
<1>13. LinesAreCurrent'
  BY DEF LinesAreCurrent, Going
<1>14. TodoIsTheRest'
  BY DEF TodoIsTheRest, Going
<1>15. BatchIsCurrent'
  BY DEF BatchIsCurrent
<1>16. TornIsLast'
  BY DEF TornIsLast
<1>17. OnlyTailIsTorn'
  BY DEF OnlyTailIsTorn
<1>18. AppendIsFaithful'
  BY DEF AppendIsFaithful, BatchRow
<1>19. DurableIsKept'
  BY DEF DurableIsKept
<1>20. ManifestIsLast'
  BY DEF ManifestIsLast
<1>21. CompletionIsTrue'
  BY DEF CompletionIsTrue
<1>22. HeldWasTrue'
  BY DEF HeldWasTrue
<1> QED
  BY <1>11, <1>12, <1>13, <1>14, <1>15, <1>16, <1>17, <1>18, <1>19, <1>20,
     <1>21, <1>22 DEF IInv

\* ... gets a result, ...
LEMMA DeliverKeepsIInv ==
  ASSUME IInv, NEW k \in Keys, Deliver(k)
  PROVE  IInv'
<1>1. /\ pc = "run" /\ pc' \in {"append", "run"} /\ k \in todo
      /\ todo' = todo \ {k} /\ current' = current \cup {k} /\ batch' = Append(batch, k)
      /\ UNCHANGED <<lines, ended, archive, summary, manifest, sig, written, aborting,
                     durable, rpc, held, crashes, failures>>
  BY DEF Deliver, disk, memory, report, RunFrame
<1>2. manifest = None
  BY <1>1 DEF IInv, ManifestIsLast
<1>3. /\ batch \in Seq(Keys) /\ written \in 0..Len(batch)
      /\ \A i \in 1..Len(batch) : batch[i] \in current
  BY DEF IInv, TypeOK, BatchIsCurrent
<1>4. /\ batch' \in Seq(Keys) /\ written' \in 0..Len(batch')
      /\ \A i \in 1..Len(batch') : batch'[i] \in current'
  <2>1. batch' \in Seq(Keys) /\ Len(batch') = Len(batch) + 1 /\ Len(batch) \in Nat
        /\ batch'[Len(batch) + 1] = k /\ \A i \in 1..Len(batch) : batch'[i] = batch[i]
    BY <1>1, <1>3
  <2>2. \A i \in 1..Len(batch') : i \in 1..Len(batch) \/ i = Len(batch) + 1
    BY <2>1
  <2> QED
    BY <1>1, <1>3, <2>1, <2>2
<1> USE <1>1, <1>2, <1>4 DEF IInv
<1>11. TypeOK'
  BY DEF TypeOK
<1>12. RowsAreSafe'
  BY DEF RowsAreSafe
<1>13. LinesAreCurrent'
  BY DEF LinesAreCurrent, Going
<1>14. TodoIsTheRest'
  BY DEF TodoIsTheRest, Going
<1>15. BatchIsCurrent'
  BY DEF BatchIsCurrent
<1>16. TornIsLast'
  BY DEF TornIsLast
<1>17. OnlyTailIsTorn'
  BY DEF OnlyTailIsTorn
<1>18. AppendIsFaithful'
  BY DEF AppendIsFaithful, BatchRow
<1>19. DurableIsKept'
  BY DEF DurableIsKept
<1>20. ManifestIsLast'
  BY DEF ManifestIsLast
<1>21. CompletionIsTrue'
  BY DEF CompletionIsTrue
<1>22. HeldWasTrue'
  BY DEF HeldWasTrue
<1> QED
  BY <1>11, <1>12, <1>13, <1>14, <1>15, <1>16, <1>17, <1>18, <1>19, <1>20,
     <1>21, <1>22 DEF IInv

\* ... ends the loop, ...
LEMMA LoopEndsKeepsIInv ==
  ASSUME IInv, LoopEnds
  PROVE  IInv'
<1>1. /\ pc = "run" /\ pc' \in {"final", "append"}
      /\ UNCHANGED <<lines, ended, archive, summary, manifest, sig, current, todo, batch,
                     written, aborting, durable, rpc, held, crashes, failures>>
  BY DEF LoopEnds, disk, memory, report, RunFrame
<1>2. manifest = None
  BY <1>1 DEF IInv, ManifestIsLast
<1> USE <1>1, <1>2 DEF IInv
<1>11. TypeOK'
  BY DEF TypeOK
<1>12. RowsAreSafe'
  BY DEF RowsAreSafe
<1>13. LinesAreCurrent'
  BY DEF LinesAreCurrent, Going
<1>14. TodoIsTheRest'
  BY DEF TodoIsTheRest, Going
<1>15. BatchIsCurrent'
  BY DEF BatchIsCurrent
<1>16. TornIsLast'
  BY DEF TornIsLast
<1>17. OnlyTailIsTorn'
  BY DEF OnlyTailIsTorn
<1>18. AppendIsFaithful'
  BY DEF AppendIsFaithful, BatchRow
<1>19. DurableIsKept'
  BY DEF DurableIsKept
<1>20. ManifestIsLast'
  BY DEF ManifestIsLast
<1>21. CompletionIsTrue'
  BY DEF CompletionIsTrue
<1>22. HeldWasTrue'
  BY DEF HeldWasTrue
<1> QED
  BY <1>11, <1>12, <1>13, <1>14, <1>15, <1>16, <1>17, <1>18, <1>19, <1>20,
     <1>21, <1>22 DEF IInv

\* A run that dies leaves the disk as it is.
LEMMA DyingKeepsIInv ==
  ASSUME IInv, pc # "idle", Dies,
         UNCHANGED <<lines, ended, archive, summary, manifest, sig, durable, rpc, held>>,
         crashes' \in 0..MaxCrashes, failures' \in 0..MaxFailures
  PROVE  IInv'
<1>1. pc' = "idle" /\ current' = {} /\ todo' = {} /\ batch' = <<>> /\ written' = 0
      /\ aborting' = FALSE /\ Len(batch') = 0
  BY DEF Dies
<1>2. batch' \in Seq(Keys) /\ written' \in 0..Len(batch')
  BY <1>1, EmptyBatch
<1>3. aborting' \in BOOLEAN
  BY <1>1, Zenon
<1>4. manifest = None
  BY DEF IInv, ManifestIsLast
<1> USE <1>1, <1>4, <1>2, <1>3 DEF IInv
<1>5. TypeOK'
  BY DEF TypeOK
<1>6. RowsAreSafe'
  BY DEF RowsAreSafe
<1>7. LinesAreCurrent'
  BY DEF LinesAreCurrent, Going
<1>8. TodoIsTheRest'
  BY DEF TodoIsTheRest, Going
<1>9. BatchIsCurrent'
  BY DEF BatchIsCurrent
<1>10. TornIsLast'
  BY DEF TornIsLast
<1>11. OnlyTailIsTorn'
  BY DEF OnlyTailIsTorn
<1>12. AppendIsFaithful'
  BY DEF AppendIsFaithful, BatchRow
<1>13. DurableIsKept'
  BY DEF DurableIsKept
<1>14. ManifestIsLast'
  BY DEF ManifestIsLast
<1>15. CompletionIsTrue'
  BY DEF CompletionIsTrue
<1>16. HeldWasTrue'
  BY DEF HeldWasTrue
<1> QED
  BY <1>5, <1>6, <1>7, <1>8, <1>9, <1>10, <1>11, <1>12, <1>13, <1>14,
     <1>15, <1>16 DEF IInv

\* A job fails, ...
LEMMA LoopFailsKeepsIInv ==
  ASSUME IInv, LoopFails
  PROVE  IInv'
<1>1. /\ pc = "run" /\ failures' \in 0..MaxFailures
      /\ UNCHANGED <<lines, ended, archive, summary, manifest, sig, durable, rpc, held, crashes>>
  BY ConstantFacts DEF IInv, TypeOK, LoopFails, disk, memory, report, RunFrame
<1>2. CASE batch = <<>>
  <2>1. Dies /\ crashes' \in 0..MaxCrashes
    BY <1>1, <1>2 DEF LoopFails, IInv, TypeOK
  <2> QED
    BY <1>1, <2>1, DyingKeepsIInv
<1>3. CASE batch # <<>>
  <2>1. pc' = "append" /\ aborting' = TRUE /\ UNCHANGED <<current, todo, batch, written>>
    BY <1>3 DEF LoopFails
  <2>2. manifest = None
    BY <1>1 DEF IInv, ManifestIsLast
  <2> USE <1>1, <2>1, <2>2 DEF IInv
  <2>11. TypeOK'
    BY DEF TypeOK
  <2>12. RowsAreSafe'
    BY DEF RowsAreSafe
  <2>13. LinesAreCurrent'
    BY DEF LinesAreCurrent, Going
  <2>14. TodoIsTheRest'
    BY DEF TodoIsTheRest, Going
  <2>15. BatchIsCurrent'
    BY DEF BatchIsCurrent
  <2>16. TornIsLast'
    BY DEF TornIsLast
  <2>17. OnlyTailIsTorn'
    BY DEF OnlyTailIsTorn
  <2>18. AppendIsFaithful'
    BY DEF AppendIsFaithful, BatchRow
  <2>19. DurableIsKept'
    BY DEF DurableIsKept
  <2>20. ManifestIsLast'
    BY DEF ManifestIsLast
  <2>21. CompletionIsTrue'
    BY DEF CompletionIsTrue
  <2>22. HeldWasTrue'
    BY DEF HeldWasTrue
  <2> QED
    BY <2>11, <2>12, <2>13, <2>14, <2>15, <2>16, <2>17, <2>18, <2>19, <2>20,
       <2>21, <2>22 DEF IInv
<1> QED
  BY <1>2, <1>3

\* ... an append fails, ...
LEMMA AppendFailsKeepsIInv ==
  ASSUME IInv, AppendFails
  PROVE  IInv'
<1>1. /\ pc \in {"write", "part", "newline"} /\ failures' \in 0..MaxFailures
      /\ UNCHANGED <<lines, ended, archive, summary, manifest, sig, durable, rpc, held, crashes>>
  BY ConstantFacts DEF IInv, TypeOK, AppendFails, disk, memory, report, RunFrame
<1>2. CASE aborting
  <2>1. Dies /\ crashes' \in 0..MaxCrashes
    BY <1>1, <1>2 DEF AppendFails, IInv, TypeOK
  <2> QED
    BY <1>1, <2>1, DyingKeepsIInv
<1>3. CASE ~aborting
  <2>1. pc' = "append" /\ aborting' = TRUE /\ written' = 0 /\ UNCHANGED <<current, todo, batch>>
    BY <1>3 DEF AppendFails
  <2>2. manifest = None /\ Len(batch) \in Nat
    BY <1>1 DEF IInv, ManifestIsLast, TypeOK
  <2> USE <1>1, <2>1, <2>2 DEF IInv
  <2>11. TypeOK'
    BY DEF TypeOK
  <2>12. RowsAreSafe'
    BY DEF RowsAreSafe
  <2>13. LinesAreCurrent'
    BY DEF LinesAreCurrent, Going
  <2>14. TodoIsTheRest'
    BY DEF TodoIsTheRest, Going
  <2>15. BatchIsCurrent'
    BY DEF BatchIsCurrent
  <2>16. TornIsLast'
    BY DEF TornIsLast
  <2>17. OnlyTailIsTorn'
    BY DEF OnlyTailIsTorn
  <2>18. AppendIsFaithful'
    BY DEF AppendIsFaithful, BatchRow
  <2>19. DurableIsKept'
    BY DEF DurableIsKept
  <2>20. ManifestIsLast'
    BY DEF ManifestIsLast
  <2>21. CompletionIsTrue'
    BY DEF CompletionIsTrue
  <2>22. HeldWasTrue'
    BY DEF HeldWasTrue
  <2> QED
    BY <2>11, <2>12, <2>13, <2>14, <2>15, <2>16, <2>17, <2>18, <2>19, <2>20,
       <2>21, <2>22 DEF IInv
<1> QED
  BY <1>2, <1>3

\* ... or the run is killed.
LEMMA CrashKeepsIInv ==
  ASSUME IInv, Crash
  PROVE  IInv'
<1>1. /\ pc # "idle" /\ Dies /\ crashes' \in 0..MaxCrashes /\ failures' \in 0..MaxFailures
      /\ UNCHANGED <<lines, ended, archive, summary, manifest, sig, durable, rpc, held>>
  BY ConstantFacts DEF IInv, TypeOK, Crash, disk, memory, report, RunFrame
<1> QED
  BY <1>1, DyingKeepsIInv

\* The append mends the end of the file, ...
LEMMA MendKeepsIInv ==
  ASSUME IInv, MendTail
  PROVE  IInv'
<1>1. /\ pc = "append" /\ pc' = "write" /\ ended' = TRUE /\ written' = 0
      /\ lines' = IF ended \/ IsRow(Last(lines)) THEN lines ELSE Front(lines)
      /\ UNCHANGED <<archive, summary, manifest, sig, current, todo, batch, aborting,
                     durable, rpc, held, crashes, failures>>
  BY DEF MendTail, WriteFrame, disk, memory, report, RunFrame
<1>2. manifest = None
  BY <1>1 DEF IInv, ManifestIsLast
<1>3. lines \in Seq(Lines) /\ TornIsLast /\ OnlyTailIsTorn /\ LinesAreCurrent /\ Len(batch) \in Nat
  BY DEF IInv, TypeOK
<1>4. lines # <<>> => Len(lines) \in Nat /\ Len(lines) > 0 /\ Last(lines) = lines[Len(lines)]
  BY <1>3 DEF Last
<1>5. /\ lines' \in Seq(Lines) /\ RowsIn(lines') = RowsIn(lines)
      /\ \A i \in 1..Len(lines') : i \in 1..Len(lines) /\ lines'[i] = lines[i] /\ IsRow(lines'[i])
  <2>1. CASE ended \/ IsRow(Last(lines))
    <3>1. \A i \in 1..Len(lines) : IsRow(lines[i])
      BY <1>3, <1>4, <2>1 DEF OnlyTailIsTorn
    <3> QED
      BY <1>1, <1>3, <2>1, <3>1
  <2>2. CASE ~(ended \/ IsRow(Last(lines)))
    <3>1. lines # <<>> /\ lines' = Front(lines)
      BY <1>1, <1>3, <2>2 DEF TornIsLast
    <3>2. /\ lines' \in Seq(Lines) /\ RowsIn(lines') = RowsIn(lines)
          /\ \A i \in 1..Len(lines') : lines'[i] = lines[i] /\ i \in 1..Len(lines) /\ i # Len(lines)
      BY <1>3, <2>2, <3>1, CutLine
    <3> QED
      BY <1>3, <3>2 DEF OnlyTailIsTorn
  <2> QED
    BY <2>1, <2>2
<1> USE <1>1, <1>2, <1>3, <1>5 DEF IInv
<1>11. TypeOK'
  BY DEF TypeOK
<1>12. RowsAreSafe'
  BY DEF RowsAreSafe
<1>13. LinesAreCurrent'
  BY DEF LinesAreCurrent, Going
<1>14. TodoIsTheRest'
  BY DEF TodoIsTheRest, Going
<1>15. BatchIsCurrent'
  BY DEF BatchIsCurrent
<1>16. TornIsLast'
  BY DEF TornIsLast
<1>17. OnlyTailIsTorn'
  BY DEF OnlyTailIsTorn
<1>18. AppendIsFaithful'
  BY DEF AppendIsFaithful, BatchRow
<1>19. DurableIsKept'
  BY DEF DurableIsKept
<1>20. ManifestIsLast'
  BY DEF ManifestIsLast
<1>21. CompletionIsTrue'
  BY DEF CompletionIsTrue
<1>22. HeldWasTrue'
  BY DEF HeldWasTrue
<1> QED
  BY <1>11, <1>12, <1>13, <1>14, <1>15, <1>16, <1>17, <1>18, <1>19, <1>20,
     <1>21, <1>22 DEF IInv

\* ... starts a row, ...
LEMMA StartRowKeepsIInv ==
  ASSUME IInv, StartRow
  PROVE  IInv'
<1>1. /\ pc = "write" /\ pc' = "part" /\ written < Len(batch) /\ ended' = FALSE
      /\ written' = written + 1
      /\ UNCHANGED <<archive, summary, manifest, sig, current, todo, batch, aborting,
                     durable, rpc, held, crashes, failures>>
  BY DEF StartRow, WriteFrame, disk, memory, report, RunFrame
<1>2. manifest = None
  BY <1>1 DEF IInv, ManifestIsLast
<1>3. /\ lines \in Seq(Lines) /\ batch \in Seq(Keys) /\ written \in 0..Len(batch)
      /\ sig \in Signatures /\ ended /\ OnlyTailIsTorn /\ LinesAreCurrent
  BY <1>1 DEF IInv, TypeOK, AppendIsFaithful
<1>4. /\ written' \in 0..Len(batch) /\ written' \in 1..Len(batch) /\ written' - 1 = written
      /\ batch[written'] \in Keys /\ batch[written'] \in current
  BY <1>1, <1>3 DEF IInv, BatchIsCurrent
<1> DEFINE line == [key |-> batch[written'], sig |-> sig, form |-> "part"]
<1>5. lines' = Append(lines, line)
  BY <1>1, <1>3 DEF StartRow, Line
<1>6. line.key = batch[written'] /\ line.sig = sig
  OBVIOUS
<1>7. /\ lines' \in Seq(Lines) /\ RowsIn(lines') = RowsIn(lines) /\ lines' # <<>>
      /\ Len(lines) \in Nat /\ Len(lines') = Len(lines) + 1
      /\ \A i \in 1..Len(lines) : lines'[i] = lines[i]
      /\ lines'[Len(lines')] = line /\ Last(lines') = line
  BY <1>3, <1>4, <1>5, StartedLine
<1> HIDE DEF line
<1>8. \A i \in 1..Len(lines') : i \in 1..Len(lines) \/ i = Len(lines')
  BY <1>7
<1>9. \A i \in 1..Len(lines') : lines'[i].sig = sig /\ lines'[i].key \in current
  BY <1>1, <1>3, <1>4, <1>6, <1>7, <1>8 DEF LinesAreCurrent, Going
<1>10. \A i \in 1..Len(lines') : ~IsRow(lines'[i]) => i = Len(lines')
  BY <1>3, <1>7, <1>8 DEF OnlyTailIsTorn
<1> USE <1>1, <1>2, <1>3, <1>4, <1>7, <1>9, <1>10 DEF IInv
<1>11. TypeOK'
  BY DEF TypeOK
<1>12. RowsAreSafe'
  BY DEF RowsAreSafe
<1>13. LinesAreCurrent'
  BY DEF LinesAreCurrent, Going
<1>14. TodoIsTheRest'
  BY DEF TodoIsTheRest, Going
<1>15. BatchIsCurrent'
  BY DEF BatchIsCurrent
<1>16. TornIsLast'
  BY DEF TornIsLast
<1>17. OnlyTailIsTorn'
  BY DEF OnlyTailIsTorn
<1>18. AppendIsFaithful'
  BY DEF AppendIsFaithful, BatchRow, line
<1>19. DurableIsKept'
  BY DEF DurableIsKept
<1>20. ManifestIsLast'
  BY DEF ManifestIsLast
<1>21. CompletionIsTrue'
  BY DEF CompletionIsTrue
<1>22. HeldWasTrue'
  BY DEF HeldWasTrue
<1> QED
  BY <1>11, <1>12, <1>13, <1>14, <1>15, <1>16, <1>17, <1>18, <1>19, <1>20,
     <1>21, <1>22 DEF IInv

\* ... finishes it, ...
LEMMA FinishRowKeepsIInv ==
  ASSUME IInv, FinishRow
  PROVE  IInv'
<1>1. /\ pc = "part" /\ pc' = "newline"
      /\ UNCHANGED <<ended, archive, summary, manifest, sig, current, todo, batch,
                     written, aborting, durable, rpc, held, crashes, failures>>
  BY DEF FinishRow, WriteFrame, disk, memory, report, RunFrame
<1>2. manifest = None
  BY <1>1 DEF IInv, ManifestIsLast
<1>3. /\ lines \in Seq(Lines) /\ ~ended /\ lines # <<>> /\ written \in 1..Len(batch)
      /\ Last(lines) = [key |-> batch[written], sig |-> sig, form |-> "part"]
      /\ OnlyTailIsTorn /\ LinesAreCurrent
      /\ \A i \in 1..(written - 1) : BatchRow(i) \in RowsIn(lines)
  BY <1>1 DEF IInv, TypeOK, AppendIsFaithful, TornIsLast
<1>4. lines' = Finished(lines)
  <2>1. Last(lines).form = "part"
    BY <1>3
  <2> QED
    BY <2>1 DEF FinishRow, Finished
<1>5. /\ lines' \in Seq(Lines) /\ Len(lines) \in Nat /\ Len(lines) > 0 /\ Len(lines') = Len(lines)
      /\ \A i \in 1..Len(lines) : lines'[i].key = lines[i].key /\ lines'[i].sig = lines[i].sig
      /\ \A i \in 1..Len(lines) : i # Len(lines) => lines'[i] = lines[i]
      /\ IsRow(Last(lines')) /\ Last(lines') = lines'[Len(lines)]
      /\ RowsIn(lines') = RowsIn(lines) \cup {BatchRow(written)}
  <2>1. /\ lines \in Seq(Lines) /\ lines # <<>> /\ Last(lines).form = "part"
        /\ [key |-> Last(lines).key, sig |-> Last(lines).sig] = BatchRow(written)
    BY <1>3 DEF BatchRow
  <2> QED
    BY <1>4, <2>1, FinishedLine
<1>6. lines' # <<>> /\ \A i \in 1..Len(lines') : IsRow(lines'[i])
  BY <1>3, <1>5 DEF OnlyTailIsTorn
<1>7. \A i \in 1..Len(lines') : lines'[i].sig = sig /\ lines'[i].key \in current
  BY <1>1, <1>3, <1>5 DEF LinesAreCurrent, Going
<1>8. \A i \in 1..written : BatchRow(i) \in RowsIn(lines')
  <2>1. \A i \in 1..written : i \in 1..(written - 1) \/ i = written
    BY <1>3
  <2> QED
    BY <1>3, <1>5, <2>1
<1> USE <1>1, <1>2, <1>3, <1>5, <1>6, <1>7, <1>8 DEF IInv
<1>11. TypeOK'
  BY DEF TypeOK
<1>12. RowsAreSafe'
  BY DEF RowsAreSafe
<1>13. LinesAreCurrent'
  BY DEF LinesAreCurrent, Going
<1>14. TodoIsTheRest'
  BY DEF TodoIsTheRest, Going
<1>15. BatchIsCurrent'
  BY DEF BatchIsCurrent
<1>16. TornIsLast'
  BY DEF TornIsLast
<1>17. OnlyTailIsTorn'
  BY DEF OnlyTailIsTorn
<1>18. AppendIsFaithful'
  BY DEF AppendIsFaithful, BatchRow
<1>19. DurableIsKept'
  BY DEF DurableIsKept
<1>20. ManifestIsLast'
  BY DEF ManifestIsLast
<1>21. CompletionIsTrue'
  BY DEF CompletionIsTrue
<1>22. HeldWasTrue'
  BY DEF HeldWasTrue
<1> QED
  BY <1>11, <1>12, <1>13, <1>14, <1>15, <1>16, <1>17, <1>18, <1>19, <1>20,
     <1>21, <1>22 DEF IInv

\* ... ends its line, ...
LEMMA EndRowKeepsIInv ==
  ASSUME IInv, EndRow
  PROVE  IInv'
<1>1. /\ pc = "newline" /\ pc' = "write" /\ ended' = TRUE
      /\ UNCHANGED <<lines, archive, summary, manifest, sig, current, todo, batch,
                     written, aborting, durable, rpc, held, crashes, failures>>
  BY DEF EndRow, WriteFrame, disk, memory, report, RunFrame
<1>2. manifest = None
  BY <1>1 DEF IInv, ManifestIsLast
<1>3. /\ lines \in Seq(Lines) /\ ~ended /\ IsRow(Last(lines)) /\ OnlyTailIsTorn /\ TornIsLast
      /\ \A i \in 1..written : BatchRow(i) \in RowsIn(lines)
  BY <1>1 DEF IInv, TypeOK, AppendIsFaithful
<1>4. \A i \in 1..Len(lines) : IsRow(lines[i])
  BY <1>3 DEF OnlyTailIsTorn, Last
<1> USE <1>1, <1>2, <1>3, <1>4 DEF IInv
<1>11. TypeOK'
  BY DEF TypeOK
<1>12. RowsAreSafe'
  BY DEF RowsAreSafe
<1>13. LinesAreCurrent'
  BY DEF LinesAreCurrent, Going
<1>14. TodoIsTheRest'
  BY DEF TodoIsTheRest, Going
<1>15. BatchIsCurrent'
  BY DEF BatchIsCurrent
<1>16. TornIsLast'
  BY DEF TornIsLast
<1>17. OnlyTailIsTorn'
  BY DEF OnlyTailIsTorn
<1>18. AppendIsFaithful'
  BY DEF AppendIsFaithful, BatchRow
<1>19. DurableIsKept'
  BY DEF DurableIsKept
<1>20. ManifestIsLast'
  BY DEF ManifestIsLast
<1>21. CompletionIsTrue'
  BY DEF CompletionIsTrue
<1>22. HeldWasTrue'
  BY DEF HeldWasTrue
<1> QED
  BY <1>11, <1>12, <1>13, <1>14, <1>15, <1>16, <1>17, <1>18, <1>19, <1>20,
     <1>21, <1>22 DEF IInv

\* ... and returns.
LEMMA AppendReturnsKeepsIInv ==
  ASSUME IInv, AppendReturns
  PROVE  IInv'
<1>1. /\ pc = "write" /\ written = Len(batch)
      /\ durable' = durable \cup {BatchRow(i) : i \in 1..Len(batch)}
      /\ UNCHANGED <<lines, ended, archive, summary, manifest, sig, rpc, held, crashes, failures>>
  BY DEF AppendReturns, BatchRow, disk, memory, report, RunFrame
<1>2. manifest = None
  BY <1>1 DEF IInv, ManifestIsLast
<1>3. durable' \subseteq RowsIn(lines') \cup archive'
  BY <1>1 DEF IInv, AppendIsFaithful, DurableIsKept
<1>4. durable' \subseteq Rows
  <2>1. \A i \in 1..Len(batch) : batch[i] \in Keys
    BY DEF IInv, TypeOK
  <2> QED
    BY <1>1, <2>1 DEF IInv, TypeOK, BatchRow, Rows
<1>5. CASE aborting
  <2>1. pc' = "idle" /\ current' = {} /\ todo' = {} /\ batch' = <<>> /\ written' = 0
        /\ aborting' = FALSE /\ Len(batch') = 0
    BY <1>5 DEF AppendReturns, Dies
  <2>2. batch' \in Seq(Keys) /\ written' \in 0..Len(batch')
    BY <2>1, EmptyBatch
  <2>3. aborting' \in BOOLEAN
    BY <2>1, Zenon
  <2> USE <1>1, <1>2, <1>3, <1>4, <2>1, <2>2, <2>3 DEF IInv
  <2>11. TypeOK'
    BY DEF TypeOK
  <2>12. RowsAreSafe'
    BY DEF RowsAreSafe
  <2>13. LinesAreCurrent'
    BY DEF LinesAreCurrent, Going
  <2>14. TodoIsTheRest'
    BY DEF TodoIsTheRest, Going
  <2>15. BatchIsCurrent'
    BY DEF BatchIsCurrent
  <2>16. TornIsLast'
    BY DEF TornIsLast
  <2>17. OnlyTailIsTorn'
    BY DEF OnlyTailIsTorn
  <2>18. AppendIsFaithful'
    BY DEF AppendIsFaithful, BatchRow
  <2>19. DurableIsKept'
    BY DEF DurableIsKept
  <2>20. ManifestIsLast'
    BY DEF ManifestIsLast
  <2>21. CompletionIsTrue'
    BY DEF CompletionIsTrue
  <2>22. HeldWasTrue'
    BY DEF HeldWasTrue
  <2> QED
    BY <2>11, <2>12, <2>13, <2>14, <2>15, <2>16, <2>17, <2>18, <2>19, <2>20,
       <2>21, <2>22 DEF IInv
<1>6. CASE ~aborting
  <2>1. pc' = "run" /\ batch' = <<>> /\ written' = 0 /\ UNCHANGED <<current, todo, aborting>>
        /\ Len(batch') = 0
    BY <1>6 DEF AppendReturns
  <2>2. batch' \in Seq(Keys) /\ written' \in 0..Len(batch')
    BY <2>1
  <2> USE <1>1, <1>2, <1>3, <1>4, <2>1, <2>2 DEF IInv
  <2>11. TypeOK'
    BY DEF TypeOK
  <2>12. RowsAreSafe'
    BY DEF RowsAreSafe
  <2>13. LinesAreCurrent'
    BY DEF LinesAreCurrent, Going
  <2>14. TodoIsTheRest'
    BY DEF TodoIsTheRest, Going
  <2>15. BatchIsCurrent'
    BY DEF BatchIsCurrent
  <2>16. TornIsLast'
    BY DEF TornIsLast
  <2>17. OnlyTailIsTorn'
    BY DEF OnlyTailIsTorn
  <2>18. AppendIsFaithful'
    BY DEF AppendIsFaithful, BatchRow
  <2>19. DurableIsKept'
    BY DEF DurableIsKept
  <2>20. ManifestIsLast'
    BY DEF ManifestIsLast
  <2>21. CompletionIsTrue'
    BY DEF CompletionIsTrue
  <2>22. HeldWasTrue'
    BY DEF HeldWasTrue
  <2> QED
    BY <2>11, <2>12, <2>13, <2>14, <2>15, <2>16, <2>17, <2>18, <2>19, <2>20,
       <2>21, <2>22 DEF IInv
<1> QED
  BY <1>5, <1>6

\* A finished run writes the whole grid, ...
LEMMA FinalKeepsIInv ==
  ASSUME IInv, WriteFinal
  PROVE  IInv'
<1>1. /\ pc = "final" /\ pc' = "summary" /\ current = Keys /\ lines' = WholeGrid(sig)
      /\ ended' = TRUE /\ durable' = durable \cup RowsIn(lines')
      /\ UNCHANGED <<archive, summary, manifest, sig, current, todo, batch, written,
                     aborting, rpc, held, crashes, failures>>
  BY DEF WriteFinal, disk, memory, report, RunFrame
<1>2. manifest = None
  BY <1>1 DEF IInv, ManifestIsLast
<1>3. sig \in Signatures /\ LinesAreCurrent
  BY DEF IInv, TypeOK
<1>4. /\ lines' \in Seq(Lines) /\ \A i \in 1..Len(lines') : IsRow(lines'[i])
      /\ RowsIn(lines') = {[key |-> k, sig |-> sig] : k \in Keys}
  BY <1>1, <1>3, GridFacts
<1>5. RowsIn(lines') \subseteq Rows
  BY <1>3, <1>4 DEF Rows
<1>6. RowsIn(lines) \subseteq RowsIn(lines')
  <2> SUFFICES ASSUME NEW row \in RowsIn(lines) PROVE row \in RowsIn(lines')
    OBVIOUS
  <2>1. PICK i \in 1..Len(lines) : row = RowOf(lines[i])
    BY RowsOfAFile
  <2>2. lines[i].sig = sig /\ lines[i].key \in Keys
    BY <1>1, <1>3 DEF LinesAreCurrent, Going
  <2> QED
    BY <1>4, <2>1, <2>2 DEF RowOf
<1> USE <1>1, <1>2, <1>4, <1>5, <1>6 DEF IInv
<1>11. TypeOK'
  BY DEF TypeOK
<1>12. RowsAreSafe'
  BY DEF RowsAreSafe
<1>13. LinesAreCurrent'
  BY DEF LinesAreCurrent, Going
<1>14. TodoIsTheRest'
  BY DEF TodoIsTheRest, Going
<1>15. BatchIsCurrent'
  BY DEF BatchIsCurrent
<1>16. TornIsLast'
  BY DEF TornIsLast
<1>17. OnlyTailIsTorn'
  BY DEF OnlyTailIsTorn
<1>18. AppendIsFaithful'
  BY DEF AppendIsFaithful, BatchRow
<1>19. DurableIsKept'
  BY DEF DurableIsKept
<1>20. ManifestIsLast'
  BY DEF ManifestIsLast
<1>21. CompletionIsTrue'
  BY DEF CompletionIsTrue
<1>22. HeldWasTrue'
  BY DEF HeldWasTrue
<1> QED
  BY <1>11, <1>12, <1>13, <1>14, <1>15, <1>16, <1>17, <1>18, <1>19, <1>20,
     <1>21, <1>22 DEF IInv

\* ... its summary ...
LEMMA SummaryKeepsIInv ==
  ASSUME IInv, BeginSummary \/ EndSummary
  PROVE  IInv'
<1>1. /\ \/ pc = "summary" /\ pc' = "csv" /\ summary' = "cut"
         \/ pc = "csv" /\ pc' = "manifest" /\ summary' = sig
      /\ UNCHANGED <<lines, ended, archive, manifest, sig, current, todo, batch, written,
                     aborting, durable, rpc, held, crashes, failures>>
  BY DEF BeginSummary, EndSummary, disk, memory, report, RunFrame
<1>2. manifest = None
  BY <1>1 DEF IInv, ManifestIsLast
<1> USE <1>1, <1>2 DEF IInv
<1>11. TypeOK'
  BY DEF TypeOK
<1>12. RowsAreSafe'
  BY DEF RowsAreSafe
<1>13. LinesAreCurrent'
  BY DEF LinesAreCurrent, Going
<1>14. TodoIsTheRest'
  BY DEF TodoIsTheRest, Going
<1>15. BatchIsCurrent'
  BY DEF BatchIsCurrent
<1>16. TornIsLast'
  BY DEF TornIsLast
<1>17. OnlyTailIsTorn'
  BY DEF OnlyTailIsTorn
<1>18. AppendIsFaithful'
  BY DEF AppendIsFaithful, BatchRow
<1>19. DurableIsKept'
  BY DEF DurableIsKept
<1>20. ManifestIsLast'
  BY DEF ManifestIsLast
<1>21. CompletionIsTrue'
  BY DEF CompletionIsTrue
<1>22. HeldWasTrue'
  BY DEF HeldWasTrue
<1> QED
  BY <1>11, <1>12, <1>13, <1>14, <1>15, <1>16, <1>17, <1>18, <1>19, <1>20,
     <1>21, <1>22 DEF IInv

\* ... and the manifest.
LEMMA ManifestKeepsIInv ==
  ASSUME IInv, WriteManifest
  PROVE  IInv'
<1>1. /\ pc = "manifest" /\ pc' = "idle" /\ manifest' = [sig |-> sig, digest |-> lines]
      /\ current' = {} /\ todo' = {} /\ batch' = <<>> /\ written' = 0 /\ aborting' = FALSE
      /\ UNCHANGED <<lines, ended, archive, summary, sig, durable, rpc, held, crashes,
                     failures>>
  BY DEF WriteManifest, Dies, disk, memory, report, RunFrame
<1>2. Len(batch') = 0 /\ batch' \in Seq(Keys) /\ written' \in 0..Len(batch')
  BY <1>1, EmptyBatch
<1>3. aborting' \in BOOLEAN
  BY <1>1, Zenon
<1>4. manifest' \in [sig : Signatures, digest : Seq(Lines)]
  BY <1>1 DEF IInv, TypeOK
<1>5. manifest'.sig = sig /\ manifest'.digest = lines
  BY <1>1
<1>6. ended /\ lines = WholeGrid(sig) /\ summary = sig
  BY <1>1 DEF IInv, ManifestIsLast
<1> USE <1>1, <1>2, <1>4, <1>5, <1>6, <1>3 DEF IInv
<1>7. TypeOK'
  BY DEF TypeOK
<1>8. RowsAreSafe'
  BY DEF RowsAreSafe
<1>9. LinesAreCurrent'
  BY DEF LinesAreCurrent, Going
<1>10. TodoIsTheRest'
  BY DEF TodoIsTheRest, Going
<1>11. BatchIsCurrent'
  BY DEF BatchIsCurrent
<1>12. TornIsLast'
  BY DEF TornIsLast
<1>13. OnlyTailIsTorn'
  BY DEF OnlyTailIsTorn
<1>14. AppendIsFaithful'
  BY DEF AppendIsFaithful, BatchRow
<1>15. DurableIsKept'
  BY DEF DurableIsKept
<1>16. ManifestIsLast'
  BY DEF ManifestIsLast
<1>17. CompletionIsTrue'
  BY DEF CompletionIsTrue
<1>18. HeldWasTrue'
  BY DEF HeldWasTrue
<1> QED
  BY <1>7, <1>8, <1>9, <1>10, <1>11, <1>12, <1>13, <1>14, <1>15, <1>16,
     <1>17, <1>18 DEF IInv

----------------------------------------------------------------------------
(* The report.                                                             *)

\* A report changes nothing but what it holds, and that was true when read.
LEMMA ReportKeepsIInv ==
  ASSUME IInv, Report
  PROVE  IInv'
<1>1. UNCHANGED <<lines, ended, archive, summary, manifest, pc, sig, current, todo, batch,
                  written, aborting, durable, crashes, failures>>
  BY DEF Report, ReadManifest, CheckDigest, ReadRows, ReportFrame, disk, memory, budget
<1>2. TypeOK' /\ HeldWasTrue'
  <2>1. CASE ReadManifest
    <3>1. /\ held' = manifest /\ rpc' = "digest" /\ manifest # None
      BY <2>1 DEF ReadManifest
    <3>2. manifest \in [sig : Signatures, digest : Seq(Lines)]
          /\ manifest.digest = WholeGrid(manifest.sig)
      BY <3>1 DEF IInv, TypeOK, CompletionIsTrue
    <3> QED
      BY <1>1, <3>1, <3>2 DEF IInv, TypeOK, HeldWasTrue
  <2>2. CASE held' = held /\ rpc' \in {"rows", "accepted"} /\ rpc # "idle"
    BY <1>1, <2>2 DEF IInv, TypeOK, HeldWasTrue
  <2>3. CASE Rejects
    BY <1>1, <2>3 DEF IInv, TypeOK, HeldWasTrue, Rejects
  <2> QED
    BY <2>1, <2>2, <2>3 DEF Report, CheckDigest, ReadRows
<1> USE <1>1, <1>2 DEF IInv
<1>11. TypeOK'
  BY <1>2
<1>12. RowsAreSafe'
  BY DEF RowsAreSafe
<1>13. LinesAreCurrent'
  BY DEF LinesAreCurrent, Going
<1>14. TodoIsTheRest'
  BY DEF TodoIsTheRest, Going
<1>15. BatchIsCurrent'
  BY DEF BatchIsCurrent
<1>16. TornIsLast'
  BY DEF TornIsLast
<1>17. OnlyTailIsTorn'
  BY DEF OnlyTailIsTorn
<1>18. AppendIsFaithful'
  BY DEF AppendIsFaithful, BatchRow
<1>19. DurableIsKept'
  BY DEF DurableIsKept
<1>20. ManifestIsLast'
  BY DEF ManifestIsLast
<1>21. CompletionIsTrue'
  BY DEF CompletionIsTrue
<1>22. HeldWasTrue'
  BY <1>2
<1> QED
  BY <1>11, <1>12, <1>13, <1>14, <1>15, <1>16, <1>17, <1>18, <1>19, <1>20,
     <1>21, <1>22 DEF IInv

----------------------------------------------------------------------------
(* The theorems.                                                           *)

LEMMA InitIInv == Init => IInv
<1> SUFFICES ASSUME Init PROVE IInv
  OBVIOUS
<1>1. Len(lines) = 0 /\ Len(batch) = 0 /\ lines \in Seq(Lines) /\ batch \in Seq(Keys)
  BY EmptyBatch DEF Init
<1>2. TypeOK
  <2>1. ended \in BOOLEAN /\ aborting \in BOOLEAN
    BY Zenon DEF Init
  <2>2. written \in 0..Len(batch) /\ crashes \in 0..MaxCrashes /\ failures \in 0..MaxFailures
    BY <1>1, ConstantFacts DEF Init
  <2> QED
    BY <1>1, <2>1, <2>2 DEF Init, TypeOK
<1> QED
  BY <1>1, <1>2 DEF Init, IInv, RowsAreSafe, LinesAreCurrent, TodoIsTheRest, BatchIsCurrent,
     TornIsLast, OnlyTailIsTorn, AppendIsFaithful, DurableIsKept, ManifestIsLast,
     CompletionIsTrue, HeldWasTrue, Going

LEMMA StutterKeepsIInv ==
  ASSUME IInv, UNCHANGED vars
  PROVE  IInv'
<1>1. UNCHANGED <<lines, ended, archive, summary, manifest, pc, sig, current, todo,
                     batch, written, aborting, durable, rpc, held, crashes, failures>>
  BY DEF vars, disk, memory, report, budget
<1> USE <1>1 DEF IInv
<1>11. TypeOK'
  BY DEF TypeOK
<1>12. RowsAreSafe'
  BY DEF RowsAreSafe
<1>13. LinesAreCurrent'
  BY DEF LinesAreCurrent, Going
<1>14. TodoIsTheRest'
  BY DEF TodoIsTheRest, Going
<1>15. BatchIsCurrent'
  BY DEF BatchIsCurrent
<1>16. TornIsLast'
  BY DEF TornIsLast
<1>17. OnlyTailIsTorn'
  BY DEF OnlyTailIsTorn
<1>18. AppendIsFaithful'
  BY DEF AppendIsFaithful, BatchRow
<1>19. DurableIsKept'
  BY DEF DurableIsKept
<1>20. ManifestIsLast'
  BY DEF ManifestIsLast
<1>21. CompletionIsTrue'
  BY DEF CompletionIsTrue
<1>22. HeldWasTrue'
  BY DEF HeldWasTrue
<1> QED
  BY <1>11, <1>12, <1>13, <1>14, <1>15, <1>16, <1>17, <1>18, <1>19, <1>20,
     <1>21, <1>22 DEF IInv

LEMMA NextKeepsIInv == IInv /\ [Next]_vars => IInv'
<1> SUFFICES ASSUME IInv, [Next]_vars PROVE IInv'
  OBVIOUS
<1>1. CASE Step
  BY <1>1, StartKeepsIInv, ArchiveKeepsIInv, RewriteKeepsIInv, DeliverKeepsIInv,
     LoopEndsKeepsIInv,
     LoopFailsKeepsIInv, MendKeepsIInv, StartRowKeepsIInv, FinishRowKeepsIInv, EndRowKeepsIInv,
     AppendReturnsKeepsIInv, AppendFailsKeepsIInv, FinalKeepsIInv, SummaryKeepsIInv,
     ManifestKeepsIInv DEF Step
<1> QED
  BY <1>1, CrashKeepsIInv, ReportKeepsIInv, StutterKeepsIInv DEF Next

\* The inductive invariant holds throughout.
THEOREM Invariance == Spec => []IInv
  BY InitIInv, NextKeepsIInv, PTL DEF Spec

\* While evaluation_manifest.json stands, episodes.jsonl is the whole grid of its
\* signature and the summary belongs to it, whatever runs were started, failed or
\* were killed since.
THEOREM CompletionStaysTrue == Spec => []CompletionIsTrue
<1>1. IInv => CompletionIsTrue
  BY DEF IInv
<1> QED
  BY Invariance, <1>1, PTL

\* No row is lost once it has been fsynced, and an append never goes on after half
\* a line.
THEOREM CheckpointStaysSound == Spec => []CheckpointIsSound
<1>1. IInv => CheckpointIsSound
  BY DEF IInv, CheckpointIsSound
<1> QED
  BY Invariance, <1>1, PTL

\* No run evaluates an episode that the file has a row for.
THEOREM NothingIsEvaluatedTwice == Spec => NotEvaluatedTwice
<1>1. ASSUME IInv, NEW k \in Keys, Deliver(k)
      PROVE  [key |-> k, sig |-> sig] \notin RowsIn(lines)
  <2>1. pc = "run" /\ k \in todo
    BY <1>1 DEF Deliver
  <2>2. \A i \in 1..Len(lines) : lines[i].key # k
    BY <1>1, <2>1 DEF IInv, LinesAreCurrent, TodoIsTheRest, Going
  <2>3. \A i \in 1..Len(lines) : RowOf(lines[i]).key # k
    BY <2>2 DEF RowOf
  <2>4. \A row \in RowsIn(lines) : row.key # k
    BY <2>3, RowsOfAFile
  <2> QED
    BY <2>4
<1>2. IInv => \A k \in Keys : Deliver(k) => [key |-> k, sig |-> sig] \notin RowsIn(lines)
  BY <1>1
<1>3. IInv /\ [Next]_vars =>
        [\A k \in Keys : Deliver(k) => [key |-> k, sig |-> sig] \notin RowsIn(lines)]_vars
  BY <1>2
<1> QED
  BY Invariance, <1>3, PTL DEF Spec, NotEvaluatedTwice

\* A step of the report, given the invariant.
LEMMA ReaderStep ==
  ASSUME IInv, [Next]_vars
  PROVE  /\ rpc = "rows" /\ rpc' = "accepted" => RowsIn(lines) = RowsIn(held.digest)
         /\ rpc # "idle" /\ rpc' = "idle" => manifest # held
<1>1. rpc' = rpc \/ ReadManifest \/ CheckDigest \/ ReadRows
  BY DEF Next, Step, Start, ArchiveStale, RewriteCache, Deliver, LoopEnds, LoopFails, MendTail,
         StartRow, FinishRow, EndRow, AppendReturns, AppendFails, WriteFinal, BeginSummary,
         EndSummary, WriteManifest, Crash, Report, RunFrame, WriteFrame, vars, report
<1>2. rpc # "idle" => held # None /\ held.sig \in Signatures /\ held.digest = WholeGrid(held.sig)
  BY DEF IInv, HeldWasTrue
<1>3. ASSUME rpc = "rows", rpc' = "accepted"
      PROVE  RowsIn(lines) = RowsIn(held.digest)
  <2>1. ReadRows
    BY <1>1, <1>3 DEF ReadManifest, CheckDigest
  <2>2. /\ \A row \in RowsIn(lines) : row.sig = held.sig
        /\ {row.key : row \in RowsIn(lines)} = Keys
    BY <1>3, <2>1 DEF ReadRows, Rejects
  <2>3. \A row \in RowsIn(lines) : row = [key |-> row.key, sig |-> row.sig]
    BY RowsOfAFile DEF RowOf
  <2>4. RowsIn(held.digest) = {[key |-> k, sig |-> held.sig] : k \in Keys}
    BY <1>2, <1>3, GridFacts
  <2> QED
    BY <2>2, <2>3, <2>4
<1>4. ASSUME rpc # "idle", rpc' = "idle", manifest = held
      PROVE  FALSE
  <2>1. /\ ended /\ lines = WholeGrid(held.sig) /\ lines = held.digest
    BY <1>2, <1>4 DEF IInv, CompletionIsTrue
  <2>2. ~CheckDigest /\ ~ReadManifest
    BY <1>4, <2>1 DEF CheckDigest, ReadManifest
  <2>3. ReadRows
    BY <1>1, <1>4, <2>2
  <2>4. /\ lines = WholeGrid(held.sig) /\ held.sig \in Signatures /\ Len(lines) = Len(Order)
        /\ \A i \in 1..Len(lines) : IsRow(lines[i])
        /\ RowsIn(lines) = {[key |-> k, sig |-> held.sig] : k \in Keys}
    <3> DEFINE g == WholeGrid(held.sig)
    <3>1. held.sig \in Signatures /\ lines = g
      BY <1>2, <1>4, <2>1
    <3>2. /\ Len(g) = Len(Order) /\ \A i \in 1..Len(Order) : IsRow(g[i])
          /\ RowsIn(g) = {[key |-> k, sig |-> held.sig] : k \in Keys}
      BY <3>1, GridFacts
    <3>3. g = WholeGrid(held.sig)
      OBVIOUS
    <3> HIDE DEF g
    <3> QED
      BY <3>1, <3>2, <3>3
  <2>5. {i \in 1..Len(lines) : IsRow(lines[i])} = 1..Len(Order)
    BY <2>4
  <2>6. Cardinality(1..Len(Order)) = Len(Order)
    <3>1. /\ 1 \in Int /\ Len(Order) \in Int /\ Len(Order) \in Nat
          /\ (1 > Len(Order) => Len(Order) = 0)
      BY ConstantFacts
    <3>2. Cardinality(1..Len(Order)) = IF 1 > Len(Order) THEN 0 ELSE Len(Order) - 1 + 1
      BY <3>1, FS_Interval
    <3> QED
      BY <3>1, <3>2
  <2>7. \A row \in RowsIn(lines) : row.sig = held.sig
    BY <2>4
  <2>8. {row.key : row \in RowsIn(lines)} = Keys
    <3>1. \A k \in Keys : /\ [key |-> k, sig |-> held.sig].key = k
                          /\ [key |-> k, sig |-> held.sig] \in RowsIn(lines)
      BY <2>4
    <3>2. \A row \in RowsIn(lines) : row.key \in Keys
      BY <2>4
    <3> QED
      BY <3>1, <3>2
  <2>9. rpc' = "accepted"
    BY <2>3, <2>5, <2>6, <2>7, <2>8 DEF ReadRows
  <2> QED
    BY <1>4, <2>9
<1> QED
  BY <1>3, <1>4

\* The report accepts the rows it has digested, although it opens the file twice, and
\* refuses a finished evaluation only when it is being run again.
THEOREM ReaderStaysExact == Spec => ReaderIsExact
<1>1. IInv /\ [Next]_vars =>
        [rpc = "rows" /\ rpc' = "accepted" => RowsIn(lines) = RowsIn(held.digest)]_vars
  BY ReaderStep
<1>2. IInv /\ [Next]_vars => [rpc # "idle" /\ rpc' = "idle" => manifest # held]_vars
  BY ReaderStep
<1>3. Spec => AcceptsWhatWasDigested
  BY Invariance, <1>1, PTL DEF Spec, AcceptsWhatWasDigested
<1>4. Spec => RefusesOnlyReruns
  BY Invariance, <1>2, PTL DEF Spec, RefusesOnlyReruns
<1> QED
  BY <1>3, <1>4 DEF ReaderIsExact
=============================================================================
