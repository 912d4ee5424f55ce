----------------------- MODULE DataPreparationProofs -----------------------
(***************************************************************************)
(* Theorems about DataPreparation, for any datasets, corpus, requests and  *)
(* number of edits and deaths: prepare writes what its validator accepts,  *)
(* only renames change what passes, its coverage is exact, and two         *)
(* inputs of a training run are clean. What the loops of the preparation   *)
(* compute (rows put together, sums, one spelling of each title) is proved *)
(* along the numbers: no place can be the least at which the claim fails.  *)
(***************************************************************************)
EXTENDS DataPreparation, WellFoundedInduction, FiniteSetTheorems, TLAPS

\* The lists of the code: what Python holds in a list, whatever its elements.
IsList(s) == s \in Seq(Range(s))

\* A sequence over any set is a list of its own values.
LEMMA ListOf ==
  ASSUME NEW S, NEW s \in Seq(S)
  PROVE  /\ IsList(s) /\ Len(s) \in Nat /\ DOMAIN s = 1..Len(s)
         /\ \A i \in 1..Len(s): s[i] \in S
  BY DEF IsList, Range

\* A list is a function on the first numbers.
LEMMA ListIs ==
  ASSUME NEW s, IsList(s)
  PROVE  Len(s) \in Nat /\ DOMAIN s = 1..Len(s)
  BY DEF IsList

\* A function on an initial segment of the numbers is a list.
LEMMA SegmentIsList ==
  ASSUME NEW n \in Nat, NEW s, DOMAIN s = 1..n, s = [i \in 1..n |-> s[i]]
  PROVE  IsList(s) /\ Len(s) = n
<1>1. s \in [1..n -> Range(s)]
  BY DEF Range
<1> QED
  BY <1>1 DEF IsList

(***************************************************************************)
(* Induction along the numbers, for a set of them.                         *)
(***************************************************************************)
LEMMA Least ==
  ASSUME NEW S \in SUBSET Nat, S # {}
  PROVE  \E n \in S: \A m \in S: n <= m
<1>1. PICK n \in S: \A m \in S: ~(<<m, n>> \in OpToRel(<, Nat))
  BY NatLessThanWellFounded, WFMin
<1>2. \A m \in S: ~(m < n)
  BY <1>1 DEF OpToRel
<1> QED
  BY <1>2

\* What passes from each place to the next, and holds at the first, holds at all.
LEMMA Along ==
  ASSUME NEW m \in Nat, NEW S,
         \A i \in 1..m: (i = 1 \/ i - 1 \in S) => i \in S
  PROVE  1..m \subseteq S
<1> DEFINE Bad == {i \in 1..m: i \notin S}
<1>1. SUFFICES ASSUME Bad # {} PROVE FALSE
  OBVIOUS
<1>2. PICK i \in Bad: \A k \in Bad: i <= k
  <2>1. Bad \in SUBSET Nat
    OBVIOUS
  <2> QED
    BY <1>1, <2>1, Least
<1>3. i # 1 => i - 1 \in 1..m /\ i - 1 \notin Bad
  BY <1>2
<1> QED
  BY <1>2, <1>3

(***************************************************************************)
(* The lists of a list, one after the other, are a list.                   *)
(***************************************************************************)
Joins(f, s, n) == f = [i \in 1..n |-> IF i = 1 THEN s[i] ELSE f[i - 1] \o s[i]]

\* The partial joins that FlattenSeq picks do exist: nothing is chosen from nothing.
LEMMA JoinExists ==
  ASSUME NEW s, NEW n \in Nat
  PROVE  \E f: Joins(f, s, n)
<1> DEFINE Bad == {m \in Nat: ~\E f: Joins(f, s, m)}
<1>1. SUFFICES ASSUME Bad # {} PROVE FALSE
  OBVIOUS
<1>2. PICK m \in Bad: \A k \in Bad: m <= k
  <2>1. Bad \in SUBSET Nat
    OBVIOUS
  <2> QED
    BY <1>1, <2>1, Least
<1>3. CASE m = 0
  <2> DEFINE f == [i \in 1..0 |-> s[i]]
  <2>1. Joins(f, s, 0)
    BY DEF Joins
  <2> QED
    BY <1>2, <1>3, <2>1
<1>4. CASE m # 0
  <2>1. m \in Nat /\ m - 1 \in Nat /\ m - 1 \notin Bad
    BY <1>2, <1>4
  <2>2. PICK f: Joins(f, s, m - 1)
    BY <2>1
  <2> DEFINE g == [i \in 1..m |-> IF i < m THEN f[i]
                                  ELSE IF m = 1 THEN s[1] ELSE f[m - 1] \o s[m]]
  <2>3. \A i \in 1..m: g[i] = IF i = 1 THEN s[i] ELSE g[i - 1] \o s[i]
    <3>1. TAKE i \in 1..m
    <3>2. CASE i < m
      <4>1. i \in 1..(m - 1) /\ g[i] = f[i]
        BY <2>1, <3>1, <3>2
      <4>2. f[i] = IF i = 1 THEN s[i] ELSE f[i - 1] \o s[i]
        BY <2>2, <4>1 DEF Joins
      <4>3. i # 1 => g[i - 1] = f[i - 1]
        BY <2>1, <3>1, <3>2
      <4> QED
        BY <4>1, <4>2, <4>3
    <3>3. CASE i = m
      <4>1. m # 1 => g[m - 1] = f[m - 1]
        BY <2>1
      <4> QED
        BY <2>1, <3>3, <4>1
    <3> QED
      BY <2>1, <3>1, <3>2, <3>3
  <2>4. g = [i \in 1..m |-> IF i = 1 THEN s[i] ELSE g[i - 1] \o s[i]]
    BY <2>3
  <2>5. Joins(g, s, m)
    BY <2>4 DEF Joins
  <2> QED
    BY <1>2, <2>5
<1> QED
  BY <1>3, <1>4

IsJoin(w, a, b) == w = a \o b

\* Two lists put together: where the values of each stand in the whole.
LEMMA JoinedIs ==
  ASSUME NEW w, NEW a, NEW b, IsJoin(w, a, b), IsList(a), IsList(b)
  PROVE  /\ IsList(w) /\ Len(a) \in Nat /\ Len(b) \in Nat
         /\ Len(w) = Len(a) + Len(b) /\ DOMAIN w = 1..(Len(a) + Len(b))
         /\ \A i \in DOMAIN a: i \in DOMAIN w /\ w[i] = a[i]
         /\ \A i \in DOMAIN b: Len(a) + i \in DOMAIN w /\ w[Len(a) + i] = b[i]
         /\ \A i \in DOMAIN w: i \in DOMAIN a \/ (i - Len(a) \in DOMAIN b /\ w[i] = b[i - Len(a)])
<1> DEFINE S == Range(a) \cup Range(b)
<1>1. a \in Seq(S) /\ b \in Seq(S)
  BY DEF IsList
<1> HIDE DEF S
<1>2. w \in Seq(S) /\ Len(w) = Len(a) + Len(b)
      /\ Len(a) \in Nat /\ Len(b) \in Nat /\ DOMAIN a = 1..Len(a) /\ DOMAIN b = 1..Len(b)
  BY <1>1 DEF IsJoin
<1>3. IsList(w) /\ DOMAIN w = 1..(Len(a) + Len(b))
  BY <1>2, ListOf
<1>4. \A i \in DOMAIN a: i \in DOMAIN w /\ w[i] = a[i]
  BY <1>1, <1>2, <1>3 DEF IsJoin
<1>5. \A i \in DOMAIN b: Len(a) + i \in DOMAIN w /\ w[Len(a) + i] = b[i]
  BY <1>1, <1>2, <1>3 DEF IsJoin
<1>6. \A i \in DOMAIN w: i \in DOMAIN a \/ (i - Len(a) \in DOMAIN b /\ w[i] = b[i - Len(a)])
  BY <1>1, <1>2, <1>3 DEF IsJoin
<1> QED
  BY <1>2, <1>3, <1>4, <1>5, <1>6

-----------------------------------------------------------------------------
(* The lists of a list, one after the other *)

\* all_role_rows, a loop that extends one list: what it has after each dataset.
LEMMA FlatIs ==
  ASSUME NEW s, IsList(s), Len(s) # 0, \A i \in DOMAIN s: IsList(s[i])
  PROVE  \E f: /\ FlattenSeq(s) = f[Len(s)] /\ f[1] = s[1]
               /\ \A i \in 1..Len(s): IsList(f[i])
               /\ \A i \in 1..Len(s): i # 1 => IsJoin(f[i], f[i - 1], s[i])
<1> DEFINE n == Len(s)
           f == CHOOSE f: Joins(f, s, n)
           Listed == {i \in 1..n: IsList(f[i])}
<1>1. n \in Nat /\ DOMAIN s = 1..n /\ 1 \in 1..n
  BY ListIs
<1>2. FlattenSeq(s) = f[n]
  BY DEF FlattenSeq, Joins
<1>3. Joins(f, s, n)
  BY <1>1, JoinExists
<1> HIDE DEF f
<1>4. f[1] = s[1] /\ \A i \in 1..n: i # 1 => IsJoin(f[i], f[i - 1], s[i])
  BY <1>1, <1>3 DEF Joins, IsJoin
<1>5. ASSUME NEW i \in 1..n, i = 1 \/ i - 1 \in Listed PROVE IsList(f[i])
  <2>1. CASE i = 1
    BY <1>1, <1>4, <2>1
  <2>2. CASE i # 1
    <3>1. IsList(f[i - 1]) /\ IsList(s[i]) /\ IsJoin(f[i], f[i - 1], s[i])
      BY <1>1, <1>4, <1>5, <2>2
    <3> QED
      BY <3>1, JoinedIs
  <2> QED
    BY <2>1, <2>2
<1>6. \A i \in 1..n: IsList(f[i])
  <2>1. \A i \in 1..n: (i = 1 \/ i - 1 \in Listed) => i \in Listed
    BY <1>5
  <2>2. 1..n \subseteq Listed
    BY <1>1, <2>1, Along
  <2> QED
    BY <2>2
<1> QED
  BY <1>2, <1>4, <1>6

\* The rows of all the datasets are a list.
LEMMA FlatIsList ==
  ASSUME NEW s, IsList(s), \A i \in DOMAIN s: IsList(s[i])
  PROVE  IsList(FlattenSeq(s))
<1>1. Len(s) \in Nat
  BY ListIs
<1>2. CASE Len(s) = 0
  BY <1>2 DEF FlattenSeq, IsList, Range
<1>3. CASE Len(s) # 0
  <2>1. PICK f: FlattenSeq(s) = f[Len(s)] /\ \A i \in 1..Len(s): IsList(f[i])
    BY <1>3, FlatIs
  <2> QED
    BY <1>1, <1>3, <2>1
<1> QED
  BY <1>2, <1>3

\* A list stands in another from some place on.
StandsIn(part, whole, n) ==
  \A j \in DOMAIN part: n + j \in DOMAIN whole /\ whole[n + j] = part[j]

(***************************************************************************)
(* Each of the lists stands in the whole, from some place on.              *)
(***************************************************************************)
LEMMA PartsStand ==
  ASSUME NEW s, IsList(s), Len(s) # 0, \A i \in DOMAIN s: IsList(s[i])
  PROVE  \A k \in DOMAIN s: \E n \in Nat: StandsIn(s[k], FlattenSeq(s), n)
<1> DEFINE m == Len(s)
<1>1. m \in Nat /\ DOMAIN s = 1..m
  BY ListIs
<1>2. PICK f: /\ FlattenSeq(s) = f[m] /\ f[1] = s[1]
              /\ \A i \in 1..m: IsList(f[i])
              /\ \A i \in 1..m: i # 1 => IsJoin(f[i], f[i - 1], s[i])
  BY FlatIs
<1> HIDE DEF m
<1> DEFINE Stand(i) == \A k \in 1..i: \E n \in Nat: StandsIn(s[k], f[i], n)
           S == {i \in 1..m: Stand(i)}
<1>3. ASSUME NEW i \in 1..m, i = 1 \/ i - 1 \in S PROVE Stand(i)
  <2>1. CASE i = 1
    <3>1. StandsIn(s[1], f[1], 0)
      <4>1. IsList(s[1]) /\ f[1] = s[1]
        BY <1>1, <1>2, <2>1
      <4>2. Len(s[1]) \in Nat /\ DOMAIN s[1] = 1..Len(s[1])
        BY <4>1, ListIs
      <4> QED
        BY <4>1, <4>2 DEF StandsIn
    <3>2. Stand(1)
      BY <3>1
    <3> QED
      BY <2>1, <3>2
  <2>2. CASE i # 1
    <3>1. i - 1 \in 1..m /\ Stand(i - 1)
      BY <1>3, <2>2
    <3>2. IsList(f[i - 1]) /\ IsList(s[i]) /\ IsJoin(f[i], f[i - 1], s[i]) /\ Stand(i - 1)
      BY <1>1, <1>2, <2>2, <3>1
    <3>3. PICK a, b: a = f[i - 1] /\ b = s[i]
      OBVIOUS
    <3>4. IsList(a) /\ IsList(b) /\ IsJoin(f[i], a, b)
      BY <3>2, <3>3
    <3>5. /\ Len(a) \in Nat
          /\ \A j \in DOMAIN a: j \in DOMAIN f[i] /\ f[i][j] = a[j]
          /\ \A j \in DOMAIN b: Len(a) + j \in DOMAIN f[i] /\ f[i][Len(a) + j] = b[j]
      BY <3>4, JoinedIs
    <3>6. Len(a) \in Nat /\ StandsIn(s[i], f[i], Len(a))
      BY <3>3, <3>5 DEF StandsIn
    <3>7. ASSUME NEW k \in 1..(i - 1) PROVE \E n \in Nat: StandsIn(s[k], f[i], n)
      <4>1. PICK n \in Nat: StandsIn(s[k], f[i - 1], n)
        BY <3>2, <3>7
      <4>2. StandsIn(s[k], f[i], n)
        BY <3>3, <3>5, <4>1 DEF StandsIn
      <4> QED
        BY <4>2
    <3>8. Stand(i)
      <4>1. TAKE k \in 1..i
      <4>2. CASE k = i
        BY <3>6, <4>2
      <4>3. CASE k # i
        BY <3>7, <4>1, <4>3
      <4> QED
        BY <4>2, <4>3
    <3> QED
      BY <3>8
  <2> QED
    BY <2>1, <2>2
<1>4. \A i \in 1..m: Stand(i)
  <2>1. \A i \in 1..m: (i = 1 \/ i - 1 \in S) => i \in S
    BY <1>3
  <2>2. 1..m \subseteq S
    <3> HIDE DEF S
    <3> QED
      BY <1>1, <2>1, Along
  <2> QED
    BY <2>2
<1>5. CASE m \in 1..m
  <2>1. Stand(m)
    BY <1>4, <1>5
  <2> QED
    BY <1>1, <1>2, <2>1
<1> QED
  BY <1>1, <1>5 DEF m

\* Every row of the whole comes from one of the datasets.
LEMMA FlatRows ==
  ASSUME NEW s, IsList(s), Len(s) # 0, \A i \in DOMAIN s: IsList(s[i])
  PROVE  \A x \in DOMAIN FlattenSeq(s):
           \E k \in DOMAIN s: \E j \in DOMAIN s[k]: FlattenSeq(s)[x] = s[k][j]
<1> DEFINE m == Len(s)
<1>1. m \in Nat /\ DOMAIN s = 1..m
  BY ListIs
<1>2. PICK f: /\ FlattenSeq(s) = f[m] /\ f[1] = s[1]
              /\ \A i \in 1..m: IsList(f[i])
              /\ \A i \in 1..m: i # 1 => IsJoin(f[i], f[i - 1], s[i])
  BY FlatIs
<1> DEFINE Made(i) == \A x \in DOMAIN f[i]:
                        \E k \in DOMAIN s: \E j \in DOMAIN s[k]: f[i][x] = s[k][j]
           S == {i \in 1..m: Made(i)}
<1>3. ASSUME NEW i \in 1..m, i = 1 \/ i - 1 \in S PROVE Made(i)
  <2>1. CASE i = 1
    BY <1>1, <1>2, <2>1
  <2>2. CASE i # 1
    <3>1. PICK a, b: a = f[i - 1] /\ b = s[i]
      OBVIOUS
    <3>2. i - 1 \in 1..m /\ IsList(a) /\ IsList(b) /\ IsJoin(f[i], a, b) /\ Made(i - 1)
      BY <1>1, <1>2, <1>3, <2>2, <3>1
    <3>4. \A x \in DOMAIN f[i]: (x \in DOMAIN a /\ f[i][x] = a[x])
            \/ (x - Len(a) \in DOMAIN b /\ f[i][x] = b[x - Len(a)])
      BY <3>2, JoinedIs
    <3>5. TAKE x \in DOMAIN f[i]
    <3>6. CASE x \in DOMAIN a /\ f[i][x] = a[x]
      BY <3>1, <3>2, <3>6
    <3>7. CASE x - Len(a) \in DOMAIN b /\ f[i][x] = b[x - Len(a)]
      BY <1>1, <3>1, <3>7
    <3> QED
      BY <3>4, <3>5, <3>6, <3>7
  <2> QED
    BY <2>1, <2>2
<1> HIDE DEF Made
<1>4. 1..m \subseteq S
  BY <1>1, <1>3, Along
<1>5. Made(m)
  BY <1>1, <1>4
<1> QED
  BY <1>2, <1>5 DEF Made

\* Datasets that give as many rows each: the whole has the product.
LEMMA FlatLength ==
  ASSUME NEW s, IsList(s), Len(s) # 0, NEW c \in Nat,
         \A i \in DOMAIN s: IsList(s[i]) /\ Len(s[i]) = c
  PROVE  Len(FlattenSeq(s)) = c * Len(s)
<1> DEFINE m == Len(s)
<1>1. m \in Nat /\ DOMAIN s = 1..m
  BY ListIs
<1>2. PICK f: /\ FlattenSeq(s) = f[m] /\ f[1] = s[1]
              /\ \A i \in 1..m: IsList(f[i])
              /\ \A i \in 1..m: i # 1 => IsJoin(f[i], f[i - 1], s[i])
  BY FlatIs
<1> DEFINE Fits(i) == Len(f[i]) = c * i
           S == {i \in 1..m: Fits(i)}
<1>3. ASSUME NEW i \in 1..m, i = 1 \/ i - 1 \in S PROVE Fits(i)
  <2>1. CASE i = 1
    BY <1>1, <1>2, <2>1
  <2>2. CASE i # 1
    <3>1. PICK a, b: a = f[i - 1] /\ b = s[i]
      OBVIOUS
    <3>2. i - 1 \in 1..m /\ IsList(a) /\ IsList(b) /\ IsJoin(f[i], a, b)
          /\ Len(a) = c * (i - 1) /\ Len(b) = c
      BY <1>1, <1>2, <1>3, <2>2, <3>1
    <3>3. Len(f[i]) = Len(a) + Len(b)
      <4> DEFINE w == f[i]
      <4>1. IsList(a) /\ IsList(b) /\ IsJoin(w, a, b)
        BY <3>2
      <4> HIDE DEF w
      <4>2. Len(w) = Len(a) + Len(b)
        BY <4>1, JoinedIs
      <4> QED
        BY <4>2 DEF w
    <3>4. Len(f[i]) = c * (i - 1) + c
      BY <3>2, <3>3
    <3>5. c * (i - 1) + c = c * i
      BY <1>1
    <3> QED
      BY <3>4, <3>5
  <2> QED
    BY <2>1, <2>2
<1> HIDE DEF Fits
<1>4. 1..m \subseteq S
  <2>1. \A i \in 1..m: (i = 1 \/ i - 1 \in S) => i \in S
    BY <1>3
  <2> HIDE DEF S, m
  <2> QED
    BY <1>1, <2>1, Along
<1>5. Fits(m)
  BY <1>1, <1>4
<1> QED
  BY <1>2, <1>5 DEF Fits

\* Selecting rows and annotating them keeps their questions in their places.
LEMMA FlatQueries ==
  ASSUME NEW s, IsList(s), Len(s) # 0, NEW t, IsList(t), Len(t) = Len(s),
         \A i \in DOMAIN s:
           /\ IsList(s[i]) /\ IsList(t[i]) /\ Len(s[i]) = Len(t[i])
           /\ \A j \in DOMAIN s[i]: s[i][j].query = t[i][j].query
  PROVE  /\ DOMAIN FlattenSeq(s) = DOMAIN FlattenSeq(t)
         /\ \A x \in DOMAIN FlattenSeq(s): FlattenSeq(s)[x].query = FlattenSeq(t)[x].query
<1> DEFINE m == Len(s)
<1>1. m \in Nat /\ DOMAIN s = 1..m /\ DOMAIN t = 1..m
  BY ListIs
<1>2. PICK f: /\ FlattenSeq(s) = f[m] /\ f[1] = s[1]
              /\ \A i \in 1..m: IsList(f[i])
              /\ \A i \in 1..m: i # 1 => IsJoin(f[i], f[i - 1], s[i])
  BY FlatIs
<1>3. PICK g: /\ FlattenSeq(t) = g[m] /\ g[1] = t[1]
              /\ \A i \in 1..m: IsList(g[i])
              /\ \A i \in 1..m: i # 1 => IsJoin(g[i], g[i - 1], t[i])
  <2>1. m = Len(t) /\ Len(t) # 0 /\ \A i \in DOMAIN t: IsList(t[i])
    BY <1>1
  <2> HIDE DEF m
  <2>2. \E g: /\ FlattenSeq(t) = g[Len(t)] /\ g[1] = t[1]
              /\ \A i \in 1..Len(t): IsList(g[i])
              /\ \A i \in 1..Len(t): i # 1 => IsJoin(g[i], g[i - 1], t[i])
    BY <2>1, FlatIs
  <2> QED
    BY <2>1, <2>2
<1> DEFINE Same(i) == /\ Len(f[i]) = Len(g[i])
                      /\ \A x \in DOMAIN f[i]: f[i][x].query = g[i][x].query
           S == {i \in 1..m: Same(i)}
<1>4. ASSUME NEW i \in 1..m, i = 1 \/ i - 1 \in S PROVE Same(i)
  <2>1. CASE i = 1
    BY <1>1, <1>2, <1>3, <2>1
  <2>2. CASE i # 1
    <3>1. PICK a, b, c, d: a = f[i - 1] /\ b = s[i] /\ c = g[i - 1] /\ d = t[i]
      OBVIOUS
    <3>2. i - 1 \in 1..m /\ IsList(a) /\ IsList(b) /\ IsJoin(f[i], a, b) /\ Same(i - 1)
          /\ IsList(c) /\ IsList(d) /\ IsJoin(g[i], c, d)
      BY <1>1, <1>2, <1>3, <1>4, <2>2, <3>1
    <3>3. /\ Len(a) = Len(c) /\ \A x \in DOMAIN a: a[x].query = c[x].query
          /\ Len(b) = Len(d) /\ \A x \in DOMAIN b: b[x].query = d[x].query
      BY <1>1, <3>1, <3>2
    <3> DEFINE v == f[i]
               w == g[i]
    <3> HIDE DEF v, w
    <3>4. /\ Len(a) \in Nat /\ Len(b) \in Nat /\ Len(v) = Len(a) + Len(b)
          /\ \A x \in DOMAIN a: v[x] = a[x]
          /\ \A x \in DOMAIN v: x \in DOMAIN a
               \/ (x - Len(a) \in DOMAIN b /\ v[x] = b[x - Len(a)])
      <4>1. IsList(a) /\ IsList(b) /\ IsJoin(v, a, b)
        BY <3>2 DEF v
      <4> QED
        BY <4>1, JoinedIs
    <3>5. /\ Len(w) = Len(c) + Len(d)
          /\ DOMAIN a = DOMAIN c /\ DOMAIN v = DOMAIN w
          /\ \A x \in DOMAIN c: w[x] = c[x]
          /\ \A x \in DOMAIN d: w[Len(c) + x] = d[x]
      <4>1. /\ Len(w) = Len(c) + Len(d)
            /\ \A x \in DOMAIN c: w[x] = c[x]
            /\ \A x \in DOMAIN d: w[Len(c) + x] = d[x]
        <5>1. IsList(c) /\ IsList(d) /\ IsJoin(w, c, d)
          BY <3>2 DEF w
        <5> QED
          BY <5>1, JoinedIs
      <4>2. DOMAIN a = 1..Len(a) /\ DOMAIN c = 1..Len(c)
        BY <3>2, ListIs
      <4>3. IsList(v) /\ IsList(w)
        BY <1>2, <1>3 DEF v, w
      <4>4. DOMAIN v = 1..Len(v) /\ DOMAIN w = 1..Len(w)
        BY <4>3, ListIs
      <4> QED
        BY <3>3, <3>4, <4>1, <4>2, <4>4
    <3>6. \A x \in DOMAIN v: v[x].query = w[x].query
      <4>1. TAKE x \in DOMAIN v
      <4>2. CASE x \in DOMAIN a
        BY <3>3, <3>4, <3>5, <4>2
      <4>3. CASE x - Len(a) \in DOMAIN b /\ v[x] = b[x - Len(a)]
        <5>1. PICK y: y = x - Len(a)
          OBVIOUS
        <5>2. DOMAIN b = 1..Len(b) /\ DOMAIN d = 1..Len(d) /\ DOMAIN v = 1..Len(v)
          <6>1. IsList(v)
            BY <1>2 DEF v
          <6> QED
            BY <3>2, <6>1, ListIs
        <5>3. x \in Nat
          BY <3>4, <4>1, <5>2
        <5>4. y \in DOMAIN d /\ x = Len(c) + y
          BY <3>3, <3>4, <4>3, <5>1, <5>2, <5>3
        <5>5. w[x] = d[y]
          BY <3>5, <5>4
        <5> QED
          BY <3>3, <4>3, <5>1, <5>4, <5>5
      <4> QED
        BY <3>4, <4>1, <4>2, <4>3
    <3> QED
      BY <3>3, <3>4, <3>5, <3>6 DEF v, w
  <2> QED
    BY <2>1, <2>2
<1> HIDE DEF Same
<1>5. 1..m \subseteq S
  <2>1. \A i \in 1..m: (i = 1 \/ i - 1 \in S) => i \in S
    BY <1>4
  <2> HIDE DEF S, m
  <2> QED
    BY <1>1, <2>1, Along
<1>6. Same(m) /\ m \in 1..m
  BY <1>1, <1>5
<1>7. /\ Len(FlattenSeq(s)) = Len(FlattenSeq(t))
      /\ IsList(FlattenSeq(s)) /\ IsList(FlattenSeq(t))
      /\ \A x \in DOMAIN FlattenSeq(s): FlattenSeq(s)[x].query = FlattenSeq(t)[x].query
  BY <1>2, <1>3, <1>6 DEF Same
<1>8. DOMAIN FlattenSeq(s) = 1..Len(FlattenSeq(s)) /\ DOMAIN FlattenSeq(t) = 1..Len(FlattenSeq(t))
  BY <1>7, ListIs
<1> QED
  BY <1>7, <1>8

\* As many different values as there are places for them fill the places.
LEMMA InjectiveFills ==
  ASSUME NEW n \in Nat, NEW s, NEW t, DOMAIN s = 1..n, DOMAIN t = 1..n,
         IsInjective(s), Range(s) \subseteq Range(t)
  PROVE  Range(s) = Range(t)
<1>1. IsFiniteSet(1..n) /\ Cardinality(1..n) = n
  BY FS_Interval
<1> DEFINE S == 1..n
           f == [i \in S |-> s[i]]
           g == [i \in S |-> t[i]]
<1>2. f \in Surjection(S, Range(s)) /\ f \in Injection(S, Range(s))
  BY DEF Surjection, Injection, IsInjective, Range
<1>3. g \in Surjection(S, Range(t))
  BY DEF Surjection, Range
<1> HIDE DEF S, f, g
<1>4. IsFiniteSet(Range(t)) /\ Cardinality(Range(t)) <= n
  BY <1>1, <1>3, FS_Surjection DEF S
<1>5. IsFiniteSet(Range(s)) /\ Cardinality(Range(s)) = n
  BY <1>1, <1>2, FS_Surjection DEF S
<1>6. IsFiniteSet(Range(s)) /\ Cardinality(Range(s)) <= Cardinality(Range(t))
      /\ (Cardinality(Range(t)) = Cardinality(Range(s)) => Range(s) = Range(t))
  BY <1>4, FS_Subset
<1>7. Cardinality(Range(t)) \in Nat
  BY <1>4, FS_CardinalityType
<1> QED
  BY <1>4, <1>5, <1>6, <1>7

\* Two lists that share nothing, and repeat nothing, repeat nothing together.
LEMMA JoinIsInjective ==
  ASSUME NEW a, NEW b, IsList(a), IsList(b), IsInjective(a), IsInjective(b),
         Range(a) \cap Range(b) = {}, NEW w, IsJoin(w, a, b)
  PROVE  /\ IsList(w) /\ IsInjective(w) /\ Len(w) = Len(a) + Len(b)
         /\ Range(w) = Range(a) \cup Range(b)
<1>1. /\ IsList(w) /\ Len(a) \in Nat /\ Len(b) \in Nat
      /\ Len(w) = Len(a) + Len(b) /\ DOMAIN w = 1..(Len(a) + Len(b))
      /\ \A i \in DOMAIN a: i \in DOMAIN w /\ w[i] = a[i]
      /\ \A i \in DOMAIN b: Len(a) + i \in DOMAIN w /\ w[Len(a) + i] = b[i]
      /\ \A i \in DOMAIN w: i \in DOMAIN a \/ (i - Len(a) \in DOMAIN b /\ w[i] = b[i - Len(a)])
  BY JoinedIs
<1>2. \A i \in DOMAIN a, j \in DOMAIN b: a[i] # b[j]
  BY DEF Range
<1>3. ASSUME NEW i \in DOMAIN w, NEW j \in DOMAIN w, w[i] = w[j]
      PROVE  i = j
  <2>1. CASE i \in DOMAIN a /\ j \in DOMAIN a
    BY <1>1, <1>3, <2>1 DEF IsInjective
  <2>2. CASE i \in DOMAIN a /\ j \notin DOMAIN a
    <3>1. w[i] = a[i] /\ j - Len(a) \in DOMAIN b /\ w[j] = b[j - Len(a)]
      BY <1>1, <2>2
    <3> QED
      BY <1>2, <1>3, <2>2, <3>1
  <2>3. CASE i \notin DOMAIN a /\ j \in DOMAIN a
    <3>1. w[j] = a[j] /\ i - Len(a) \in DOMAIN b /\ w[i] = b[i - Len(a)]
      BY <1>1, <2>3
    <3> QED
      BY <1>2, <1>3, <2>3, <3>1
  <2>4. CASE i \notin DOMAIN a /\ j \notin DOMAIN a
    <3>1. /\ j - Len(a) \in DOMAIN b /\ w[j] = b[j - Len(a)]
          /\ i - Len(a) \in DOMAIN b /\ w[i] = b[i - Len(a)]
      BY <1>1, <2>4
    <3>2. i - Len(a) = j - Len(a)
      BY <1>3, <3>1 DEF IsInjective
    <3>3. i \in Nat /\ j \in Nat
      BY <1>1
    <3> QED
      BY <1>1, <3>2, <3>3
  <2> QED
    BY <2>1, <2>2, <2>3, <2>4
<1>4. IsInjective(w)
  BY <1>3 DEF IsInjective
<1>5. Range(w) \subseteq Range(a) \cup Range(b)
  <2>1. SUFFICES ASSUME NEW i \in DOMAIN w PROVE w[i] \in Range(a) \cup Range(b)
    BY DEF Range
  <2> QED
    BY <1>1 DEF Range
<1>6. Range(a) \cup Range(b) \subseteq Range(w)
  BY <1>1 DEF Range
<1> QED
  BY <1>1, <1>4, <1>5, <1>6

-----------------------------------------------------------------------------
(* Sums *)

\* The greatest element of a set of numbers that are not above one of them.
LEMMA MaxIs ==
  ASSUME NEW m \in Nat, NEW S \in SUBSET (1..m), m \in S
  PROVE  Max(S) = m
<1>1. \A y \in S: m >= y
  OBVIOUS
<1>2. Max(S) \in S /\ \A y \in S: Max(S) >= y
  <2>1. \E x \in S: \A y \in S: x >= y
    BY <1>1
  <2> QED
    BY <2>1 DEF Max
<1>3. PICK x: x = Max(S)
  OBVIOUS
<1>4. x \in 1..m /\ x >= m
  BY <1>2, <1>3
<1> QED
  BY <1>3, <1>4

\* The same, from nothing looked at to all of it.
LEMMA Upward ==
  ASSUME NEW m \in Nat, NEW S, 0 \in S, \A i \in 1..m: i - 1 \in S => i \in S
  PROVE  0..m \subseteq S
<1>1. \A i \in 1..m: (i = 1 \/ i - 1 \in S) => i \in S
  OBVIOUS
<1>2. 1..m \subseteq S
  BY <1>1, Along
<1>3. ASSUME NEW i \in 0..m PROVE i \in S
  <2>1. i = 0 \/ i \in 1..m
    OBVIOUS
  <2> QED
    BY <1>2, <2>1
<1> QED
  BY <1>3

Sums(g, s, All) ==
  g = [S \in SUBSET All |-> IF S = {} THEN 0 ELSE g[S \ {Max(S)}] + s[Max(S)]]

\* The partial sums that SumOf picks do exist.
LEMMA SumExists ==
  ASSUME NEW s, NEW n \in Nat
  PROVE  \E g: Sums(g, s, 1..n)
<1> DEFINE E(m) == \E g: Sums(g, s, 1..m)
           Made == {m \in Nat: E(m)}
<1>1. E(0)
  <2> DEFINE g == [S \in SUBSET (1..0) |-> 0]
  <2>1. \A S \in SUBSET (1..0): S = {}
    OBVIOUS
  <2>2. Sums(g, s, 1..0)
    BY <2>1 DEF Sums
  <2> QED
    BY <2>2
<1>2. ASSUME NEW m \in 1..n, m - 1 \in Made PROVE E(m)
  <2>1. PICK f: Sums(f, s, 1..(m - 1))
    BY <1>2
  <2> DEFINE g == [S \in SUBSET (1..m) |-> IF m \in S THEN f[S \ {m}] + s[m] ELSE f[S]]
  <2>2. \A S \in SUBSET (1..m): g[S] = IF S = {} THEN 0 ELSE g[S \ {Max(S)}] + s[Max(S)]
    <3>1. TAKE S \in SUBSET (1..m)
    <3>2. CASE m \in S
      <4>1. Max(S) = m
        BY <3>2, MaxIs
      <4>2. S \ {m} \in SUBSET (1..m) /\ m \notin S \ {m}
        OBVIOUS
      <4>3. g[S \ {m}] = f[S \ {m}] /\ g[S] = f[S \ {m}] + s[m]
        BY <3>2, <4>2
      <4> QED
        BY <3>2, <4>1, <4>3
    <3>3. CASE m \notin S
      <4>1. S \in SUBSET (1..(m - 1)) /\ S \ {Max(S)} \in SUBSET (1..m) /\ m \notin S \ {Max(S)}
        <5>1. \A i \in S: i \in 1..(m - 1)
          <6>1. \A i \in S: i \in 1..m /\ i # m
            BY <3>3
          <6> QED
            BY <6>1
        <5>2. S \ {Max(S)} \subseteq S
          OBVIOUS
        <5> QED
          BY <3>3, <5>1, <5>2
      <4>2. f[S] = IF S = {} THEN 0 ELSE f[S \ {Max(S)}] + s[Max(S)]
        BY <2>1, <4>1 DEF Sums
      <4>3. g[S] = f[S] /\ g[S \ {Max(S)}] = f[S \ {Max(S)}]
        BY <3>3, <4>1
      <4> QED
        BY <4>2, <4>3
    <3> QED
      BY <3>2, <3>3
  <2>3. Sums(g, s, 1..m)
    BY <2>2 DEF Sums
  <2> QED
    BY <2>3
<1> HIDE DEF E
<1>3. 0 \in Made /\ \A i \in 1..n: i - 1 \in Made => i \in Made
  BY <1>1, <1>2
<1>4. 0..n \subseteq Made
  BY <1>3, Upward
<1> QED
  BY <1>4 DEF E

(***************************************************************************)
(* A sum is the last of its partial sums.                                  *)
(***************************************************************************)
LEMMA SumIs ==
  ASSUME NEW s, NEW n \in Nat, DOMAIN s = 1..n
  PROVE  \E h: /\ SumOf(s) = h[n] /\ h[0] = 0
               /\ \A i \in 1..n: h[i] = h[i - 1] + s[i]
<1> DEFINE g == CHOOSE g: Sums(g, s, 1..n)
           h == [i \in 0..n |-> g[1..i]]
<1>1. SumOf(s) = g[1..n]
  BY DEF SumOf, FoldLeft, MapThenFoldSet, Sums
<1>2. Sums(g, s, 1..n)
  BY SumExists
<1> HIDE DEF g
<1>3. h[n] = g[1..n] /\ h[0] = 0
  <2>1. 1..0 = {} /\ {} \in SUBSET (1..n)
    OBVIOUS
  <2>2. g[{}] = 0
    BY <1>2, <2>1 DEF Sums
  <2> QED
    BY <2>1, <2>2
<1>4. ASSUME NEW i \in 1..n PROVE h[i] = h[i - 1] + s[i]
  <2>1. 1..i \in SUBSET (1..n) /\ i \in 1..i /\ 1..i # {} /\ (1..i) \ {i} = 1..(i - 1)
    <3>1. i \in Nat /\ i >= 1 /\ i <= n
      OBVIOUS
    <3>2. \A x: x \in 1..i => x \in 1..n
      BY <3>1
    <3>3. \A x: (x \in 1..i /\ x # i) <=> x \in 1..(i - 1)
      BY <3>1
    <3> QED
      BY <3>1, <3>2, <3>3
  <2>2. Max(1..i) = i
    BY <2>1, MaxIs
  <2>3. g[1..i] = g[(1..i) \ {Max(1..i)}] + s[Max(1..i)]
    BY <1>2, <2>1 DEF Sums
  <2>4. g[1..i] = g[1..(i - 1)] + s[i]
    BY <2>1, <2>2, <2>3
  <2> QED
    BY <2>4
<1> HIDE DEF h
<1> QED
  BY <1>1, <1>3, <1>4

\* Sums keep the order of their terms: no more titles are found than there are.
LEMMA SumsCompare ==
  ASSUME NEW n \in Nat, NEW s, NEW t, DOMAIN s = 1..n, DOMAIN t = 1..n,
         \A i \in 1..n: s[i] \in Nat /\ t[i] \in Nat /\ s[i] <= t[i]
  PROVE  SumOf(s) <= SumOf(t)
<1>1. PICK f: SumOf(s) = f[n] /\ f[0] = 0 /\ \A i \in 1..n: f[i] = f[i - 1] + s[i]
  BY SumIs
<1>2. PICK g: SumOf(t) = g[n] /\ g[0] = 0 /\ \A i \in 1..n: g[i] = g[i - 1] + t[i]
  BY SumIs
<1> DEFINE Below(i) == f[i] \in Nat /\ g[i] \in Nat /\ f[i] <= g[i]
           S == {i \in 0..n: Below(i)}
<1>3. Below(0)
  BY <1>1, <1>2
<1>4. ASSUME NEW i \in 1..n, i - 1 \in S PROVE Below(i)
  BY <1>1, <1>2, <1>4
<1> HIDE DEF Below
<1>5. 0 \in S /\ \A i \in 1..n: i - 1 \in S => i \in S
  BY <1>3, <1>4
<1>6. 0..n \subseteq S
  <2> HIDE DEF S
  <2> QED
    BY <1>5, Upward
<1>7. Below(n)
  BY <1>6
<1> QED
  BY <1>1, <1>2, <1>7 DEF Below

-----------------------------------------------------------------------------
(* One spelling of each title *)

\* The spellings that are kept once another title was looked at.
Kept(kept, t) ==
  IF \E u \in Range(kept): Normal(u) = Normal(t) THEN kept ELSE Append(kept, t)

Pairs(g, s, All) ==
  g = [S \in SUBSET All |->
         IF S = {} THEN <<>> ELSE Kept(g[S \ {Max(S)}], s[Max(S)])]

\* The partial results that NormalPairs picks do exist.
LEMMA PairsExist ==
  ASSUME NEW s, NEW n \in Nat
  PROVE  \E g: Pairs(g, s, 1..n)
<1> DEFINE E(m) == \E g: Pairs(g, s, 1..m)
           Made == {m \in Nat: E(m)}
<1>1. E(0)
  <2> DEFINE g == [S \in SUBSET (1..0) |-> <<>>]
  <2>1. \A S \in SUBSET (1..0): S = {}
    OBVIOUS
  <2>2. Pairs(g, s, 1..0)
    BY <2>1 DEF Pairs
  <2> QED
    BY <2>2
<1>2. ASSUME NEW m \in 1..n, m - 1 \in Made PROVE E(m)
  <2>1. PICK f: Pairs(f, s, 1..(m - 1))
    BY <1>2
  <2> DEFINE g == [S \in SUBSET (1..m) |-> IF m \in S THEN Kept(f[S \ {m}], s[m]) ELSE f[S]]
  <2>2. \A S \in SUBSET (1..m): g[S] = IF S = {} THEN <<>> ELSE Kept(g[S \ {Max(S)}], s[Max(S)])
    <3>1. TAKE S \in SUBSET (1..m)
    <3>2. CASE m \in S
      <4>1. Max(S) = m
        BY <3>2, MaxIs
      <4>2. S \ {m} \in SUBSET (1..m) /\ m \notin S \ {m}
        OBVIOUS
      <4>3. g[S \ {m}] = f[S \ {m}] /\ g[S] = Kept(f[S \ {m}], s[m])
        BY <3>2, <4>2
      <4> QED
        BY <3>2, <4>1, <4>3
    <3>3. CASE m \notin S
      <4>1. S \in SUBSET (1..(m - 1)) /\ S \ {Max(S)} \in SUBSET (1..m) /\ m \notin S \ {Max(S)}
        <5>1. \A i \in S: i \in 1..(m - 1)
          <6>1. \A i \in S: i \in 1..m /\ i # m
            BY <3>3
          <6> QED
            BY <6>1
        <5>2. S \ {Max(S)} \subseteq S
          OBVIOUS
        <5> QED
          BY <3>3, <5>1, <5>2
      <4>2. f[S] = IF S = {} THEN <<>> ELSE Kept(f[S \ {Max(S)}], s[Max(S)])
        BY <2>1, <4>1 DEF Pairs
      <4>3. g[S] = f[S] /\ g[S \ {Max(S)}] = f[S \ {Max(S)}]
        BY <3>3, <4>1
      <4> QED
        BY <4>2, <4>3
    <3> QED
      BY <3>2, <3>3
  <2>3. Pairs(g, s, 1..m)
    BY <2>2 DEF Pairs
  <2> QED
    BY <2>3
<1> HIDE DEF E
<1>3. 0 \in Made /\ \A i \in 1..n: i - 1 \in Made => i \in Made
  BY <1>1, <1>2
<1>4. 0..n \subseteq Made
  BY <1>3, Upward
<1> QED
  BY <1>4 DEF E

\* _title_pairs, a loop: what it has kept after each title.
LEMMA PairsAre ==
  ASSUME NEW s, NEW n \in Nat, DOMAIN s = 1..n
  PROVE  \E h: /\ NormalPairs(s) = h[n] /\ h[0] = <<>>
               /\ \A i \in 1..n: h[i] = Kept(h[i - 1], s[i])
<1> DEFINE g == CHOOSE g: Pairs(g, s, 1..n)
           h == [i \in 0..n |-> g[1..i]]
<1>1. NormalPairs(s) = g[1..n]
  BY DEF NormalPairs, FoldLeft, MapThenFoldSet, Pairs, Kept
<1>2. Pairs(g, s, 1..n)
  BY PairsExist
<1> HIDE DEF g
<1>3. h[n] = g[1..n] /\ h[0] = <<>>
  <2>1. 1..0 = {} /\ {} \in SUBSET (1..n)
    OBVIOUS
  <2>2. g[{}] = <<>>
    BY <1>2, <2>1 DEF Pairs
  <2> QED
    BY <2>1, <2>2
<1>4. ASSUME NEW i \in 1..n PROVE h[i] = Kept(h[i - 1], s[i])
  <2>1. 1..i \in SUBSET (1..n) /\ i \in 1..i /\ 1..i # {} /\ (1..i) \ {i} = 1..(i - 1)
    <3>1. i \in Nat /\ i >= 1 /\ i <= n
      OBVIOUS
    <3>2. \A x: x \in 1..i => x \in 1..n
      BY <3>1
    <3>3. \A x: (x \in 1..i /\ x # i) <=> x \in 1..(i - 1)
      BY <3>1
    <3> QED
      BY <3>1, <3>2, <3>3
  <2>2. Max(1..i) = i
    BY <2>1, MaxIs
  <2>3. g[1..i] = Kept(g[(1..i) \ {Max(1..i)}], s[Max(1..i)])
    BY <1>2, <2>1 DEF Pairs
  <2>4. g[1..i] = Kept(g[1..(i - 1)], s[i])
    BY <2>1, <2>2, <2>3
  <2> QED
    BY <2>4
<1> HIDE DEF h
<1> QED
  BY <1>1, <1>3, <1>4

\* The titles without their spellings.
Names(titles) == {Normal(t) : t \in Range(titles)}

IsNormal(pairs) ==
  \A i, j \in DOMAIN pairs: Normal(pairs[i]) = Normal(pairs[j]) => i = j

(***************************************************************************)
(* Every title is counted once, whatever its spelling.                     *)
(***************************************************************************)
LEMMA EveryTitleOnce ==
  ASSUME NEW s, IsList(s)
  PROVE  /\ IsList(NormalPairs(s)) /\ IsNormal(NormalPairs(s))
         /\ Names(NormalPairs(s)) = Names(s)
<1> DEFINE n == Len(s)
           T == Range(s)
<1>1. n \in Nat /\ DOMAIN s = 1..n /\ \A i \in 1..n: s[i] \in T
  BY ListIs DEF Range
<1>2. PICK h: NormalPairs(s) = h[n] /\ h[0] = <<>> /\ \A i \in 1..n: h[i] = Kept(h[i - 1], s[i])
  BY <1>1, PairsAre
<1> HIDE DEF n, T
<1> DEFINE Good(i) == /\ h[i] \in Seq(T) /\ IsNormal(h[i])
                      /\ \A j \in 1..i: \E u \in Range(h[i]): Normal(u) = Normal(s[j])
           S == {i \in 0..n: Good(i)}
<1>3. Good(0)
  BY <1>2 DEF IsNormal
<1>4. ASSUME NEW i \in 1..n, i - 1 \in S PROVE Good(i)
  <2> DEFINE k == h[i - 1]
             t == s[i]
  <2>1. k \in Seq(T) /\ t \in T /\ IsNormal(k)
        /\ \A j \in 1..(i - 1): \E u \in Range(k): Normal(u) = Normal(s[j])
    BY <1>1, <1>4
  <2>2. h[i] = Kept(k, t)
    BY <1>2
  <2> HIDE DEF k
  <2>3. \A j \in 1..i: j = i \/ j \in 1..(i - 1)
    BY <1>1
  <2>4. CASE \E u \in Range(k): Normal(u) = Normal(t)
    <3>1. h[i] = k
      BY <2>2, <2>4 DEF Kept
    <3> QED
      BY <2>1, <2>3, <2>4, <3>1
  <2>5. CASE ~\E u \in Range(k): Normal(u) = Normal(t)
    <3>1. h[i] = Append(k, t)
      BY <2>2, <2>5 DEF Kept
    <3>2. Len(k) \in Nat /\ DOMAIN k = 1..Len(k)
      BY <2>1, ListOf
    <3>3. h[i] \in Seq(T) /\ DOMAIN h[i] = 1..(Len(k) + 1) /\ h[i][Len(k) + 1] = t
          /\ \A j \in 1..Len(k): h[i][j] = k[j]
      BY <2>1, <3>1, <3>2
    <3>4. \A j \in 1..(Len(k) + 1): j = Len(k) + 1 \/ j \in 1..Len(k)
      BY <3>2
    <3>5. \A j \in 1..Len(k): Normal(k[j]) # Normal(t)
      BY <2>5, <3>2 DEF Range
    <3>6. IsNormal(h[i])
      BY <2>1, <3>2, <3>3, <3>4, <3>5 DEF IsNormal
    <3>7. Range(k) \subseteq Range(h[i]) /\ t \in Range(h[i])
      BY <3>2, <3>3 DEF Range
    <3> QED
      BY <2>1, <2>3, <3>3, <3>6, <3>7
  <2> QED
    BY <2>4, <2>5
<1> HIDE DEF Good
<1>5. 0 \in S /\ \A i \in 1..n: i - 1 \in S => i \in S
  BY <1>1, <1>3, <1>4
<1>6. 0..n \subseteq S
  <2> HIDE DEF S
  <2> QED
    BY <1>1, <1>5, Upward
<1>7. Good(n)
  BY <1>1, <1>6
<1>8. NormalPairs(s) \in Seq(T) /\ IsNormal(NormalPairs(s))
      /\ \A j \in 1..n: \E u \in Range(NormalPairs(s)): Normal(u) = Normal(s[j])
  BY <1>2, <1>7 DEF Good
<1>9. IsList(NormalPairs(s)) /\ Range(NormalPairs(s)) \subseteq T
  BY <1>8, ListOf DEF Range
<1>10. Names(NormalPairs(s)) \subseteq Names(s)
  BY <1>9 DEF Names, T
<1>11. Names(s) \subseteq Names(NormalPairs(s))
  <2>1. \A t \in Range(s): \E j \in 1..n: t = s[j]
    BY <1>1 DEF Range
  <2> QED
    BY <1>8, <2>1 DEF Names
<1> QED
  BY <1>8, <1>9, <1>10, <1>11

(***************************************************************************)
(* The titles found are counted by their names.                            *)
(***************************************************************************)
LEMMA CoveredCount ==
  ASSUME NEW p, IsList(p), IsNormal(p), NEW F
  PROVE  LET covered == {t \in Range(p): Normal(t) \in F}
         IN /\ Len(p) = Cardinality(Names(p)) /\ IsFiniteSet(Names(p))
            /\ Cardinality(covered) = Cardinality(Names(p) \cap F)
            /\ Cardinality(covered) \in Nat /\ Len(p) \in Nat /\ Cardinality(covered) <= Len(p)
            /\ Cardinality(covered) = Len(p) <=> Names(p) \subseteq F
<1> DEFINE n == Len(p)
           I == 1..n
           C == {t \in Range(p): Normal(t) \in F}
           N == Names(p) \cap F
           f == [i \in I |-> Normal(p[i])]
           g == [t \in C |-> Normal(t)]
<1>1. n \in Nat /\ DOMAIN p = I
  BY ListIs
<1>2. IsFiniteSet(I) /\ Cardinality(I) = n
  <2> HIDE DEF n
  <2> QED
    BY <1>1, FS_Interval
<1>3. f \in [I -> Names(p)] /\ IsInjective(f) /\ \A m \in Names(p): \E i \in I: f[i] = m
  <2>1. \A i \in I: p[i] \in Range(p)
    BY <1>1 DEF Range
  <2>2. f \in [I -> Names(p)]
    BY <2>1 DEF Names
  <2>3. IsInjective(f)
    BY <1>1 DEF IsInjective, IsNormal
  <2>4. \A m \in Names(p): \E i \in I: f[i] = m
    BY <1>1 DEF Names, Range
  <2> QED
    BY <2>2, <2>3, <2>4
<1>4. g \in [C -> N] /\ IsInjective(g) /\ \A m \in N: \E t \in C: g[t] = m
  <2>1. g \in [C -> N]
    BY DEF Names
  <2>2. IsInjective(g)
    <3>1. \A t, u \in Range(p): Normal(t) = Normal(u) => t = u
      BY DEF IsNormal, Range
    <3> QED
      BY <3>1 DEF IsInjective
  <2>3. \A m \in N: \E t \in C: g[t] = m
    BY DEF Names
  <2> QED
    BY <2>1, <2>2, <2>3
<1> HIDE DEF n, I, C, N, f, g
<1>5. f \in Injection(I, Names(p)) /\ f \in Surjection(I, Names(p))
  BY <1>3 DEF Injection, Surjection
<1>6. g \in Injection(C, N) /\ g \in Surjection(C, N)
  BY <1>4 DEF Injection, Surjection
<1>7. IsFiniteSet(Names(p)) /\ Cardinality(Names(p)) = n
  BY <1>2, <1>5, FS_Surjection
<1>8. N \in SUBSET Names(p)
  BY DEF N
<1>9. /\ IsFiniteSet(N) /\ Cardinality(N) <= Cardinality(Names(p))
      /\ Cardinality(Names(p)) = Cardinality(N) => Names(p) = N
  BY <1>7, <1>8, FS_Subset
<1>10. Cardinality(C) = Cardinality(N) /\ Cardinality(N) \in Nat
  BY <1>6, <1>9, FS_Injection, FS_CardinalityType
<1>11. Names(p) = N <=> Names(p) \subseteq F
  BY DEF N
<1>12. Cardinality(C) = n <=> Names(p) \subseteq F
  BY <1>7, <1>9, <1>10, <1>11
<1> QED
  BY <1>1, <1>7, <1>9, <1>10, <1>12 DEF n, C, N

-----------------------------------------------------------------------------
(* The scan of the corpus *)

\* The scan of the corpus stops once nothing is missing, yet it finds what the whole
\* corpus has of the titles it looks for, and looks at a row at least.
LEMMA ScanIs ==
  ASSUME NEW required
  PROVE  /\ FoundTitles(required) = required \cap Names(Corpus)
         /\ RowsScanned(required) \in Nat
         /\ required # {} => RowsScanned(required) >= 1
<1> DEFINE n == Len(Corpus)
           seen(m) == {Normal(Corpus[i]) : i \in 1..m}
           enough == {m \in 0..n: required \subseteq seen(m)}
           scanned == IF enough = {} THEN n ELSE Min(enough)
<1>1. n \in Nat /\ DOMAIN Corpus = 1..n /\ n >= 1
  BY CorpusAssumption
<1>2. RowsScanned(required) = scanned
  BY DEF RowsScanned
<1>3. Names(Corpus) = seen(n)
  BY <1>1 DEF Names, Range
<1>4. \A m \in 0..n: seen(m) \subseteq seen(n)
  <2>1. TAKE m \in 0..n
  <2>2. 1..m \subseteq 1..n
    BY <1>1, <2>1
  <2> QED
    BY <2>2
<1>5. FoundTitles(required) = required \cap seen(scanned)
  BY <1>2 DEF FoundTitles
<1>6. seen(0) = {}
  OBVIOUS
<1> HIDE DEF n, seen
<1>7. CASE enough = {}
  BY <1>1, <1>2, <1>3, <1>5, <1>7
<1>8. CASE enough # {}
  <2>1. Min(enough) \in enough
    <3>1. \E m \in enough: \A k \in enough: m <= k
      <4>1. enough \in SUBSET Nat
        BY <1>1
      <4> HIDE DEF enough
      <4> QED
        BY <1>8, <4>1, Least
    <3> HIDE DEF enough
    <3> QED
      BY <3>1 DEF Min
  <2>2. PICK m: m = Min(enough)
    OBVIOUS
  <2>3. m \in 0..n /\ required \subseteq seen(m) /\ scanned = m
    BY <1>8, <2>1, <2>2
  <2>4. required \cap seen(m) = required \cap seen(n)
    BY <1>4, <2>3
  <2>5. required # {} => m # 0
    BY <1>6, <2>3
  <2> HIDE DEF scanned
  <2> QED
    BY <1>1, <1>2, <1>3, <1>5, <2>3, <2>4, <2>5
<1> QED
  BY <1>7, <1>8

-----------------------------------------------------------------------------
(* The summaries of rows *)

\* What the validator needs of a row: a gold title, and no more found than that.
Counted(row) ==
  /\ row.gold \in Nat \ {0} /\ Cardinality(row.covered) \in Nat
  /\ Cardinality(row.covered) <= row.gold

\* _summary_counts accepts the summary of any list of rows that are counted right.
LEMMA SummaryPasses ==
  ASSUME NEW rows, IsList(rows), \A i \in DOMAIN rows: Counted(rows[i])
  PROVE  SummaryIsValid(Summary(rows), Len(rows))
<1> DEFINE n == Len(rows)
           I == 1..n
           matched == [i \in DOMAIN rows |-> Cardinality(rows[i].covered)]
           gold == [i \in DOMAIN rows |-> rows[i].gold]
           Z == {i \in DOMAIN rows: matched[i] = 0}
           P == {i \in DOMAIN rows: 0 < matched[i] /\ matched[i] < rows[i].gold}
           U == {i \in DOMAIN rows: matched[i] = rows[i].gold}
<1>1. n \in Nat /\ DOMAIN rows = I
  BY ListIs
<1>2. IsFiniteSet(I) /\ Cardinality(I) = n
  <2> HIDE DEF n
  <2> QED
    BY <1>1, FS_Interval
<1>3. \A i \in I: matched[i] \in Nat /\ gold[i] \in Nat \ {0} /\ matched[i] <= gold[i]
                  /\ gold[i] = rows[i].gold
  BY <1>1 DEF Counted
<1>4. DOMAIN matched = I /\ DOMAIN gold = I
  BY <1>1
<1>5. Summary(rows) = [rows |-> n, zero |-> Cardinality(Z), partial |-> Cardinality(P),
                       full |-> Cardinality(U), gold |-> SumOf(gold), matched |-> SumOf(matched)]
  BY DEF Summary
<1> HIDE DEF matched, gold
<1>6. SumOf(matched) <= SumOf(gold)
  <2> HIDE DEF n
  <2>1. \A i \in 1..n: matched[i] \in Nat /\ gold[i] \in Nat /\ matched[i] <= gold[i]
    BY <1>3
  <2> QED
    BY <1>1, <1>4, <2>1, SumsCompare
<1>7. Z \cup P \cup U = I /\ Z \cap P = {} /\ (Z \cup P) \cap U = {}
  <2>1. Z \cup P \cup U \subseteq I /\ Z \cap P = {}
    BY <1>1
  <2>2. \A i \in I: i \in Z \/ i \in P \/ i \in U
    BY <1>1, <1>3
  <2>3. (Z \cup P) \cap U = {}
    BY <1>1, <1>3
  <2> QED
    BY <2>1, <2>2, <2>3
<1> HIDE DEF Z, P, U, I
<1>8. IsFiniteSet(Z) /\ IsFiniteSet(P) /\ IsFiniteSet(U)
  BY <1>2, <1>7, FS_Subset
<1>9. /\ IsFiniteSet(Z \cup P) /\ Cardinality({}) = 0
      /\ Cardinality(Z \cup P) = Cardinality(Z) + Cardinality(P) - Cardinality(Z \cap P)
      /\ Cardinality(Z \cup P \cup U)
           = Cardinality(Z \cup P) + Cardinality(U) - Cardinality((Z \cup P) \cap U)
  BY <1>8, FS_Union, FS_EmptySet
<1>10. Cardinality(Z) \in Nat /\ Cardinality(P) \in Nat /\ Cardinality(U) \in Nat
       /\ Cardinality(Z \cup P) \in Nat
  BY <1>8, <1>9, FS_CardinalityType
<1>11. Cardinality(Z) + Cardinality(P) + Cardinality(U) = n
  <2>1. Cardinality(Z \cup P) = Cardinality(Z) + Cardinality(P) - Cardinality({})
    BY <1>7, <1>9, Zenon
  <2>2. Cardinality(I) = Cardinality(Z \cup P) + Cardinality(U) - Cardinality({})
    BY <1>7, <1>9, Zenon
  <2> HIDE DEF n
  <2> QED
    BY <1>2, <1>9, <1>10, <2>1, <2>2
<1> QED
  BY <1>5, <1>6, <1>11 DEF SummaryIsValid

-----------------------------------------------------------------------------
(* What a preparation stages, and what its manifest says *)

Chosen(request) == AnnotatedRows(Selection(request))

\* What prepare stages for a request it does not refuse, field by field.
LEMMA OutputIs ==
  ASSUME NEW r \in Feasible
  PROVE  /\ Output[r].manifest.request = r
         /\ Output[r].manifest.contract = SplitContract(r, Chosen(r))
         /\ Output[r].manifest.coverage = Coverage(Chosen(r))
         /\ DOMAIN Output[r].manifest.artifacts = ArtifactPaths
         /\ \A path \in ArtifactPaths:
              /\ Output[r].files[path] = Contents(r, Chosen(r), path)
              /\ Output[r].manifest.artifacts[path] = Artifact(Output[r].files[path], path)
         /\ \A role \in Roles: Output[r].roles[role] = AllRows(Chosen(r), role)
<1> DEFINE staged == Staged(r, Chosen(r))
<1>1. Output[r] = Outcome(r, Chosen(r))
  BY DEF Output, Chosen
<1>2. /\ Output[r].files = staged
      /\ Output[r].manifest = Manifest(r, Chosen(r), staged)
      /\ Output[r].roles = [role \in Roles |-> AllRows(Chosen(r), role)]
  BY <1>1 DEF Outcome
<1>3. DOMAIN staged = ArtifactPaths
      /\ \A path \in ArtifactPaths: staged[path] = Contents(r, Chosen(r), path)
  BY DEF Staged
<1> HIDE DEF staged
<1>4. /\ Output[r].manifest.request = r
      /\ Output[r].manifest.contract = SplitContract(r, Chosen(r))
      /\ Output[r].manifest.coverage = Coverage(Chosen(r))
      /\ Output[r].manifest.artifacts = [path \in DOMAIN staged |-> Artifact(staged[path], path)]
  BY <1>2 DEF Manifest
<1> QED
  BY <1>2, <1>3, <1>4

\* An artifact lies in one of the places prepare writes to.
LEMMA PathsAre ==
  ASSUME NEW path \in ArtifactPaths
  PROVE  \E place \in Places: \E name \in NamesIn(place): path = <<place, name>>
  BY DEF ArtifactPaths

\* Two names of one file have one role and stand in one directory.
LEMMA AliasIs ==
  ASSUME NEW path \in ArtifactPaths
  PROVE  /\ AliasOf(path) \in ArtifactPaths
         /\ RoleOf(AliasOf(path)) = RoleOf(path)
         /\ AliasOf(path)[1] = path[1]
         /\ AliasOf(AliasOf(path)) = AliasOf(path)
<1>1. PICK place \in Places: \E name \in NamesIn(place): path = <<place, name>>
  BY PathsAre
<1>2. PICK name \in NamesIn(place): path = <<place, name>>
  BY <1>1
<1>3. path[1] = place /\ path[2] = name
  BY <1>2
<1>4. CASE place = "data"
  BY <1>2, <1>3, <1>4 DEF NamesIn, AliasOf, RoleOf, ArtifactPaths, Places
<1>5. CASE place = "searchr1"
  BY <1>2, <1>3, <1>5 DEF NamesIn, AliasOf, RoleOf, ArtifactPaths, Places
<1>6. CASE place \notin {"data", "searchr1"}
  BY <1>2, <1>3, <1>6 DEF NamesIn, AliasOf, RoleOf, ArtifactPaths, Places
<1> QED
  BY <1>4, <1>5, <1>6

\* A file of rows belongs to one of the three roles.
LEMMA RoleIs ==
  ASSUME NEW path \in ArtifactPaths, RoleOf(path) # "metadata"
  PROVE  /\ RoleOf(path) \in Roles
         /\ path[1] = "data" => RoleOf(path) = "final_evaluation"
         /\ path[1] \in Range(Datasets) \/ path[1] \in {"data", "searchr1"}
<1>1. PICK place \in Places: \E name \in NamesIn(place): path = <<place, name>>
  BY PathsAre
<1>2. PICK name \in NamesIn(place): path = <<place, name>>
  BY <1>1
<1> QED
  BY <1>2 DEF RoleOf, Roles, Places, NamesIn

\* A file and its other name are written from the same rows.
LEMMA SameContents ==
  ASSUME NEW r, NEW rows, NEW path \in ArtifactPaths
  PROVE  Contents(r, rows, AliasOf(path)) = Contents(r, rows, path)
  BY AliasIs DEF Contents

\* What is not shuffled keeps the order of its ids.
LEMMA ParquetIdsAre ==
  ASSUME NEW r, NEW rows, NEW role \in Roles, role # "trainer_train"
  PROVE  ParquetIds(Parquet(r, rows, role)) = Ids(AllRows(rows, role))
  BY DEF ParquetIds, Parquet, SearchRows, SearchRow, Ids

\* The ids a file of rows holds are those the contract records for it.
LEMMA IdsAgree ==
  ASSUME NEW r, NEW rows, NEW path \in ArtifactPaths, RoleOf(path) # "metadata"
  PROVE  IdsOf(Contents(r, rows, path), path)
           = IdsInContract(SplitContract(r, rows), path, RoleOf(path))
<1> DEFINE role == RoleOf(path)
           k == CHOOSE k \in DOMAIN Datasets: Datasets[k] = path[1]
<1>1. role \in Roles /\ (path[1] = "data" => role = "final_evaluation")
      /\ (path[1] \in Range(Datasets) \/ path[1] \in {"data", "searchr1"})
  BY RoleIs
<1>2. CASE path[1] = "searchr1"
  <2>1. path[1] \notin Range(Datasets)
    BY <1>2, DatasetsAssumption
  <2>2. IdsInContract(SplitContract(r, rows), path, role)
          = IF role = "trainer_train" THEN ParquetIds(Parquet(r, rows, role))
            ELSE Ids(AllRows(rows, role))
    BY <1>1, <2>1 DEF IdsInContract, SplitContract
  <2>3. IdsOf(Contents(r, rows, path), path) = ParquetIds(Parquet(r, rows, role))
    BY <1>2 DEF IdsOf, Contents
  <2> QED
    BY <1>1, <2>2, <2>3, ParquetIdsAre
<1>3. CASE path[1] = "data"
  <2>1. path[1] \notin Range(Datasets)
    BY <1>3, DatasetsAssumption
  <2>2. IdsInContract(SplitContract(r, rows), path, role) = Ids(AllRows(rows, role))
    BY <1>1, <1>3, <2>1 DEF IdsInContract, SplitContract
  <2>3. IdsOf(Contents(r, rows, path), path) = Ids(AllRows(rows, role))
    BY <1>3 DEF IdsOf, Contents
  <2> QED
    BY <2>2, <2>3
<1>4. CASE path[1] \in Range(Datasets)
  <2>1. path[1] # "data" /\ path[1] # "searchr1"
    BY <1>4, DatasetsAssumption
  <2>2. k \in DOMAIN Datasets
    BY <1>4 DEF Range
  <2>3. IdsInContract(SplitContract(r, rows), path, role) = Ids(rows[role][k])
    BY <1>1, <1>4, <2>2 DEF IdsInContract, SplitContract
  <2>4. IdsOf(Contents(r, rows, path), path) = Ids(rows[role][k])
    BY <2>1 DEF IdsOf, Contents
  <2> QED
    BY <2>3, <2>4
<1> QED
  BY <1>1, <1>2, <1>3, <1>4

\* Every artifact of a whole preparation passes the validator: bytes, alias and ids.
LEMMA OwnFilesPass ==
  ASSUME NEW r \in Feasible,
         \A path \in ArtifactPaths: path \in DOMAIN files /\ files[path] = r
  PROVE  \A path \in ArtifactPaths: ArtifactIsValid(Output[r].manifest, path)
<1> DEFINE m == Output[r].manifest
<1>2. \A path \in ArtifactPaths: ArtifactIsValid(m, path)
  <2>1. TAKE path \in ArtifactPaths
  <2> DEFINE contents == Contents(r, Chosen(r), path)
             other == AliasOf(path)
  <2>2. other \in ArtifactPaths /\ RoleOf(other) = RoleOf(path) /\ other[1] = path[1]
    BY AliasIs
  <2>3. Contents(r, Chosen(r), other) = contents
    BY SameContents
  <2>4. /\ m.artifacts[path] = Artifact(contents, path)
        /\ m.artifacts[other] = Artifact(contents, other)
    BY <2>2, <2>3, OutputIs
  <2>5. Bytes(path) = contents
    BY OutputIs DEF Bytes
  <2>6. IdsOf(contents, other) = IdsOf(contents, path)
    BY <2>2 DEF IdsOf
  <2>7. RoleOf(path) # "metadata" =>
          IdsOf(contents, path) = IdsInContract(m.contract, path, RoleOf(path))
    BY OutputIs, IdsAgree
  <2>8. RoleOf(path) = "metadata" => IdsOf(contents, path) = <<>>
    <3>1. ASSUME RoleOf(path) = "metadata" PROVE path[1] # "searchr1"
      BY <3>1, PathsAre DEF RoleOf, NamesIn
    <3> QED
      BY <3>1 DEF IdsOf
  <2> HIDE DEF m, contents, other
  <2>9. LET record == m.artifacts[path]
        IN /\ record.digest = contents /\ record.role = RoleOf(path) /\ record.alias = other
           /\ record.ids = IdsOf(contents, path)
    BY <2>4 DEF Artifact, other
  <2>10. LET record == m.artifacts[other]
         IN record.digest = contents /\ record.ids = IdsOf(contents, path)
    BY <2>4, <2>6 DEF Artifact
  <2> QED
    BY <2>5, <2>7, <2>8, <2>9, <2>10 DEF ArtifactIsValid, other
<1> QED
  BY <1>2

-----------------------------------------------------------------------------
(* The preparation *)

FilesOK ==
  /\ DOMAIN files \subseteq ArtifactPaths /\ \A path \in DOMAIN files: files[path] \in Feasible
  /\ manifest = {} \/ \E r \in Feasible: manifest = {r}

Promoted(n) ==
  \A i \in 1..n: Paths[i] \in DOMAIN files /\ files[Paths[i]] = prep.request

PrepOK ==
  /\ prep \in [at: {"idle", "promote", "commit", "done", "refused"},
               request: Requests, next: 1..Len(Paths)]
  /\ config \in Requests /\ edits \in 0..MaxEdits /\ crashes \in 0..MaxCrashes
  /\ prep.at \in {"promote", "commit"} => prep.request \in Feasible
  /\ prep.at = "promote" => Promoted(prep.next - 1)
  /\ prep.at = "commit" => Promoted(Len(Paths))

PreparationInv == FilesOK /\ PrepOK

\* The loop of renames goes through every artifact.
LEMMA PathsAreListed ==
  /\ Len(Paths) \in Nat \ {0} /\ DOMAIN Paths = 1..Len(Paths)
  /\ \A i \in 1..Len(Paths): Paths[i] \in ArtifactPaths
  /\ \A path \in ArtifactPaths: \E i \in 1..Len(Paths): Paths[i] = path
<1>1. Len(Paths) \in Nat /\ DOMAIN Paths = 1..Len(Paths)
  BY PathsAssumption
<1>2. <<"searchr1", "dev">> \in ArtifactPaths
  BY DEF ArtifactPaths, Places, NamesIn
<1>3. \A path \in ArtifactPaths: \E i \in 1..Len(Paths): Paths[i] = path
  BY <1>1, PathsAssumption DEF Range
<1>4. Len(Paths) # 0
  BY <1>2, <1>3
<1> QED
  BY <1>1, <1>3, <1>4, PathsAssumption

\* Nothing is prepared at the start.
LEMMA PreparationStarts == Init => PreparationInv
<1> SUFFICES ASSUME Init PROVE PreparationInv
  OBVIOUS
<1>1. FilesOK
  BY DEF Init, FilesOK
<1>2. MaxEdits \in Nat /\ MaxCrashes \in Nat
  BY BoundsAssumption
<1>3. PrepOK
  BY <1>2, PathsAreListed DEF Init, PrepOK, NoPreparation
<1> QED
  BY <1>1, <1>3 DEF PreparationInv

\* Every step keeps the account of the files: each holds what a feasible request staged,
\* and before the manifest is written the files renamed so far are those of its request.
LEMMA PreparationHolds == PreparationInv /\ [Next]_vars => PreparationInv'
<1> SUFFICES ASSUME PreparationInv, [Next]_vars PROVE PreparationInv'
  OBVIOUS
<1> USE DEF PreparationInv
<1>1. CASE Prepare
  <2>1. FilesOK'
    BY <1>1 DEF Prepare, FilesOK
  <2>2. PrepOK'
    BY <1>1, PathsAreListed DEF Prepare, PrepOK, Promoted
  <2> QED
    BY <2>1, <2>2
<1>2. CASE Promote
  <2> DEFINE path == Paths[prep.next]
  <2>1. /\ prep.next \in 1..Len(Paths) /\ prep.request \in Feasible /\ prep.request \in Requests
        /\ path \in ArtifactPaths /\ Promoted(prep.next - 1)
    BY <1>2, PathsAreListed DEF Promote, PrepOK
  <2>2. files' = [p \in DOMAIN files \cup {path} |-> IF p = path THEN prep.request ELSE files[p]]
    BY <1>2 DEF Promote
  <2>3. FilesOK'
    <3>1. manifest' = manifest
      BY <1>2 DEF Promote
    <3> QED
      BY <2>1, <2>2, <3>1 DEF FilesOK
  <2>4. \A i \in 1..prep.next: Paths[i] \in DOMAIN files' /\ files'[Paths[i]] = prep.request
    <3>1. TAKE i \in 1..prep.next
    <3>2. Paths[i] \in DOMAIN files' /\ (Paths[i] = path => files'[Paths[i]] = prep.request)
      BY <2>1, <2>2 DEF Promoted
    <3>3. CASE Paths[i] # path
      <4>1. i \in 1..(prep.next - 1)
        BY <2>1, <3>3
      <4>2. Paths[i] \in DOMAIN files /\ files[Paths[i]] = prep.request
        BY <2>1, <4>1 DEF Promoted
      <4> QED
        BY <2>2, <3>3, <4>2
    <3> QED
      BY <3>2, <3>3
  <2>5. PrepOK'
    <3>1. config' = config /\ edits' = edits /\ crashes' = crashes
      BY <1>2 DEF Promote
    <3>2. CASE prep.next = Len(Paths)
      <4>1. prep' = [prep EXCEPT !.at = "commit"]
        BY <1>2, <3>2 DEF Promote
      <4>2. prep'.request = prep.request /\ prep'.at = "commit" /\ prep'.next = prep.next
            /\ prep' \in [at: {"idle", "promote", "commit", "done", "refused"},
                          request: Requests, next: 1..Len(Paths)]
        BY <4>1 DEF PrepOK
      <4> QED
        BY <2>1, <2>4, <3>1, <3>2, <4>2 DEF PrepOK, Promoted
    <3>3. CASE prep.next # Len(Paths)
      <4>1. prep' = [prep EXCEPT !.next = prep.next + 1]
        BY <1>2, <3>3 DEF Promote
      <4>2. prep'.request = prep.request /\ prep'.at = "promote" /\ prep'.next = prep.next + 1
            /\ prep' \in [at: {"idle", "promote", "commit", "done", "refused"},
                          request: Requests, next: 1..Len(Paths)]
        BY <1>2, <2>1, <3>3, <4>1, PathsAreListed DEF PrepOK, Promote
      <4>3. prep'.next - 1 = prep.next
        BY <2>1, <4>2
      <4> QED
        BY <2>1, <2>4, <3>1, <4>2, <4>3 DEF PrepOK, Promoted
    <3> QED
      BY <3>2, <3>3
  <2> QED
    BY <2>3, <2>5
<1>3. CASE Commit
  <2>1. prep.request \in Feasible /\ manifest' = {prep.request} /\ files' = files
        /\ prep' = [prep EXCEPT !.at = "done"]
        /\ config' = config /\ edits' = edits /\ crashes' = crashes
    BY <1>3 DEF Commit, PrepOK
  <2> QED
    BY <2>1 DEF FilesOK, PrepOK
<1>4. CASE Edit
  <2>1. config' \in Requests /\ edits' = edits + 1 /\ edits' \in 0..MaxEdits
    BY <1>4, BoundsAssumption DEF Edit, PrepOK
  <2> QED
    BY <1>4, <2>1 DEF Edit, FilesOK, PrepOK, Promoted, prepared
<1>5. CASE CrashPreparation
  <2>1. crashes' \in 0..MaxCrashes
    BY <1>5, BoundsAssumption DEF CrashPreparation, PrepOK
  <2> QED
    <3>1. prep' = [prep EXCEPT !.at = "idle", !.next = 1]
      BY <1>5 DEF CrashPreparation
    <3> DEFINE idle == [at |-> "idle", request |-> prep.request, next |-> 1]
    <3>2. 1 \in 1..Len(Paths)
      BY PathsAreListed
    <3>3. prep' = idle
      BY <3>1 DEF PrepOK
    <3>4. prep' \in [at: {"idle", "promote", "commit", "done", "refused"},
                     request: Requests, next: 1..Len(Paths)] /\ prep'.at = "idle"
      BY <3>2, <3>3 DEF PrepOK
    <3> QED
      BY <1>5, <2>1, <3>4 DEF CrashPreparation, FilesOK, PrepOK
<1>6. CASE CrashDerivation
  <2>1. crashes' \in 0..MaxCrashes
    BY <1>6, BoundsAssumption DEF CrashDerivation, PrepOK
  <2> QED
    BY <1>6, <2>1 DEF CrashDerivation, FilesOK, PrepOK, Promoted, prepared
<1>7. CASE UNCHANGED <<config, prepared, edits, crashes>>
  BY <1>7 DEF FilesOK, PrepOK, Promoted, prepared
<1>8. \/ Prepare \/ Promote \/ Commit \/ Edit \/ CrashPreparation \/ CrashDerivation
      \/ UNCHANGED <<config, prepared, edits, crashes>>
  BY DEF Next, vars, Load, Request, Replace, Record, Open, Verify, ReadRows
<1> QED
  BY <1>1, <1>2, <1>3, <1>4, <1>5, <1>6, <1>7, <1>8

-----------------------------------------------------------------------------
(* The rows of a role *)

\* The roles are the two of training and the final evaluation.
LEMMA RolesAre ==
  /\ Range(TrainingRoles) = {"trainer_train", "trainer_validation"}
  /\ Roles = {"trainer_train", "trainer_validation", "final_evaluation"}
  /\ DOMAIN TrainingRoles = {1, 2}
  BY DEF TrainingRoles, Roles, Range

\* A slice counts at least one row from a place on.
LEMMA SlicesAre ==
  ASSUME NEW r \in Requests, NEW role \in Roles, NEW k \in DOMAIN Datasets
  PROVE  /\ Slice(r, role, k).split \in {"train", "eval"}
         /\ Slice(r, role, k).start \in Nat /\ Slice(r, role, k).count \in Nat \ {0}
         /\ Slice(r, role, k).seed \in Int
<1>1. k \in Nat
  BY DatasetsAssumption
<1> QED
  BY <1>1, RequestsAssumption DEF Slice, Roles

\* A shuffle keeps the number of rows.
LEMMA ShuffledIsList ==
  ASSUME NEW rows, IsList(rows), NEW seed
  PROVE  IsList(Shuffled(rows, seed)) /\ Len(Shuffled(rows, seed)) = Len(rows)
<1>1. Len(rows) \in Nat
  BY ListIs
<1> QED
  BY <1>1, SegmentIsList DEF Shuffled

\* A feasible request finds as many rows as its slice asks for.
LEMMA SelectedIsList ==
  ASSUME NEW r \in Feasible, NEW role \in Roles, NEW k \in DOMAIN Datasets
  PROVE  /\ IsList(Selected(r, role, k))
         /\ Len(Selected(r, role, k)) = Slice(r, role, k).count
<1> DEFINE slice == Slice(r, role, k)
           rows == Shuffled(Split(k, slice), slice.seed)
<1>1. r \in Requests /\ slice.start + slice.count <= Len(Split(k, slice))
  BY DEF Feasible, IsFeasible, SplitsAreLargeEnough
<1>2. slice.split \in {"train", "eval"} /\ slice.start \in Nat /\ slice.count \in Nat \ {0}
  BY <1>1, SlicesAre
<1> HIDE DEF slice
<1>3. IsList(Split(k, slice))
  <2>1. Datasets[k] \in Range(Datasets)
    BY DEF Range
  <2> QED
    BY <1>2, <2>1, SourceAssumption DEF Split, IsList
<1>4. IsList(rows) /\ Len(rows) = Len(Split(k, slice))
  BY <1>3, ShuffledIsList
<1> HIDE DEF rows
<1> DEFINE taken == SubSeq(rows, slice.start + 1, slice.start + slice.count)
<1>5. taken \in Seq(Range(rows)) /\ Len(taken) = slice.count
  BY <1>1, <1>2, <1>4, SMTT(30) DEF IsList
<1>6. DOMAIN taken = 1..slice.count
  BY <1>5, ListOf
<1>7. Selected(r, role, k) = Labelled(taken, role, k)
  BY DEF Selected, Taken, rows, slice
<1> HIDE DEF taken
<1>8. DOMAIN Selected(r, role, k) = 1..slice.count
      /\ Selected(r, role, k) = [i \in 1..slice.count |-> Selected(r, role, k)[i]]
  BY <1>6, <1>7 DEF Labelled
<1>9. slice.count \in Nat
  BY <1>2
<1>10. IsList(Selected(r, role, k)) /\ Len(Selected(r, role, k)) = slice.count
  BY <1>8, <1>9, SegmentIsList
<1> QED
  BY <1>10 DEF slice

\* The rows of a role: as many of each dataset as its slice says, in their order.
LEMMA ChosenIs ==
  ASSUME NEW r \in Feasible, NEW role \in Roles
  PROVE  /\ IsList(Chosen(r)[role]) /\ DOMAIN Chosen(r)[role] = DOMAIN Datasets
         /\ Len(Chosen(r)[role]) = Len(Datasets)
         /\ \A k \in DOMAIN Datasets:
              /\ IsList(Chosen(r)[role][k])
              /\ Len(Chosen(r)[role][k]) = Slice(r, role, k).count
              /\ \A i \in DOMAIN Chosen(r)[role][k]:
                   /\ i \in DOMAIN Selected(r, role, k)
                   /\ Chosen(r)[role][k][i].query = Selected(r, role, k)[i].query
<1> DEFINE found == Found(Selection(r))
           lists == [k \in DOMAIN Datasets |->
                       [i \in DOMAIN Selected(r, role, k) |->
                          Annotated(Selected(r, role, k)[i], found)]]
<1>1. Len(Datasets) \in Nat /\ DOMAIN Datasets = 1..Len(Datasets)
  BY DatasetsAssumption
<1>2. Chosen(r)[role] = lists
  BY DEF Chosen, AnnotatedRows, Selection
<1> HIDE DEF found
<1>3. IsList(lists) /\ Len(lists) = Len(Datasets)
  BY <1>1, SegmentIsList
<1>4. ASSUME NEW k \in DOMAIN Datasets
      PROVE  /\ IsList(lists[k]) /\ Len(lists[k]) = Slice(r, role, k).count
             /\ \A i \in DOMAIN lists[k]: /\ i \in DOMAIN Selected(r, role, k)
                                          /\ lists[k][i].query = Selected(r, role, k)[i].query
  <2> DEFINE rows == Selected(r, role, k)
             list == [i \in DOMAIN rows |-> Annotated(rows[i], found)]
  <2>1. IsList(rows) /\ Len(rows) = Slice(r, role, k).count
    BY SelectedIsList
  <2>2. Len(rows) \in Nat /\ DOMAIN rows = 1..Len(rows)
    BY <2>1, ListIs
  <2>3. lists[k] = list
    OBVIOUS
  <2> HIDE DEF rows
  <2>4. IsList(list) /\ Len(list) = Len(rows)
    BY <2>2, SegmentIsList
  <2>5. \A i \in DOMAIN list: i \in DOMAIN rows /\ list[i].query = rows[i].query
    BY DEF Annotated
  <2> QED
    BY <2>1, <2>3, <2>4, <2>5 DEF rows
<1> QED
  BY <1>2, <1>3, <1>4

\* The rows of a role, all datasets together, are a list.
LEMMA AllRowsAreLists ==
  ASSUME NEW r \in Feasible, NEW role \in Roles
  PROVE  IsList(AllRows(Chosen(r), role))
  BY ChosenIs, FlatIsList DEF AllRows

\* A file of rows holds a list of them.
LEMMA ParquetIsList ==
  ASSUME NEW r \in Feasible, NEW role \in Roles
  PROVE  IsList(Parquet(r, Chosen(r), role))
<1> DEFINE all == AllRows(Chosen(r), role)
<1>1. Len(all) \in Nat /\ DOMAIN all = 1..Len(all)
  BY AllRowsAreLists, ListIs
<1> HIDE DEF all
<1>2. IsList(SearchRows(all))
  BY <1>1, SegmentIsList DEF SearchRows
<1> QED
  BY <1>2, ShuffledIsList DEF Parquet, all

\* The ids and the questions of rows are lists over the same places.
LEMMA IdsAreLists ==
  ASSUME NEW rows, IsList(rows)
  PROVE  /\ IsList(Ids(rows)) /\ IsList(Questions(rows))
         /\ DOMAIN Ids(rows) = DOMAIN rows /\ DOMAIN Questions(rows) = DOMAIN rows
<1>1. Len(rows) \in Nat /\ DOMAIN rows = 1..Len(rows)
  BY ListIs
<1> QED
  BY <1>1, SegmentIsList DEF Ids, Questions

-----------------------------------------------------------------------------
(* What the test of a feasible request says of the rows that are published *)

\* What the test of a request looks at are the queries of the rows that are published.
LEMMA SelectionIs ==
  ASSUME NEW r \in Feasible, NEW role \in Roles
  PROVE  /\ DOMAIN AllRows(Chosen(r), role) = DOMAIN AllRows(Selection(r), role)
         /\ \A x \in DOMAIN AllRows(Chosen(r), role):
              AllRows(Chosen(r), role)[x].query = AllRows(Selection(r), role)[x].query
         /\ Len(Selection(r)[role]) = Len(Datasets)
         /\ IsList(Selection(r)[role])
         /\ \A k \in DOMAIN Selection(r)[role]: IsList(Selection(r)[role][k])
<1> DEFINE s == Chosen(r)[role]
           t == Selection(r)[role]
<1>1. Len(Datasets) \in Nat /\ DOMAIN Datasets = 1..Len(Datasets) /\ Len(Datasets) # 0
  BY DatasetsAssumption
<1>2. t = [k \in DOMAIN Datasets |-> Selected(r, role, k)]
  BY DEF Selection
<1>3. IsList(t) /\ Len(t) = Len(Datasets)
  BY <1>1, <1>2, SegmentIsList
<1>4. IsList(s) /\ Len(s) = Len(Datasets) /\ DOMAIN s = DOMAIN Datasets
  BY ChosenIs
<1>5. ASSUME NEW k \in DOMAIN s
      PROVE  /\ IsList(s[k]) /\ IsList(t[k]) /\ Len(s[k]) = Len(t[k])
             /\ \A j \in DOMAIN s[k]: s[k][j].query = t[k][j].query
  <2>1. k \in DOMAIN Datasets /\ t[k] = Selected(r, role, k)
    BY <1>2, <1>4
  <2> QED
    BY <2>1, ChosenIs, SelectedIsList
<1> HIDE DEF s, t
<1>6. /\ DOMAIN FlattenSeq(s) = DOMAIN FlattenSeq(t)
      /\ \A x \in DOMAIN FlattenSeq(s): FlattenSeq(s)[x].query = FlattenSeq(t)[x].query
  BY <1>1, <1>3, <1>4, <1>5, FlatQueries
<1>7. AllRows(Chosen(r), role) = FlattenSeq(s) /\ AllRows(Selection(r), role) = FlattenSeq(t)
  BY DEF AllRows, s, t
<1>8. \A k \in DOMAIN t: IsList(t[k])
  <2>1. DOMAIN t = DOMAIN s
    BY <1>2, <1>4 DEF t
  <2> QED
    BY <1>5, <2>1
<1> QED
  BY <1>3, <1>6, <1>7, <1>8 DEF t

(***************************************************************************)
(* Every row that is published has an answer and a title, and no id and no *)
(* question stands twice, in a role or in two of them.                     *)
(***************************************************************************)
LEMMA PublishedIsUsable ==
  ASSUME NEW r \in Feasible, NEW role \in Roles
  PROVE  /\ \A x \in DOMAIN AllRows(Chosen(r), role):
              AllRows(Chosen(r), role)[x].query.titles # <<>>
         /\ IsInjective(Ids(AllRows(Chosen(r), role)))
         /\ IsInjective(Questions(AllRows(Chosen(r), role)))
         /\ \A other \in Roles: role # other =>
              AreDisjoint(AllRows(Chosen(r), role), AllRows(Chosen(r), other))
<1> DEFINE rows(of) == AllRows(Chosen(r), of)
           picked(of) == AllRows(Selection(r), of)
<1>1. \A of \in Roles: /\ DOMAIN rows(of) = DOMAIN picked(of)
                       /\ \A x \in DOMAIN rows(of): rows(of)[x].query = picked(of)[x].query
  BY SelectionIs
<1>2. /\ \A of \in Roles: /\ \A row \in Range(picked(of)): row.query.titles # <<>>
                          /\ IsUnique(picked(of))
      /\ \A left, right \in Roles: left # right => AreDisjoint(picked(left), picked(right))
  BY DEF Feasible, IsFeasible, RowsAreUsable
<1> HIDE DEF rows, picked
<1>3. \A of \in Roles: Ids(rows(of)) = Ids(picked(of)) /\ Questions(rows(of)) = Questions(picked(of))
  BY <1>1 DEF Ids, Questions
<1>4. \A x \in DOMAIN rows(role): rows(role)[x].query.titles # <<>>
  <2>1. TAKE x \in DOMAIN rows(role)
  <2>2. picked(role)[x] \in Range(picked(role))
    BY <1>1, <2>1 DEF Range
  <2> QED
    BY <1>1, <1>2, <2>1, <2>2
<1>5. IsInjective(Ids(rows(role))) /\ IsInjective(Questions(rows(role)))
  BY <1>2, <1>3 DEF IsUnique
<1>6. \A other \in Roles: role # other => AreDisjoint(rows(role), rows(other))
  BY <1>2, <1>3 DEF AreDisjoint
<1> QED
  BY <1>4, <1>5, <1>6 DEF rows

\* Every dataset gives a role as many rows.
LEMMA CountsAreEqual ==
  ASSUME NEW r \in Feasible, NEW role \in Roles
  PROVE  /\ Slice(r, role, 1).count \in Nat \ {0}
         /\ \A k \in DOMAIN Datasets: Slice(r, role, k).count = Slice(r, role, 1).count
         /\ Len(AllRows(Chosen(r), role)) = Slice(r, role, 1).count * Len(Datasets)
<1> DEFINE c == Slice(r, role, 1).count
           s == Chosen(r)[role]
<1>1. Len(Datasets) \in Nat /\ DOMAIN Datasets = 1..Len(Datasets) /\ Len(Datasets) # 0
  BY DatasetsAssumption
<1>2. r \in Requests /\ 1 \in DOMAIN Datasets
  BY <1>1 DEF Feasible
<1>3. c \in Nat \ {0}
  BY <1>2, SlicesAre
<1>4. \A k \in DOMAIN Datasets: Slice(r, role, k).count = c
  BY DEF Slice, Roles
<1>5. IsList(s) /\ Len(s) = Len(Datasets) /\ Len(s) # 0
      /\ \A k \in DOMAIN s: IsList(s[k]) /\ Len(s[k]) = c
  BY <1>1, <1>4, ChosenIs
<1> HIDE DEF c, s
<1>6. Len(FlattenSeq(s)) = c * Len(s)
  BY <1>3, <1>5, FlatLength
<1> QED
  BY <1>3, <1>4, <1>5, <1>6 DEF AllRows, c, s

\* No id and no question stands twice among the rows of one dataset.
LEMMA PartsAreUnique ==
  ASSUME NEW r \in Feasible, NEW role \in Roles, NEW k \in DOMAIN Datasets
  PROVE  IsInjective(Ids(Chosen(r)[role][k])) /\ IsInjective(Questions(Chosen(r)[role][k]))
<1> DEFINE s == Chosen(r)[role]
           all == AllRows(Chosen(r), role)
<1>1. /\ IsList(s) /\ Len(s) # 0 /\ k \in DOMAIN s
      /\ \A i \in DOMAIN s: IsList(s[i])
  BY ChosenIs, DatasetsAssumption
<1>2. IsInjective(Ids(all)) /\ IsInjective(Questions(all))
  BY PublishedIsUsable
<1>3. all = FlattenSeq(s)
  BY DEF AllRows
<1> HIDE DEF s, all
<1>4. PICK n \in Nat: StandsIn(s[k], all, n)
  BY <1>1, <1>3, PartsStand
<1>5. Len(s[k]) \in Nat /\ DOMAIN s[k] = 1..Len(s[k])
  BY <1>1, ListIs
<1>6. \A j \in DOMAIN s[k]: n + j \in DOMAIN all /\ all[n + j] = s[k][j]
  BY <1>4 DEF StandsIn
<1>7. IsInjective(Ids(s[k]))
  <2>1. \A i, j \in DOMAIN all: all[i].query.id = all[j].query.id => i = j
    BY <1>2 DEF IsInjective, Ids
  <2> QED
    BY <1>5, <1>6, <2>1 DEF IsInjective, Ids
<1>8. IsInjective(Questions(s[k]))
  <2>1. \A i, j \in DOMAIN all:
          Normal(all[i].query.question) = Normal(all[j].query.question) => i = j
    BY <1>2 DEF IsInjective, Questions
  <2>2. \A i, j \in DOMAIN s[k]:
          Normal(s[k][i].query.question) = Normal(s[k][j].query.question) => n + i = n + j
    BY <1>6, <2>1
  <2>3. \A i, j \in DOMAIN s[k]: n + i = n + j => i = j
    BY <1>5
  <2> QED
    BY <2>2, <2>3 DEF IsInjective, Questions
<1> QED
  BY <1>7, <1>8 DEF s

\* A shuffle moves no two rows to one place.
LEMMA ShuffleIsInjective ==
  ASSUME NEW n \in Nat, NEW seed \in Int, NEW i \in 1..n, NEW j \in 1..n,
         (i - 1 + seed) % n = (j - 1 + seed) % n
  PROVE  i = j
<1> DEFINE a == i - 1 + seed
           b == j - 1 + seed
<1>1. n \in Nat \ {0} /\ a \in Int /\ b \in Int
  BY DEF a, b
<1>2. a - b < n /\ b - a < n
  BY DEF a, b
<1>3. a % n = b % n
  BY DEF a, b
<1>4. i - j = a - b
  BY DEF a, b
<1> HIDE DEF a, b
<1>5. PICK p, q \in Int: a = n * p + (a % n) /\ b = n * q + (b % n)
  <2>1. a \div n \in Int /\ a = n * (a \div n) + (a % n)
    BY <1>1
  <2>2. b \div n \in Int /\ b = n * (b \div n) + (b % n)
    BY <1>1
  <2> QED
    BY <2>1, <2>2
<1>6. a - b = n * p - n * q
  <2>1. a % n \in Int
    BY <1>1
  <2> QED
    BY <1>1, <1>3, <1>5, <2>1
<1>7. n * p - n * q = n * (p - q)
  BY <1>1, <1>5
<1>8. p = q
  <2>1. CASE p - q >= 1
    <3>1. n * (p - q) >= n
      BY <1>1, <1>5, <2>1
    <3> QED
      BY <1>1, <1>2, <1>6, <1>7, <3>1
  <2>2. CASE q - p >= 1
    <3>1. n * (q - p) >= n
      BY <1>1, <1>5, <2>2
    <3>2. b - a = n * (q - p)
      BY <1>1, <1>5, <1>6
    <3> QED
      BY <1>1, <1>2, <3>1, <3>2
  <2> QED
    BY <1>5, <2>1, <2>2
<1> QED
  BY <1>1, <1>4, <1>6, <1>8

(***************************************************************************)
(* The ids a contract records for a role are those of its rows, shuffled   *)
(* or not, each once.                                                      *)
(***************************************************************************)
LEMMA RecordedIds ==
  ASSUME NEW r \in Feasible, NEW role \in Roles
  PROVE  LET ids == SplitContract(r, Chosen(r)).all[role].ids
             all == AllRows(Chosen(r), role)
         IN IsList(ids) /\ Len(ids) = Len(all) /\ IsInjective(ids) /\ Range(ids) = Range(Ids(all))
<1> DEFINE all == AllRows(Chosen(r), role)
           n == Len(all)
           ids == SplitContract(r, Chosen(r)).all[role].ids
<1>1. ids = IF role = "trainer_train" THEN ParquetIds(Parquet(r, Chosen(r), role)) ELSE Ids(all)
  BY DEF SplitContract
<1>2. IsList(all) /\ n \in Nat /\ DOMAIN all = 1..n
      /\ IsList(Ids(all)) /\ DOMAIN Ids(all) = 1..n /\ IsInjective(Ids(all))
  BY AllRowsAreLists, ListIs, IdsAreLists, PublishedIsUsable
<1> HIDE DEF all
<1>3. Len(Ids(all)) = n
  BY <1>2, ListIs
<1>4. CASE role = "trainer_train"
  <2>1. r.seed \in Int
    BY RequestsAssumption DEF Feasible
  <2>2. IsList(SearchRows(all)) /\ Len(SearchRows(all)) = n
    BY <1>2, SegmentIsList DEF SearchRows
  <2>3. Parquet(r, Chosen(r), role) = [i \in 1..n |-> SearchRows(all)[1 + ((i - 1 + r.seed) % n)]]
    BY <1>4, <2>2 DEF Parquet, Shuffled, all
  <2>4. ids = [i \in 1..n |-> SearchRows(all)[1 + ((i - 1 + r.seed) % n)].id]
    BY <1>1, <1>4, <2>3 DEF ParquetIds
  <2> HIDE DEF ids
  <2>5. \A i \in 1..n: 1 + ((i - 1 + r.seed) % n) \in 1..n
    BY <1>2, <2>1
  <2>6. \A j \in 1..n: SearchRows(all)[j].id = Ids(all)[j]
    BY <1>2 DEF SearchRows, SearchRow, Ids
  <2>7. IsList(ids) /\ Len(ids) = n /\ DOMAIN ids = 1..n
    BY <1>2, <2>4, SegmentIsList
  <2>8. \A i \in 1..n: ids[i] = Ids(all)[1 + ((i - 1 + r.seed) % n)]
    BY <2>4, <2>5, <2>6
  <2>9. IsInjective(ids)
    <3>1. SUFFICES ASSUME NEW i \in 1..n, NEW j \in 1..n, ids[i] = ids[j] PROVE i = j
      BY <2>7 DEF IsInjective
    <3>2. PICK a \in 1..n: a = 1 + ((i - 1 + r.seed) % n)
      BY <2>5
    <3>3. PICK b \in 1..n: b = 1 + ((j - 1 + r.seed) % n)
      BY <2>5
    <3>4. Ids(all)[a] = Ids(all)[b]
      BY <2>8, <3>1, <3>2, <3>3
    <3>5. a = b
      BY <1>2, <3>4 DEF IsInjective
    <3>6. (i - 1 + r.seed) % n = (j - 1 + r.seed) % n
      BY <1>2, <2>1, <3>2, <3>3, <3>5
    <3> QED
      BY <1>2, <2>1, <3>6, ShuffleIsInjective
  <2>10. Range(ids) \subseteq Range(Ids(all))
    <3>1. SUFFICES ASSUME NEW i \in 1..n PROVE ids[i] \in Range(Ids(all))
      BY <2>7 DEF Range
    <3> QED
      BY <1>2, <2>5, <2>8 DEF Range
  <2>11. Range(ids) = Range(Ids(all))
    BY <1>2, <2>7, <2>9, <2>10, InjectiveFills
  <2> QED
    BY <2>7, <2>9, <2>11 DEF all, ids
<1>5. CASE role # "trainer_train"
  BY <1>1, <1>2, <1>3, <1>5 DEF all
<1> QED
  BY <1>4, <1>5

\* The validator expects the slices that were taken.
LEMMA RequiredIsSlice ==
  ASSUME NEW r \in Requests, NEW role \in Roles, NEW k \in Nat
  PROVE  Required(r, role, k) = Slice(r, role, k)
<1>1. r.seed \in Int
  BY RequestsAssumption
<1> QED
  BY <1>1, RolesAre DEF Required, Slice

\* Three lists that share nothing, and repeat nothing, repeat nothing together.
LEMMA CombinedIsInjective ==
  ASSUME NEW a, NEW b, NEW c, IsList(a), IsList(b), IsList(c),
         IsInjective(a), IsInjective(b), IsInjective(c),
         Range(a) \cap Range(b) = {}, Range(a) \cap Range(c) = {}, Range(b) \cap Range(c) = {}
  PROVE  IsInjective(a \o b \o c) /\ Len(a \o b \o c) = Len(a) + Len(b) + Len(c)
<1> DEFINE v == a \o b
           w == v \o c
<1>1. IsJoin(v, a, b) /\ IsJoin(w, v, c)
  BY DEF IsJoin
<1> HIDE DEF v, w
<1>2. IsList(v) /\ IsInjective(v) /\ Len(v) = Len(a) + Len(b) /\ Range(v) = Range(a) \cup Range(b)
  BY <1>1, JoinIsInjective
<1>3. Range(v) \cap Range(c) = {}
  BY <1>2
<1>4. IsInjective(w) /\ Len(w) = Len(v) + Len(c)
  BY <1>1, <1>2, <1>3, JoinIsInjective
<1> QED
  BY <1>2, <1>4 DEF v, w

(***************************************************************************)
(* The contract a preparation writes passes the validator's test.          *)
(***************************************************************************)
LEMMA ContractOfFeasible ==
  ASSUME NEW r \in Feasible
  PROVE  ContractIsValid(SplitContract(r, Chosen(r)), r)
<1> DEFINE contract == SplitContract(r, Chosen(r))
           rows(role) == AllRows(Chosen(r), role)
           count(role) == Required(r, role, 1).count
           total(role) == count(role) * Len(Datasets)
<1>1. r \in Requests /\ Len(Datasets) \in Nat /\ DOMAIN Datasets = 1..Len(Datasets)
  BY DatasetsAssumption DEF Feasible
<1>2. \A role \in Roles, k \in DOMAIN Datasets: Required(r, role, k) = Slice(r, role, k)
  BY <1>1, RequiredIsSlice
<1>3. \A role \in Roles: count(role) = Slice(r, role, 1).count
  <2>1. 1 \in DOMAIN Datasets
    BY DatasetsAssumption
  <2> QED
    BY <1>2, <2>1
<1>4. \A role \in Roles:
        /\ count(role) \in Nat /\ Len(rows(role)) = total(role)
        /\ \A k \in DOMAIN Datasets: Slice(r, role, k).count = count(role)
  BY <1>3, CountsAreEqual
<1> HIDE DEF count
<1>5. ASSUME NEW role \in Roles
      PROVE  /\ contract.all[role].questions = Questions(rows(role))
             /\ IsList(contract.all[role].ids) /\ IsList(contract.all[role].questions)
             /\ IsListOf(contract.all[role].ids, total(role))
             /\ IsListOf(contract.all[role].questions, total(role))
             /\ Range(contract.all[role].ids) = Range(Ids(rows(role)))
  <2>1. contract.all[role].questions = Questions(rows(role))
    BY DEF SplitContract
  <2>2. IsList(rows(role)) /\ IsList(Questions(rows(role))) /\ IsInjective(Questions(rows(role)))
        /\ DOMAIN Questions(rows(role)) = DOMAIN rows(role)
    BY AllRowsAreLists, IdsAreLists, PublishedIsUsable
  <2>3. Len(Questions(rows(role))) = Len(rows(role))
    BY <2>2, ListIs
  <2>4. /\ IsList(contract.all[role].ids) /\ Len(contract.all[role].ids) = Len(rows(role))
        /\ IsInjective(contract.all[role].ids)
        /\ Range(contract.all[role].ids) = Range(Ids(rows(role)))
    BY RecordedIds
  <2> QED
    BY <1>4, <2>1, <2>2, <2>3, <2>4 DEF IsListOf
<1>6. ASSUME NEW role \in Roles, NEW k \in DOMAIN Datasets
      PROVE  LET part == contract.each[role][k]
             IN /\ part.slice = Required(r, role, k)
                /\ part.available >= part.slice.start + part.slice.count
                /\ IsListOf(part.ids, count(role)) /\ IsListOf(part.questions, count(role))
  <2> DEFINE some == Chosen(r)[role][k]
             part == contract.each[role][k]
  <2>1. /\ part.slice = Slice(r, role, k) /\ part.ids = Ids(some) /\ part.questions = Questions(some)
        /\ part.available = Len(Split(k, Slice(r, role, k)))
    BY DEF SplitContract
  <2>2. IsList(some) /\ Len(some) = count(role)
    BY <1>4, ChosenIs
  <2>3. IsInjective(Ids(some)) /\ IsInjective(Questions(some))
    BY PartsAreUnique
  <2> HIDE DEF some
  <2>4. Len(Ids(some)) = Len(some) /\ Len(Questions(some)) = Len(some)
    BY <2>2, IdsAreLists, ListIs
  <2>5. Len(Split(k, Slice(r, role, k))) >= Slice(r, role, k).start + Slice(r, role, k).count
    <3>1. Slice(r, role, k).start + Slice(r, role, k).count <= Len(Split(k, Slice(r, role, k)))
      BY DEF Feasible, IsFeasible, SplitsAreLargeEnough
    <3>2. IsList(Split(k, Slice(r, role, k)))
      <4>1. Datasets[k] \in Range(Datasets) /\ Slice(r, role, k).split \in {"train", "eval"}
        BY <1>1, SlicesAre DEF Range
      <4> QED
        BY <4>1, SourceAssumption DEF Split, IsList
    <3>3. Slice(r, role, k).start \in Nat /\ Slice(r, role, k).count \in Nat
          /\ Len(Split(k, Slice(r, role, k))) \in Nat
      BY <1>1, <3>2, SlicesAre, ListIs
    <3> QED
      BY <3>1, <3>3
  <2> HIDE DEF part
  <2>6. /\ part.slice = Required(r, role, k)
        /\ part.available >= part.slice.start + part.slice.count
    BY <1>2, <2>1, <2>5
  <2>7. IsListOf(part.ids, count(role)) /\ IsListOf(part.questions, count(role))
    BY <2>1, <2>2, <2>3, <2>4 DEF IsListOf
  <2> QED
    BY <2>6, <2>7 DEF part
<1>7. ASSUME NEW field \in {"ids", "questions"}
      PROVE  IsListOf(Combined(contract, field),
                      total("trainer_train") + total("trainer_validation")
                        + total("final_evaluation"))
  <2> DEFINE list(role) == contract.all[role][field]
  <2>1. \A role \in Roles: IsList(list(role)) /\ IsListOf(list(role), total(role))
    BY <1>5
  <2>2. \A left, right \in Roles: left # right => Range(list(left)) \cap Range(list(right)) = {}
    <3>1. TAKE left, right \in Roles
    <3>2. HAVE left # right
    <3>3. AreDisjoint(rows(left), rows(right))
      BY <3>2, PublishedIsUsable
    <3>4. CASE field = "ids"
      BY <1>5, <3>3, <3>4 DEF AreDisjoint
    <3>5. CASE field = "questions"
      BY <1>5, <3>3, <3>5 DEF AreDisjoint
    <3> QED
      BY <3>4, <3>5
  <2>3. Combined(contract, field)
          = list("trainer_train") \o list("trainer_validation") \o list("final_evaluation")
    BY DEF Combined
  <2> HIDE DEF list
  <2>4. \A role \in Roles: IsInjective(list(role)) /\ Len(list(role)) = total(role)
    BY <2>1 DEF IsListOf
  <2>5. /\ IsInjective(list("trainer_train") \o list("trainer_validation")
                         \o list("final_evaluation"))
        /\ Len(list("trainer_train") \o list("trainer_validation") \o list("final_evaluation"))
             = Len(list("trainer_train")) + Len(list("trainer_validation"))
                 + Len(list("final_evaluation"))
    BY <2>1, <2>2, <2>4, RolesAre, CombinedIsInjective
  <2> HIDE DEF total
  <2>6. /\ Len(list("trainer_train")) = total("trainer_train")
        /\ Len(list("trainer_validation")) = total("trainer_validation")
        /\ Len(list("final_evaluation")) = total("final_evaluation")
    BY <2>4, RolesAre
  <2> QED
    BY <2>3, <2>5, <2>6 DEF IsListOf
<1> HIDE DEF contract
<1> QED
  BY <1>5, <1>6, <1>7 DEF ContractIsValid, count, contract

-----------------------------------------------------------------------------
(* The coverage a preparation records *)

\* The titles of a row that is selected are a list.
LEMMA TakenRows ==
  ASSUME NEW r \in Feasible, NEW role \in Roles, NEW k \in DOMAIN Datasets,
         NEW i \in DOMAIN Selected(r, role, k)
  PROVE  IsList(Selected(r, role, k)[i].query.titles)
<1> DEFINE slice == Slice(r, role, k)
           rows == Split(k, slice)
           mixed_rows == Shuffled(rows, slice.seed)
           taken == SubSeq(mixed_rows, slice.start + 1, slice.start + slice.count)
<1>1. r \in Requests /\ slice.start + slice.count <= Len(rows)
  BY DEF Feasible, IsFeasible, SplitsAreLargeEnough
<1>2. slice.split \in {"train", "eval"} /\ slice.start \in Nat /\ slice.count \in Nat \ {0}
      /\ slice.seed \in Int
  BY <1>1, SlicesAre
<1>3. Datasets[k] \in Range(Datasets)
  BY DEF Range
<1>4. IsList(rows) /\ \A raw \in Range(rows): IsList(SupportTitles(raw.meta))
  BY <1>2, <1>3, SourceAssumption DEF Split, IsList
<1>5. Selected(r, role, k)
        = [j \in DOMAIN taken |->
             [query |-> ToQuery(taken[j], Datasets[k], role), route |-> RouteOf(role, j)]]
  BY DEF Selected, Labelled, Taken
<1> HIDE DEF slice, rows
<1>6. Len(rows) \in Nat /\ DOMAIN rows = 1..Len(rows)
  BY <1>4, ListIs
<1>7. mixed_rows \in Seq(Range(rows)) /\ Len(mixed_rows) = Len(rows)
  <2>1. \A j \in 1..Len(rows): 1 + ((j - 1 + slice.seed) % Len(rows)) \in 1..Len(rows)
    BY <1>2, <1>6
  <2>2. mixed_rows \in [1..Len(rows) -> Range(rows)]
    BY <1>6, <2>1 DEF Shuffled, Range
  <2> HIDE DEF mixed_rows
  <2> QED
    BY <1>6, <2>2
<1> HIDE DEF mixed_rows
<1>8. taken \in Seq(Range(rows)) /\ Len(taken) = slice.count
  BY <1>1, <1>2, <1>7, SMTT(30)
<1> HIDE DEF taken
<1>9. i \in DOMAIN taken /\ Selected(r, role, k)[i].query.titles = SupportTitles(taken[i].meta)
  BY <1>5 DEF ToQuery
<1>10. taken[i] \in Range(rows)
  BY <1>8, <1>9, ListOf
<1> QED
  BY <1>4, <1>9, <1>10

(***************************************************************************)
(* A row that is published carries the counts of its own titles.           *)
(***************************************************************************)
Published(row, found) ==
  /\ IsList(row.query.titles) /\ row.query.titles # <<>>
  /\ row.gold = Len(NormalPairs(row.query.titles))
  /\ row.covered = {t \in Range(NormalPairs(row.query.titles)): Normal(t) \in found}

\* Every row that is published does.
LEMMA RowsArePublished ==
  ASSUME NEW r \in Feasible, NEW role \in Roles
  PROVE  /\ \A x \in DOMAIN AllRows(Chosen(r), role):
              Published(AllRows(Chosen(r), role)[x], Found(Selection(r)))
         /\ \A k \in DOMAIN Datasets: \A i \in DOMAIN Chosen(r)[role][k]:
              Published(Chosen(r)[role][k][i], Found(Selection(r)))
<1> DEFINE s == Chosen(r)[role]
           found == Found(Selection(r))
           all == AllRows(Chosen(r), role)
<1>1. /\ IsList(s) /\ Len(s) # 0 /\ DOMAIN s = DOMAIN Datasets
      /\ \A k \in DOMAIN s: IsList(s[k])
  BY ChosenIs, DatasetsAssumption
<1>2. ASSUME NEW k \in DOMAIN Datasets, NEW i \in DOMAIN s[k]
      PROVE  i \in DOMAIN Selected(r, role, k) /\ s[k][i] = Annotated(Selected(r, role, k)[i], found)
  BY DEF Chosen, AnnotatedRows, Selection
<1>3. ASSUME NEW k \in DOMAIN Datasets, NEW i \in DOMAIN s[k]
      PROVE  /\ IsList(s[k][i].query.titles)
             /\ s[k][i].gold = Len(NormalPairs(s[k][i].query.titles))
             /\ s[k][i].covered
                  = {t \in Range(NormalPairs(s[k][i].query.titles)): Normal(t) \in found}
  <2> DEFINE row == Selected(r, role, k)[i]
  <2>1. IsList(row.query.titles) /\ s[k][i] = Annotated(row, found)
    BY <1>2, TakenRows
  <2> HIDE DEF row, s, found
  <2>2. s[k][i].query = row.query /\ s[k][i].gold = Len(NormalPairs(row.query.titles))
        /\ s[k][i].covered = {t \in Range(NormalPairs(row.query.titles)): Normal(t) \in found}
    BY <2>1 DEF Annotated
  <2> QED
    BY <2>1, <2>2
<1>4. \A x \in DOMAIN all: all[x].query.titles # <<>>
  BY PublishedIsUsable
<1>5. all = FlattenSeq(s)
  BY DEF AllRows
<1> HIDE DEF s, found, all
<1>6. ASSUME NEW x \in DOMAIN all PROVE Published(all[x], found)
  <2>1. PICK k \in DOMAIN s: \E j \in DOMAIN s[k]: all[x] = s[k][j]
    BY <1>1, <1>5, FlatRows
  <2>2. PICK j \in DOMAIN s[k]: all[x] = s[k][j]
    BY <2>1
  <2> QED
    BY <1>1, <1>3, <1>4, <2>2 DEF Published
<1>7. ASSUME NEW k \in DOMAIN Datasets, NEW i \in DOMAIN s[k] PROVE Published(s[k][i], found)
  <2>1. PICK n \in Nat: StandsIn(s[k], all, n)
    BY <1>1, <1>5, PartsStand
  <2>2. n + i \in DOMAIN all /\ all[n + i] = s[k][i]
    BY <2>1 DEF StandsIn
  <2> QED
    BY <1>6, <2>2
<1> QED
  BY <1>6, <1>7 DEF s, found, all

\* The titles a preparation looks for.
Needed(r) == UNION {RequiredTitles(AllRows(Chosen(r), role)) : role \in Roles}

\* The titles a role needs are those of its rows, without their spellings.
LEMMA RequiredIs ==
  ASSUME NEW rows
  PROVE  RequiredTitles(rows) = UNION {Names(NormalPairs(rows[i].query.titles)) : i \in DOMAIN rows}
  BY DEF RequiredTitles, Names, Range

\* The scan finds, of the titles a preparation needs, those of the corpus.
LEMMA FoundIs ==
  ASSUME NEW r \in Feasible
  PROVE  Found(Selection(r)) = Needed(r) \cap Names(Corpus)
<1>1. ASSUME NEW role \in Roles
      PROVE  RequiredTitles(AllRows(Selection(r), role)) = RequiredTitles(AllRows(Chosen(r), role))
  <2> DEFINE a == AllRows(Selection(r), role)
             b == AllRows(Chosen(r), role)
  <2>1. DOMAIN a = DOMAIN b /\ \A x \in DOMAIN b: b[x].query = a[x].query
    BY SelectionIs
  <2> HIDE DEF a, b
  <2>2. {Names(NormalPairs(a[i].query.titles)) : i \in DOMAIN a}
          = {Names(NormalPairs(b[i].query.titles)) : i \in DOMAIN b}
    BY <2>1
  <2>3. RequiredTitles(a) = RequiredTitles(b)
    BY <2>2, RequiredIs
  <2> QED
    BY <2>3 DEF a, b
<1>2. {RequiredTitles(AllRows(Selection(r), role)) : role \in Roles}
        = {RequiredTitles(AllRows(Chosen(r), role)) : role \in Roles}
  BY <1>1
<1>3. Found(Selection(r)) = FoundTitles(Needed(r))
  BY <1>2 DEF Found, Needed
<1> QED
  BY <1>3, ScanIs

\* A preparation needs a title, finitely many, and those of every row it publishes.
LEMMA NeededIs ==
  ASSUME NEW r \in Feasible
  PROVE  /\ IsFiniteSet(Needed(r)) /\ Needed(r) # {}
         /\ \A role \in Roles: \A x \in DOMAIN AllRows(Chosen(r), role):
              Names(AllRows(Chosen(r), role)[x].query.titles) \subseteq Needed(r)
<1> DEFINE rows(role) == AllRows(Chosen(r), role)
           some(role) == {Names(NormalPairs(rows(role)[i].query.titles)) : i \in DOMAIN rows(role)}
<1>1. \A role \in Roles: RequiredTitles(rows(role)) = UNION some(role)
  BY RequiredIs
<1>2. ASSUME NEW role \in Roles, NEW x \in DOMAIN rows(role)
      PROVE  LET titles == rows(role)[x].query.titles
             IN /\ titles # <<>> /\ IsList(titles) /\ IsList(NormalPairs(titles))
                /\ IsNormal(NormalPairs(titles)) /\ Names(NormalPairs(titles)) = Names(titles)
  <2> DEFINE titles == rows(role)[x].query.titles
  <2>1. titles # <<>> /\ IsList(titles)
    BY RowsArePublished DEF Published
  <2> HIDE DEF titles
  <2>2. IsList(NormalPairs(titles)) /\ IsNormal(NormalPairs(titles))
        /\ Names(NormalPairs(titles)) = Names(titles)
    BY <2>1, EveryTitleOnce
  <2> QED
    BY <2>1, <2>2 DEF titles
<1>3. \A role \in Roles: \A x \in DOMAIN rows(role):
        Names(rows(role)[x].query.titles) \subseteq Needed(r)
  <2>1. TAKE role \in Roles
  <2>2. TAKE x \in DOMAIN rows(role)
  <2>3. Names(rows(role)[x].query.titles) \in some(role)
    BY <1>2
  <2>4. RequiredTitles(rows(role)) \subseteq Needed(r)
    BY DEF Needed
  <2> QED
    BY <1>1, <2>3, <2>4
<1>4. Needed(r) # {}
  <2> DEFINE all == rows("trainer_train")
             titles == all[1].query.titles
  <2>1. "trainer_train" \in Roles
    BY RolesAre
  <2>2. 1 \in DOMAIN all
    <3>1. Len(Datasets) \in Nat \ {0} /\ Slice(r, "trainer_train", 1).count \in Nat \ {0}
          /\ Len(all) = Slice(r, "trainer_train", 1).count * Len(Datasets)
      BY <2>1, CountsAreEqual, DatasetsAssumption
    <3>2. Len(all) >= 1
      BY <3>1
    <3>3. IsList(all)
      BY <2>1, AllRowsAreLists
    <3> QED
      BY <3>2, <3>3, ListIs
  <2>3. titles # <<>> /\ IsList(titles) /\ Names(titles) \subseteq Needed(r)
    BY <1>2, <1>3, <2>1, <2>2
  <2> HIDE DEF titles
  <2>4. titles[1] \in Range(titles)
    BY <2>3 DEF IsList, Range
  <2>5. Normal(titles[1]) \in Names(titles)
    BY <2>4 DEF Names
  <2> QED
    BY <2>3, <2>5
<1>5. IsFiniteSet(Needed(r))
  <2>1. ASSUME NEW role \in Roles PROVE IsFiniteSet(RequiredTitles(rows(role)))
    <3> DEFINE all == rows(role)
               I == DOMAIN all
               f == [i \in I |-> Names(NormalPairs(all[i].query.titles))]
    <3>1. IsFiniteSet(I)
      <4>1. IsList(all)
        BY AllRowsAreLists
      <4>2. Len(all) \in Nat /\ I = 1..Len(all)
        BY <4>1, ListIs
      <4> QED
        BY <4>2, FS_Interval
    <3>2. f \in Surjection(I, some(role))
      BY DEF Surjection
    <3>3. \A T \in some(role): IsFiniteSet(T)
      <4>1. ASSUME NEW i \in I PROVE IsFiniteSet(Names(NormalPairs(all[i].query.titles)))
        <5>1. IsList(NormalPairs(all[i].query.titles)) /\ IsNormal(NormalPairs(all[i].query.titles))
          BY <1>2
        <5> QED
          BY <5>1, CoveredCount
      <4> QED
        BY <4>1
    <3> HIDE DEF f, I, some
    <3>4. IsFiniteSet(some(role))
      BY <3>1, <3>2, FS_Surjection
    <3>5. IsFiniteSet(UNION some(role))
      BY <3>3, <3>4, FS_UNION
    <3> QED
      BY <1>1, <3>5
  <2> DEFINE sets == {RequiredTitles(rows(role)) : role \in Roles}
             g == [role \in Roles |-> RequiredTitles(rows(role))]
  <2>2. IsFiniteSet(Roles)
    <3>1. IsFiniteSet({"trainer_train"}) /\ IsFiniteSet({"trainer_validation"})
          /\ IsFiniteSet({"final_evaluation"})
      BY FS_Singleton
    <3>2. IsFiniteSet({"trainer_train"} \cup {"trainer_validation"} \cup {"final_evaluation"})
      BY <3>1, FS_Union
    <3>3. Roles = {"trainer_train"} \cup {"trainer_validation"} \cup {"final_evaluation"}
      BY RolesAre
    <3> QED
      BY <3>2, <3>3
  <2>3. g \in Surjection(Roles, sets)
    BY DEF Surjection
  <2>4. \A T \in sets: IsFiniteSet(T)
    BY <2>1
  <2>5. Needed(r) = UNION sets
    BY DEF Needed
  <2> HIDE DEF g, sets
  <2>6. IsFiniteSet(sets)
    BY <2>2, <2>3, FS_Surjection
  <2> QED
    BY <2>4, <2>5, <2>6, FS_UNION
<1> QED
  BY <1>3, <1>4, <1>5

\* A row that is published counts a gold title, and finds no more than it has.
LEMMA RowsAreCounted ==
  ASSUME NEW row, NEW found, Published(row, found)
  PROVE  Counted(row)
<1> DEFINE titles == row.query.titles
           p == NormalPairs(titles)
<1>1. IsList(titles) /\ titles # <<>> /\ row.gold = Len(p)
      /\ row.covered = {t \in Range(p): Normal(t) \in found}
  BY DEF Published
<1> HIDE DEF titles
<1>2. IsList(p) /\ IsNormal(p) /\ Names(p) = Names(titles)
  BY <1>1, EveryTitleOnce
<1> HIDE DEF p
<1>3. Cardinality(row.covered) \in Nat /\ Len(p) \in Nat /\ Cardinality(row.covered) <= Len(p)
  BY <1>1, <1>2, CoveredCount
<1>4. Len(p) # 0
  <2>1. titles[1] \in Range(titles)
    BY <1>1 DEF IsList, Range
  <2>2. Normal(titles[1]) \in Names(p)
    BY <1>2, <2>1 DEF Names
  <2>3. \E i \in DOMAIN p: TRUE
    BY <2>2 DEF Names, Range
  <2> QED
    BY <1>2, <2>3, ListIs
<1> QED
  BY <1>1, <1>3, <1>4 DEF Counted

(***************************************************************************)
(* The coverage a preparation writes passes the validator's test.          *)
(***************************************************************************)
LEMMA CoverageOfFeasible ==
  ASSUME NEW r \in Feasible
  PROVE  CoverageIsValid(Coverage(Chosen(r)), SplitContract(r, Chosen(r)))
<1> DEFINE coverage == Coverage(Chosen(r))
           contract == SplitContract(r, Chosen(r))
<1>1. /\ coverage.scanned = RowsScanned(Needed(r))
      /\ coverage.required = Cardinality(Needed(r))
      /\ coverage.matched = Cardinality(FoundTitles(Needed(r)))
      /\ \A role \in Roles:
           /\ coverage.all[role] = Summary(AllRows(Chosen(r), role))
           /\ \A k \in DOMAIN Datasets: coverage.each[role][k] = Summary(Chosen(r)[role][k])
  BY DEF Coverage, Needed
<1>2. IsFiniteSet(Needed(r)) /\ Needed(r) # {}
  BY NeededIs
<1>3. coverage.scanned >= 1
  BY <1>1, <1>2, ScanIs
<1>4. coverage.required >= 1
  <2>1. Cardinality(Needed(r)) \in Nat /\ Cardinality(Needed(r)) # 0
    BY <1>2, FS_CardinalityType, FS_EmptySet
  <2> QED
    BY <1>1, <2>1
<1>5. coverage.matched <= coverage.required
  <2>1. FoundTitles(Needed(r)) \in SUBSET Needed(r)
    BY ScanIs
  <2> QED
    BY <1>1, <1>2, <2>1, FS_Subset
<1>6. ASSUME NEW role \in Roles
      PROVE  SummaryIsValid(coverage.all[role], Len(contract.all[role].ids))
  <2> DEFINE all == AllRows(Chosen(r), role)
  <2>1. IsList(all) /\ Len(contract.all[role].ids) = Len(all)
    BY AllRowsAreLists, RecordedIds
  <2>2. \A i \in DOMAIN all: Counted(all[i])
    BY RowsArePublished, RowsAreCounted
  <2>3. coverage.all[role] = Summary(all)
    BY <1>1
  <2> HIDE DEF all, coverage, contract
  <2>4. SummaryIsValid(Summary(all), Len(all))
    BY <2>1, <2>2, SummaryPasses
  <2> QED
    BY <2>1, <2>3, <2>4
<1>7. ASSUME NEW role \in Roles, NEW k \in DOMAIN Datasets
      PROVE  SummaryIsValid(coverage.each[role][k], contract.each[role][k].slice.count)
  <2> DEFINE some == Chosen(r)[role][k]
  <2>1. IsList(some) /\ Len(some) = Slice(r, role, k).count
    BY ChosenIs
  <2>2. \A i \in DOMAIN some: Counted(some[i])
    BY RowsArePublished, RowsAreCounted
  <2>3. coverage.each[role][k] = Summary(some)
    BY <1>1
  <2>4. contract.each[role][k].slice = Slice(r, role, k)
    BY DEF SplitContract
  <2> HIDE DEF some, coverage, contract
  <2>5. SummaryIsValid(Summary(some), Len(some))
    BY <2>1, <2>2, SummaryPasses
  <2> QED
    BY <2>1, <2>3, <2>4, <2>5
<1> HIDE DEF coverage, contract
<1>8. CoverageIsValid(coverage, contract)
  BY <1>3, <1>4, <1>5, <1>6, <1>7 DEF CoverageIsValid
<1> QED
  BY <1>8 DEF coverage, contract

(***************************************************************************)
(* What prepare writes for a request it does not refuse, the validator     *)
(* that guards the cache and every reader accepts.                         *)
(***************************************************************************)
THEOREM ManifestsAreConsistent == Consistent = Feasible
<1>1. ASSUME NEW r \in Feasible PROVE IsConsistent(Output[r].manifest, r)
  <2>1. /\ Output[r].manifest.request = r
        /\ Output[r].manifest.contract = SplitContract(r, Chosen(r))
        /\ Output[r].manifest.coverage = Coverage(Chosen(r))
    BY OutputIs
  <2> QED
    BY <2>1, ContractOfFeasible, CoverageOfFeasible DEF IsConsistent
<1> QED
  BY <1>1 DEF Consistent

\* The rows of a dataset need titles that the preparation looks for.
LEMMA EachIsNeeded ==
  ASSUME NEW r \in Feasible, NEW role \in Roles, NEW k \in DOMAIN Datasets,
         NEW i \in DOMAIN Chosen(r)[role][k]
  PROVE  Names(Chosen(r)[role][k][i].query.titles) \subseteq Needed(r)
<1> DEFINE s == Chosen(r)[role]
           all == AllRows(Chosen(r), role)
<1>1. /\ IsList(s) /\ Len(s) # 0 /\ DOMAIN s = DOMAIN Datasets
      /\ \A j \in DOMAIN s: IsList(s[j])
  BY ChosenIs, DatasetsAssumption
<1>2. all = FlattenSeq(s)
  BY DEF AllRows
<1> HIDE DEF s, all
<1>3. PICK n \in Nat: StandsIn(s[k], all, n)
  BY <1>1, <1>2, PartsStand
<1>4. n + i \in DOMAIN all /\ all[n + i] = s[k][i]
  BY <1>3 DEF StandsIn, s
<1> QED
  BY <1>4, NeededIs DEF s, all

\* The coverage of published rows is that of their titles in the whole corpus.
LEMMA CoverageOfPublished ==
  ASSUME NEW r \in Feasible, NEW rows,
         \A i \in DOMAIN rows: Published(rows[i], Found(Selection(r))),
         \A i \in DOMAIN rows: Names(rows[i].query.titles) \subseteq Needed(r)
  PROVE  CoverageFits(rows, Summary(rows))
<1> DEFINE found == Found(Selection(r))
           inCorpus(row) == Names(row.query.titles) \cap Names(Corpus)
           matched == [i \in DOMAIN rows |-> Cardinality(rows[i].covered)]
<1>1. /\ \A i \in DOMAIN rows: Published(rows[i], found)
      /\ \A i \in DOMAIN rows: Names(rows[i].query.titles) \subseteq Needed(r)
  OBVIOUS
<1>2. found = Needed(r) \cap Names(Corpus)
  BY FoundIs
<1> HIDE DEF found
<1>3. ASSUME NEW i \in DOMAIN rows
      PROVE  /\ rows[i].gold = Cardinality(Names(rows[i].query.titles))
             /\ Cardinality(rows[i].covered) = Cardinality(inCorpus(rows[i]))
             /\ Cardinality(rows[i].covered) = rows[i].gold
                  <=> Names(rows[i].query.titles) \subseteq Names(Corpus)
  <2> DEFINE titles == rows[i].query.titles
             p == NormalPairs(titles)
  <2>1. /\ IsList(titles) /\ rows[i].gold = Len(p) /\ Names(titles) \subseteq Needed(r)
        /\ rows[i].covered = {t \in Range(p): Normal(t) \in found}
    BY <1>1 DEF Published
  <2> HIDE DEF titles
  <2>2. IsList(p) /\ IsNormal(p) /\ Names(p) = Names(titles)
    BY <2>1, EveryTitleOnce
  <2> HIDE DEF p
  <2>3. /\ Len(p) = Cardinality(Names(p))
        /\ Cardinality(rows[i].covered) = Cardinality(Names(p) \cap found)
        /\ Cardinality(rows[i].covered) = Len(p) <=> Names(p) \subseteq found
    BY <2>1, <2>2, CoveredCount
  <2>4. Names(p) \cap found = Names(titles) \cap Names(Corpus)
        /\ (Names(p) \subseteq found <=> Names(titles) \subseteq Names(Corpus))
    BY <1>2, <2>1, <2>2
  <2> QED
    BY <2>1, <2>2, <2>3, <2>4 DEF titles
<1>4. \A row \in Range(rows): row.gold = Cardinality(Names(row.query.titles))
  BY <1>3 DEF Range
<1>5. Summary(rows).matched = SumOf([i \in DOMAIN rows |-> Cardinality(inCorpus(rows[i]))])
  <2>1. matched = [i \in DOMAIN rows |-> Cardinality(inCorpus(rows[i]))]
    BY <1>3
  <2>2. Summary(rows).matched = SumOf(matched)
    BY DEF Summary
  <2> QED
    BY <2>1, <2>2
<1>6. Summary(rows).full
        = Cardinality({i \in DOMAIN rows: Names(rows[i].query.titles) \subseteq Names(Corpus)})
  <2>1. {i \in DOMAIN rows: matched[i] = rows[i].gold}
          = {i \in DOMAIN rows: Names(rows[i].query.titles) \subseteq Names(Corpus)}
    BY <1>3
  <2>2. Summary(rows).full = Cardinality({i \in DOMAIN rows: matched[i] = rows[i].gold})
    BY DEF Summary
  <2> QED
    BY <2>1, <2>2
<1> QED
  BY <1>4, <1>5, <1>6 DEF CoverageFits, Names

\* The ids the manifest of a request records for a role are those of its rows.
LEMMA ContractIds ==
  ASSUME NEW r \in Feasible, NEW role \in Roles
  PROVE  Range(Output[r].manifest.contract.all[role].ids) = Range(Ids(AllRows(Chosen(r), role)))
<1>1. Output[r].manifest.contract = SplitContract(r, Chosen(r))
  BY OutputIs
<1>2. Range(SplitContract(r, Chosen(r)).all[role].ids) = Range(Ids(AllRows(Chosen(r), role)))
  BY RecordedIds
<1> QED
  BY <1>1, <1>2

-----------------------------------------------------------------------------
(* A preparation that ends has left a cache that passes *)

\* What a reader accepts depends on the files and the manifest alone.
LEMMA CacheStays ==
  ASSUME files' = files, manifest' = manifest, NEW r
  PROVE  CacheValid(r)' <=> CacheValid(r)
<1>1. \A path, m: ArtifactIsValid(m, path)' <=> ArtifactIsValid(m, path)
  BY DEF ArtifactIsValid, Bytes
<1> QED
  BY <1>1 DEF CacheValid

DoneIsValid == prep.at = "done" => CacheValid(prep.request)

\* At the start nothing has been prepared.
LEMMA AcceptedStarts == Init => DoneIsValid
  BY DEF Init, NoPreparation, DoneIsValid

\* A preparation ends only on a cache that passes: its manifest is written last and fits
\* every file, or the cache was found valid. A later edit or start ends the claim.
LEMMA AcceptedHolds ==
  PreparationInv /\ DoneIsValid /\ [Next]_vars => DoneIsValid'
<1> SUFFICES ASSUME PreparationInv, DoneIsValid, [Next]_vars,
                    prep'.at = "done"
             PROVE  CacheValid(prep.request)'
  BY DEF DoneIsValid
<1>1. CASE Prepare
  <2>1. prep'.request = config /\ CacheValid(config) /\ files' = files /\ manifest' = manifest
        /\ config' = config
    BY <1>1 DEF Prepare
  <2>2. CacheValid(config)'
    BY <2>1, CacheStays
  <2> QED
    BY <2>1, <2>2 DEF CacheValid, ArtifactIsValid, Bytes
<1>2. CASE Commit
  <2>0. PICK r: r = prep.request
    OBVIOUS
  <2>1. /\ r \in Feasible /\ r \in Consistent /\ manifest' = {r} /\ files' = files /\ prep'.request = r
        /\ Promoted(Len(Paths))
    BY <1>2, <2>0, ManifestsAreConsistent DEF Commit, PreparationInv, PrepOK
  <2>2. \A path \in ArtifactPaths: path \in DOMAIN files /\ files[path] = r
    BY <2>0, <2>1, PathsAreListed DEF Promoted
  <2>3. \A path \in ArtifactPaths: ArtifactIsValid(Output[r].manifest, path)
    BY <2>1, <2>2, OwnFilesPass
  <2>4. \A path, m: ArtifactIsValid(m, path)' <=> ArtifactIsValid(m, path)
    BY <2>1 DEF ArtifactIsValid, Bytes
  <2>5. \A path \in ArtifactPaths: ArtifactIsValid(Output[r].manifest, path)'
    BY <2>3, <2>4
  <2> QED
    BY <2>1, <2>5 DEF CacheValid, ArtifactIsValid, Bytes
<1>3. CASE Promote
  <2>1. prep'.at # "done"
    BY <1>3 DEF Promote, PreparationInv, PrepOK
  <2> QED
    BY <2>1
<1>4. CASE CrashPreparation
  BY <1>4 DEF CrashPreparation, PreparationInv, PrepOK
<1>5. CASE UNCHANGED prepared
  <2>1. CacheValid(prep.request) /\ files' = files /\ manifest' = manifest /\ prep' = prep
    BY <1>5 DEF DoneIsValid, prepared
  <2> QED
    BY <2>1 DEF CacheValid, ArtifactIsValid, Bytes
<1>6. Prepare \/ Promote \/ Commit \/ CrashPreparation \/ UNCHANGED prepared
  BY DEF Next, vars, Load, Request, Replace, Record, Open, Verify, ReadRows, Edit, CrashDerivation,
         prepared
<1> QED
  BY <1>1, <1>2, <1>3, <1>4, <1>5, <1>6

-----------------------------------------------------------------------------
(* The derivation of paired rows *)

\* The files Search-R1 reads hold lists of rows.
LEMMA BytesAreLists ==
  ASSUME FilesOK, NEW path \in DOMAIN files, path[1] = "searchr1"
  PROVE  IsList(Bytes(path))
<1> DEFINE r == files[path]
<1>1. path \in ArtifactPaths /\ r \in Feasible
  BY DEF FilesOK
<1>2. RoleOf(path) \in Roles
  BY <1>1, PathsAre DEF RoleOf, NamesIn, Roles
<1>3. Bytes(path) = Contents(r, Chosen(r), path)
  BY <1>1, OutputIs DEF Bytes
<1> HIDE DEF r
<1>4. Contents(r, Chosen(r), path) = Parquet(r, Chosen(r), RoleOf(path))
  BY <1>2 DEF Contents, Roles
<1> QED
  BY <1>1, <1>2, <1>3, <1>4, ParquetIsList

\* The rows paired with their backends are a list.
LEMMA PairedIsList ==
  ASSUME NEW rows, IsList(rows), NEW mode
  PROVE  IsList(PairedRows(rows, mode))
<1> DEFINE pairs == [i \in DOMAIN rows |->
                       [b \in DOMAIN Backends |-> PairedRow(rows[i], Backends[b], mode)]]
<1>1. Len(rows) \in Nat /\ DOMAIN rows = 1..Len(rows)
  BY ListIs
<1>2. IsList(pairs)
  BY <1>1, SegmentIsList
<1>3. \A i \in DOMAIN pairs: IsList(pairs[i])
  <2>1. TAKE i \in DOMAIN pairs
  <2> DEFINE pair == [b \in 1..2 |-> PairedRow(rows[i], Backends[b], mode)]
  <2>2. DOMAIN Backends = 1..2
    BY DEF Backends
  <2>3. pairs[i] = pair
    BY <2>1, <2>2
  <2>4. IsList(pair)
    BY SegmentIsList
  <2> QED
    BY <2>3, <2>4
<1>4. PairedRows(rows, mode) = FlattenSeq(pairs)
  BY DEF PairedRows
<1> HIDE DEF pairs
<1> QED
  BY <1>2, <1>3, <1>4, FlatIsList

\* One thing or none.
AtMostOne(S) == S = {} \/ \E x \in S: S = {x}

DerivationOK ==
  /\ DOMAIN derived = Range(TrainingRoles) /\ DOMAIN sidecar = Range(TrainingRoles)
  /\ \A role \in Range(TrainingRoles):
       /\ AtMostOne(derived[role]) /\ AtMostOne(sidecar[role])
       /\ \A rows \in derived[role]: IsList(rows)
  /\ mix.at \in {"idle", "loaded", "requested", "replaced"}
  /\ mix.at # "idle" => mix.role \in Range(TrainingRoles) /\ IsList(mix.rows)
  /\ mix.at = "requested" =>
       mix = [at |-> "requested", role |-> mix.role, rows |-> mix.rows, request |-> mix.request]

\* Nothing is derived at the start.
LEMMA DerivationStarts == Init => DerivationOK
  BY DEF Init, DerivationOK, NoDerivation, AtMostOne

\* Every step keeps what is derived, the sidecars and the rows on hold lists of rows.
LEMMA DerivationHolds == PreparationInv /\ DerivationOK /\ [Next]_vars => DerivationOK'
<1> SUFFICES ASSUME PreparationInv, DerivationOK, [Next]_vars PROVE DerivationOK'
  OBVIOUS
<1>1. CASE \E role \in Range(TrainingRoles), mode \in Modes: Load(role, mode)
  <2>1. PICK role \in Range(TrainingRoles), mode \in Modes: Load(role, mode)
    BY <1>1
  <2>2. SourceOf(role) \in DOMAIN files /\ SourceOf(role)[1] = "searchr1"
    BY <2>1 DEF Load, SourceOf
  <2>3. IsList(Bytes(SourceOf(role)))
    BY <2>2, BytesAreLists DEF PreparationInv
  <2>4. mix' = [at |-> "loaded", role |-> role, mode |-> mode, rows |-> Bytes(SourceOf(role))]
        /\ derived' = derived /\ sidecar' = sidecar
    BY <2>1 DEF Load
  <2>5. mix'.at = "loaded" /\ mix'.role = role /\ mix'.rows = Bytes(SourceOf(role))
    BY <2>4
  <2> QED
    BY <2>3, <2>4, <2>5 DEF DerivationOK
<1>2. CASE Request
  <2>1. mix.role \in Range(TrainingRoles) /\ IsList(mix.rows)
    BY <1>2 DEF Request, DerivationOK
  <2>2. derived' = derived /\ sidecar' = sidecar
        /\ (mix' = NoDerivation
            \/ \E request: mix' = [at |-> "requested", role |-> mix.role, rows |-> mix.rows,
                                   request |-> request])
    BY <1>2 DEF Request
  <2> QED
    BY <2>1, <2>2 DEF DerivationOK, NoDerivation
<1>3. CASE Replace
  <2> DEFINE rows == Shuffled(PairedRows(mix.rows, mix.request.mode), mix.request.seed)
  <2>1. mix.role \in Range(TrainingRoles) /\ IsList(mix.rows)
        /\ mix = [at |-> "requested", role |-> mix.role, rows |-> mix.rows, request |-> mix.request]
    BY <1>3 DEF Replace, DerivationOK
  <2>2. IsList(rows)
    BY <2>1, PairedIsList, ShuffledIsList
  <2>3. derived' = [derived EXCEPT ![mix.role] = {rows}] /\ sidecar' = sidecar
        /\ mix' = [mix EXCEPT !.at = "replaced"]
    BY <1>3 DEF Replace
  <2> HIDE DEF rows
  <2>4. mix'.at = "replaced" /\ mix'.role = mix.role /\ mix'.rows = mix.rows
    BY <2>1, <2>3
  <2> QED
    BY <2>1, <2>2, <2>3, <2>4 DEF DerivationOK, AtMostOne
<1>4. CASE Record
  <2> DEFINE record(rows) == [request |-> mix.request, rows |-> 2 * Len(mix.rows), output |-> rows]
             records == {record(rows) : rows \in derived[mix.role]}
  <2>1. mix.role \in Range(TrainingRoles) /\ AtMostOne(derived[mix.role])
    BY <1>4 DEF Record, DerivationOK
  <2>2. AtMostOne(records)
    BY <2>1 DEF AtMostOne
  <2>3. derived' = derived /\ mix' = NoDerivation
        /\ sidecar' = [sidecar EXCEPT ![mix.role] = records]
    BY <1>4 DEF Record
  <2> HIDE DEF records
  <2> QED
    BY <2>1, <2>2, <2>3 DEF DerivationOK, NoDerivation
<1>5. CASE CrashDerivation
  BY <1>5 DEF CrashDerivation, DerivationOK, NoDerivation
<1>6. CASE UNCHANGED mixed
  BY <1>6 DEF mixed, DerivationOK
<1>7. \/ \E role \in Range(TrainingRoles), mode \in Modes: Load(role, mode)
      \/ Request \/ Replace \/ Record \/ CrashDerivation \/ UNCHANGED mixed
  BY DEF Next, vars, mixed, Prepare, Promote, Commit, Open, Verify, ReadRows, Edit, CrashPreparation
<1> QED
  BY <1>1, <1>2, <1>3, <1>4, <1>5, <1>6, <1>7

-----------------------------------------------------------------------------
(* The check of a training run's inputs *)

(***************************************************************************)
(* Rows that have passed as those of a role.                               *)
(***************************************************************************)
Passed(held, role, file, rows) ==
  LET ids == Output[held].manifest.contract.all[role].ids
  IN /\ IsList(rows) /\ Range(ParquetIds(rows)) = Range(ids)
     /\ IF file.kind = "direct" THEN IsInjective(ParquetIds(rows))
        ELSE DerivedRowsFit(rows, ids)

SeenOK(c) ==
  /\ c.step \in {1, 2} /\ c.input \in Inputs /\ c.held \in Feasible
  /\ IsList(c.seen) /\ Len(c.seen) = IF c.at = "accepted" THEN 2 ELSE c.step - 1
  /\ \A i \in 1..Len(c.seen): Passed(c.held, TrainingRoles[i], c.input[i], c.seen[i])

Readable(c) ==
  IF c.input[c.step].kind = "direct"
  THEN c.input[c.step].path \in DOMAIN files /\ c.record # {}
  ELSE c.input[c.step].kind = "derived" /\ c.record = {}

CheckOK ==
  \/ check = NoCheck
  \/ /\ check.at \in {"verify", "read", "accepted"} /\ SeenOK(check)
     /\ check.at = "read" => Readable(check)

\* No input is checked at the start.
LEMMA CheckStarts == Init => CheckOK
  BY DEF Init, CheckOK

\* Only a file that exists is taken for an artifact of a manifest.
LEMMA RegisteredIsThere ==
  ASSUME NEW path, NEW role, Registered(Artifacts, path, role) # {}
  PROVE  path \in DOMAIN files
<1>1. PICK a \in Artifacts: path \in DOMAIN a
  BY DEF Registered
<1>2. PICK r \in Verified: a = Output[r].manifest.artifacts
  BY <1>1 DEF Artifacts
<1>3. CacheValid(r) /\ r \in Feasible
  BY <1>2 DEF Verified, CacheValid, Consistent
<1>4. path \in ArtifactPaths
  BY <1>1, <1>2, <1>3, OutputIs
<1> QED
  BY <1>3, <1>4 DEF CacheValid, ArtifactIsValid

\* The check of the two inputs opens with nothing seen and one manifest on hold.
LEMMA OpenChecks ==
  ASSUME NEW input \in Inputs, Open(input)
  PROVE  CheckOK'
<1>1. config \in Feasible
  BY DEF Open, Verified, CacheValid, Consistent
<1> DEFINE c == [at |-> "verify", step |-> 1, input |-> input, held |-> config, seen |-> <<>>]
<1>2. check' = c
  BY DEF Open
<1>3. c.at = "verify" /\ SeenOK(c)
  <2>1. c.seen = <<>> /\ IsList(c.seen) /\ Len(c.seen) = 0
    BY DEF IsList
  <2>2. c.at = "verify" /\ c.step = 1 /\ c.input = input /\ c.held = config
    OBVIOUS
  <2> HIDE DEF c
  <2> QED
    BY <1>1, <2>1, <2>2 DEF SeenOK
<1> HIDE DEF c
<1> QED
  BY <1>2, <1>3 DEF CheckOK

\* The second reading of a manifest keeps the check on the preparation it holds.
LEMMA VerifyChecks ==
  ASSUME CheckOK, Verify
  PROVE  CheckOK'
<1> DEFINE file == CheckedFile
           direct == IF file.kind = "direct" THEN Registered(Artifacts, file.path, CheckedRole)
                     ELSE {}
           c == [at |-> "read", step |-> check.step, input |-> check.input,
                 held |-> check.held, seen |-> check.seen, record |-> direct]
<1>1. check.at = "verify" /\ SeenOK(check) /\ files' = files
  BY DEF Verify, CheckOK, NoCheck, prepared
<1>2. \/ check' = NoCheck
      \/ /\ check' = c
         /\ direct # {} \/ file.kind = "derived"
  BY DEF Verify, AfterVerifying
<1>3. ASSUME check' = c, direct # {} \/ file.kind = "derived"
      PROVE  CheckOK'
  <2>1. c.at = "read" /\ c.step = check.step /\ c.input = check.input /\ c.held = check.held
        /\ c.seen = check.seen /\ c.record = direct
    OBVIOUS
  <2>2. SeenOK(c)
    BY <1>1, <2>1 DEF SeenOK
  <2>3. file = c.input[c.step]
    BY <2>1 DEF CheckedFile
  <2>4. direct # {} => file.kind = "direct" /\ file.path \in DOMAIN files
    BY RegisteredIsThere
  <2>5. file.kind = "derived" => direct = {}
    OBVIOUS
  <2> HIDE DEF c, file, direct
  <2>6. Readable(c)
    BY <1>3, <2>1, <2>3, <2>4, <2>5 DEF Readable
  <2>7. check'.at = "read" /\ SeenOK(check)'
    BY <1>3, <2>1, <2>2 DEF SeenOK
  <2>8. Readable(check)'
    BY <1>1, <1>3, <2>6 DEF Readable
  <2> QED
    BY <2>7, <2>8 DEF CheckOK
<1> QED
  BY <1>2, <1>3 DEF CheckOK, NoCheck

\* Reading the rows of an input adds rows that fit the contract on hold, although the file
\* may have been replaced since it was verified.
LEMMA ReadChecks ==
  ASSUME FilesOK, DerivationOK, CheckOK, ReadRows
  PROVE  CheckOK'
<1> DEFINE file == CheckedFile
<1>1. check.at = "read" /\ SeenOK(check) /\ Readable(check)
  BY DEF ReadRows, CheckOK, NoCheck
<1>2. PICK rows \in RowsOf(file):
        check' = IF ~(IsParquet(file) /\ RowsFit(rows, CheckedRole, check.record))
                 THEN NoCheck
                 ELSE [at |-> IF check.step = 2 THEN "accepted" ELSE "verify",
                       step |-> IF check.step = 2 THEN 1 ELSE 2, input |-> check.input,
                       held |-> check.held, seen |-> Append(check.seen, rows)]
  BY DEF ReadRows
<1>3. CASE ~(IsParquet(file) /\ RowsFit(rows, CheckedRole, check.record))
  BY <1>2, <1>3 DEF CheckOK
<1>4. CASE IsParquet(file) /\ RowsFit(rows, CheckedRole, check.record)
  <2> DEFINE c == [at |-> IF check.step = 2 THEN "accepted" ELSE "verify",
                   step |-> IF check.step = 2 THEN 1 ELSE 2, input |-> check.input,
                   held |-> check.held, seen |-> Append(check.seen, rows)]
  <2>1. check' = c
    BY <1>2, <1>4
  <2>2. file = check.input[check.step] /\ check.step \in {1, 2} /\ check.input \in Inputs
        /\ (file.kind = "direct" \/ file.kind = "derived")
    BY <1>1 DEF CheckedFile, SeenOK, Readable
  <2>3. IsList(rows)
    <3>1. CASE file.kind = "direct"
      <4>1. file.path \in DOMAIN files /\ file.path[1] = "searchr1" /\ rows = Bytes(file.path)
        BY <1>1, <1>4, <2>2, <3>1 DEF Readable, IsParquet, RowsOf
      <4> QED
        BY <4>1, BytesAreLists
    <3>2. CASE file.kind = "derived"
      <4>1. file.of \in Range(TrainingRoles) /\ rows \in derived[file.of]
        BY <2>2, <3>2, InputsAssumption DEF RowsOf
      <4> QED
        BY <4>1 DEF DerivationOK
    <3> QED
      BY <2>2, <3>1, <3>2
  <2>4. Passed(check.held, CheckedRole, file, rows)
    <3>1. file.kind = "direct" <=> check.record # {}
      BY <1>1, <2>2 DEF Readable
    <3> QED
      BY <1>4, <2>3, <3>1 DEF RowsFit, Held, DirectRowsFit, Passed
  <2>5. /\ IsList(check.seen) /\ Len(check.seen) = check.step - 1
        /\ \A i \in 1..Len(check.seen):
             Passed(check.held, TrainingRoles[i], check.input[i], check.seen[i])
    BY <1>1 DEF SeenOK
  <2> DEFINE seen == Append(check.seen, rows)
  <2>6. IsList(seen) /\ Len(seen) = check.step /\ seen[check.step] = rows
        /\ \A i \in 1..(check.step - 1): seen[i] = check.seen[i]
    <3>1. check.seen \in Seq(Range(check.seen) \cup {rows})
      BY <2>5 DEF IsList
    <3>2. seen \in Seq(Range(check.seen) \cup {rows}) /\ Len(seen) = check.step
          /\ seen[check.step] = rows /\ \A i \in 1..(check.step - 1): seen[i] = check.seen[i]
      BY <2>2, <2>5, <3>1
    <3>3. IsList(seen)
      BY <3>2, ListOf
    <3> QED
      BY <3>2, <3>3
  <2> HIDE DEF seen
  <2>7. \A i \in 1..Len(seen): Passed(check.held, TrainingRoles[i], check.input[i], seen[i])
    <3>1. TAKE i \in 1..Len(seen)
    <3>2. CASE i = check.step
      BY <2>2, <2>4, <2>6, <3>2 DEF CheckedRole
    <3>3. CASE i # check.step
      <4>1. i \in 1..(check.step - 1) /\ i \in 1..Len(check.seen)
        BY <2>2, <2>5, <2>6, <3>1, <3>3
      <4> QED
        BY <2>5, <2>6, <4>1
    <3> QED
      BY <3>2, <3>3
  <2>8. /\ c.at = (IF check.step = 2 THEN "accepted" ELSE "verify")
        /\ c.step = (IF check.step = 2 THEN 1 ELSE 2)
        /\ c.input = check.input /\ c.held = check.held /\ c.seen = seen
    BY DEF seen
  <2> HIDE DEF c
  <2>9. c.at \in {"verify", "accepted"} /\ SeenOK(c)
    <3>1. c.at \in {"verify", "accepted"} /\ c.step \in {1, 2}
          /\ Len(seen) = IF c.at = "accepted" THEN 2 ELSE c.step - 1
      BY <2>2, <2>6, <2>8
    <3> QED
      BY <1>1, <2>6, <2>7, <2>8, <3>1 DEF SeenOK
  <2> QED
    BY <2>1, <2>9 DEF CheckOK, SeenOK
<1> QED
  BY <1>3, <1>4

\* Every step keeps the account of the check.
LEMMA CheckHolds ==
  PreparationInv /\ DerivationOK /\ CheckOK /\ [Next]_vars => CheckOK'
<1> SUFFICES ASSUME PreparationInv, DerivationOK, CheckOK, [Next]_vars PROVE CheckOK'
  OBVIOUS
<1>1. CASE \E input \in Inputs: Open(input)
  BY <1>1, OpenChecks
<1>2. CASE Verify
  BY <1>2, VerifyChecks
<1>3. CASE ReadRows
  BY <1>3, ReadChecks DEF PreparationInv
<1>4. CASE check' = check /\ DOMAIN files \subseteq DOMAIN files'
  BY <1>4 DEF CheckOK, SeenOK, Readable
<1>5. CASE Promote
  <2>1. check' = check /\ DOMAIN files \subseteq DOMAIN files'
    BY <1>5 DEF Promote
  <2> QED
    BY <1>4, <2>1
<1>6. CASE Prepare \/ Commit \/ Edit \/ CrashPreparation
  BY <1>4, <1>6 DEF Prepare, Commit, Edit, CrashPreparation, prepared
<1>7. CASE \E role \in Range(TrainingRoles), mode \in Modes: Load(role, mode)
  BY <1>4, <1>7 DEF Load, prepared
<1>8. CASE Request \/ Replace \/ Record \/ CrashDerivation
  BY <1>4, <1>8 DEF Request, Replace, Record, CrashDerivation, prepared
<1>9. CASE UNCHANGED vars
  BY <1>4, <1>9 DEF vars, prepared
<1> QED
  BY <1>1, <1>2, <1>3, <1>5, <1>6, <1>7, <1>8, <1>9 DEF Next

-----------------------------------------------------------------------------
(* What is accepted is clean *)

\* A list without repetitions has as many values as places.
LEMMA CountOfList ==
  ASSUME NEW s, IsList(s), IsInjective(s)
  PROVE  Cardinality(Range(s)) = Len(s)
<1>1. Len(s) \in Nat /\ DOMAIN s = 1..Len(s)
  BY ListIs
<1> DEFINE n == Len(s)
           S == 1..n
           f == [i \in S |-> s[i]]
<1>2. IsFiniteSet(S) /\ Cardinality(S) = n
  <2>1. n \in Nat
    BY <1>1
  <2> HIDE DEF n
  <2> QED
    BY <2>1, FS_Interval
<1>3. f \in Surjection(S, Range(s)) /\ f \in Injection(S, Range(s))
  BY <1>1 DEF Surjection, Injection, IsInjective, Range
<1> HIDE DEF S, f
<1> QED
  BY <1>2, <1>3, FS_Surjection

\* The ids a reader takes from rows are those of the rows.
LEMMA IdsOfRows ==
  ASSUME NEW rows, IsList(rows)
  PROVE  /\ IsList(ParquetIds(rows)) /\ Len(ParquetIds(rows)) = Len(rows)
         /\ \A i \in DOMAIN rows: ParquetIds(rows)[i] = rows[i].id
         /\ Range(ParquetIds(rows)) = {row.id : row \in Range(rows)}
<1>1. Len(rows) \in Nat /\ DOMAIN rows = 1..Len(rows)
  BY ListIs
<1>2. IsList(ParquetIds(rows)) /\ Len(ParquetIds(rows)) = Len(rows)
  BY <1>1, SegmentIsList DEF ParquetIds
<1>3. Range(ParquetIds(rows)) = {row.id : row \in Range(rows)}
  BY DEF Range, ParquetIds
<1> QED
  BY <1>2, <1>3 DEF ParquetIds

(***************************************************************************)
(* The rows of a question differ: each has a backend of its own.           *)
(***************************************************************************)
LEMMA PairsDiffer ==
  ASSUME NEW rows, IsList(rows), NEW ids, DerivedRowsFit(rows, ids)
  PROVE  IsInjective(rows)
<1>1. SUFFICES ASSUME NEW i \in DOMAIN rows, NEW j \in DOMAIN rows, rows[i] = rows[j], i # j
               PROVE  FALSE
  BY DEF IsInjective
<1> DEFINE S == {k \in DOMAIN rows: rows[k].id = rows[i].id}
<1>2. rows[i] \in Range(rows)
  BY DEF Range
<1>3. Cardinality(S) = 2
      /\ {other.route : other \in {r \in Range(rows): r.id = rows[i].id}} = Range(Backends)
  BY <1>2 DEF DerivedRowsFit
<1>4. IsFiniteSet(S)
  <2>1. Len(rows) \in Nat /\ DOMAIN rows = 1..Len(rows)
    BY ListIs
  <2>2. IsFiniteSet(DOMAIN rows) /\ S \in SUBSET DOMAIN rows
    BY <2>1, FS_Interval
  <2> QED
    BY <2>2, FS_Subset
<1>5. S = {i, j}
  <2>1. {i, j} \in SUBSET S
    BY <1>1
  <2>2. Cardinality({i, j}) = 2
    <3>1. IsFiniteSet({i}) /\ Cardinality({i}) = 1
      BY FS_Singleton
    <3>2. Cardinality({i} \cup {j}) = 2
      <4>1. j \notin {i}
        BY <1>1
      <4>2. Cardinality({i} \cup {j}) = Cardinality({i}) + 1
        BY <3>1, <4>1, FS_AddElement
      <4> QED
        BY <3>1, <4>2
    <3>3. {i} \cup {j} = {i, j}
      OBVIOUS
    <3> QED
      BY <3>2, <3>3
  <2> HIDE DEF S
  <2> QED
    BY <1>3, <1>4, <2>1, <2>2, FS_Subset
<1>6. \A other \in {r \in Range(rows): r.id = rows[i].id}: other = rows[i]
  BY <1>1, <1>5 DEF Range
<1>7. Range(Backends) \subseteq {rows[i].route}
  BY <1>3, <1>6
<1>8. "bm25" \in Range(Backends) /\ "e5" \in Range(Backends)
  BY DEF Backends, Range
<1> QED
  BY <1>7, <1>8

\* Rows that pass for an input are the rows of its role, once, or once for each backend.
LEMMA PassedIsClean ==
  ASSUME NEW r \in Feasible, NEW role \in Range(TrainingRoles), NEW file, NEW rows,
         Passed(r, role, file, rows)
  PROVE  /\ {row.id : row \in Range(rows)} = Range(Ids(AllRows(Chosen(r), role)))
         /\ IsInjective(rows)
         /\ file.kind = "direct" => Len(rows) = Cardinality({row.id : row \in Range(rows)})
         /\ file.kind # "direct" =>
              {<<row.id, row.route>> : row \in Range(rows)}
                = {row.id : row \in Range(rows)} \X Range(Backends)
<1> DEFINE ids == Output[r].manifest.contract.all[role].ids
           held == {row.id : row \in Range(rows)}
<1>1. /\ IsList(rows) /\ Range(ParquetIds(rows)) = Range(ids)
      /\ file.kind = "direct" => IsInjective(ParquetIds(rows))
      /\ file.kind # "direct" => DerivedRowsFit(rows, ids)
  BY DEF Passed
<1>2. Range(ids) = Range(Ids(AllRows(Chosen(r), role)))
  BY ContractIds, RolesAre
<1>3. Range(ParquetIds(rows)) = held /\ IsList(ParquetIds(rows))
      /\ Len(ParquetIds(rows)) = Len(rows)
      /\ \A i \in DOMAIN rows: i \in DOMAIN ParquetIds(rows) /\ ParquetIds(rows)[i] = rows[i].id
  BY <1>1, IdsOfRows DEF ParquetIds
<1> HIDE DEF ids
<1>4. CASE file.kind = "direct"
  <2>1. IsInjective(ParquetIds(rows))
    BY <1>1, <1>4
  <2>2. IsInjective(rows)
    BY <1>3, <2>1 DEF IsInjective
  <2>3. Len(rows) = Cardinality(held)
    BY <1>3, <2>1, CountOfList
  <2> QED
    BY <1>1, <1>2, <1>3, <1>4, <2>2, <2>3
<1>5. CASE file.kind # "direct"
  <2>1. DerivedRowsFit(rows, ids)
    BY <1>1, <1>5
  <2>2. IsInjective(rows)
    BY <1>1, <2>1, PairsDiffer
  <2>3. {<<row.id, row.route>> : row \in Range(rows)} \subseteq held \X Range(Backends)
    <3>1. \A row \in Range(rows): row.route \in Range(Backends) /\ row.id \in held
      BY <2>1 DEF DerivedRowsFit
    <3> QED
      BY <3>1
  <2>4. ASSUME NEW id \in held, NEW backend \in Range(Backends)
        PROVE  \E row \in Range(rows): row.id = id /\ row.route = backend
    <3>1. PICK row \in Range(rows): row.id = id
      OBVIOUS
    <3>2. {other.route : other \in {x \in Range(rows): x.id = row.id}} = Range(Backends)
      BY <2>1 DEF DerivedRowsFit
    <3> QED
      BY <3>1, <3>2
  <2>5. held \X Range(Backends) \subseteq {<<row.id, row.route>> : row \in Range(rows)}
    BY <2>4
  <2>6. {<<row.id, row.route>> : row \in Range(rows)} = held \X Range(Backends)
    BY <2>3, <2>5
  <2> QED
    BY <1>1, <1>2, <1>3, <1>5, <2>2, <2>6
<1> QED
  BY <1>4, <1>5

\* The questions behind some ids of a role are questions of the role.
LEMMA AskedIsPart ==
  ASSUME NEW all, NEW ids
  PROVE  {Normal(row.query.question) : row \in {x \in Range(all): x.query.id \in ids}}
           \subseteq Range(Questions(all))
<1>1. \A row \in Range(all): Normal(row.query.question) \in Range(Questions(all))
  BY DEF Range, Questions
<1> QED
  BY <1>1

\* Two inputs that are accepted are clean: the last step of the argument.
LEMMA AcceptedIsClean == CheckOK => AcceptedInputsAreClean
<1> SUFFICES ASSUME CheckOK, check.at = "accepted"
             PROVE  InputsAreClean(Output[check.held].roles)
  BY DEF AcceptedInputsAreClean
<1> DEFINE r == check.held
           roles == Output[r].roles
           rows(step) == Range(check.seen[step])
           ids(step) == {row.id : row \in rows(step)}
           role(step) == roles[TrainingRoles[step]]
           asked(step) == {Normal(row.query.question) :
                             row \in {x \in Range(role(step)): x.query.id \in ids(step)}}
<1>1. /\ r \in Feasible /\ Len(check.seen) = 2
      /\ \A i \in {1, 2}: Passed(r, TrainingRoles[i], check.input[i], check.seen[i])
  BY DEF CheckOK, SeenOK, NoCheck
<1>2. r \in Feasible /\ \A role_ \in Roles: roles[role_] = AllRows(Chosen(r), role_)
  BY <1>1, OutputIs
<1>3. \A i \in {1, 2}: TrainingRoles[i] \in Range(TrainingRoles) /\ TrainingRoles[i] \in Roles
  BY RolesAre DEF Range
<1>4. \A i \in {1, 2}: role(i) = AllRows(Chosen(r), TrainingRoles[i])
  BY <1>2, <1>3
<1>5. ASSUME NEW i \in {1, 2}
      PROVE  /\ ids(i) = Range(Ids(role(i))) /\ IsInjective(check.seen[i])
             /\ IF check.input[i].kind = "direct"
                THEN Len(check.seen[i]) = Cardinality(ids(i))
                ELSE {<<row.id, row.route>> : row \in rows(i)} = ids(i) \X Range(Backends)
  <2> DEFINE name == TrainingRoles[i]
             file == check.input[i]
             list == check.seen[i]
  <2>1. Passed(r, name, file, list) /\ name \in Range(TrainingRoles) /\ r \in Feasible
        /\ role(i) = AllRows(Chosen(r), name)
    BY <1>1, <1>3, <1>4
  <2> HIDE DEF r, name, file, list, role
  <2>2. /\ {row.id : row \in Range(list)} = Range(Ids(AllRows(Chosen(r), name)))
        /\ IsInjective(list)
        /\ file.kind = "direct" => Len(list) = Cardinality({row.id : row \in Range(list)})
        /\ file.kind # "direct" =>
             {<<row.id, row.route>> : row \in Range(list)}
               = {row.id : row \in Range(list)} \X Range(Backends)
    BY <2>1, PassedIsClean
  <2> QED
    BY <2>1, <2>2 DEF file, list
<1>6. \A i \in {1, 2}: asked(i) \subseteq Range(Questions(role(i)))
  BY AskedIsPart
<1>7. roles["final_evaluation"] = AllRows(Chosen(r), "final_evaluation")
  BY <1>2, RolesAre
<1>8. \A i \in {1, 2}: Range(Questions(role(i))) \cap Range(Questions(roles["final_evaluation"])) = {}
  <2>1. TAKE i \in {1, 2}
  <2>2. TrainingRoles[i] # "final_evaluation" /\ "final_evaluation" \in Roles
    BY <2>1, RolesAre DEF TrainingRoles
  <2> QED
    BY <1>1, <1>3, <1>4, <1>7, <2>2, PublishedIsUsable DEF AreDisjoint
<1>9. Range(Questions(role(1))) \cap Range(Questions(role(2))) = {}
  <2>1. TrainingRoles[1] # TrainingRoles[2]
    BY DEF TrainingRoles
  <2> QED
    BY <1>1, <1>3, <1>4, <2>1, PublishedIsUsable DEF AreDisjoint
<1>10. \A i \in {1, 2}: asked(i) \cap Range(Questions(roles["final_evaluation"])) = {}
  BY <1>6, <1>8
<1>11. asked(1) \cap asked(2) = {}
  BY <1>6, <1>9
<1> QED
  BY <1>5, <1>10, <1>11 DEF InputsAreClean

-----------------------------------------------------------------------------
(* The theorems *)

DataInv == PreparationInv /\ DoneIsValid /\ DerivationOK /\ CheckOK

\* One thing or none is at most one.
LEMMA AtMostOneIs ==
  ASSUME NEW S, AtMostOne(S)
  PROVE  Cardinality(S) <= 1
<1>1. Cardinality({}) = 0 /\ \A x: Cardinality({x}) = 1
  BY FS_EmptySet, FS_Singleton
<1>2. Cardinality(S) = 0 \/ Cardinality(S) = 1
  BY <1>1, Zenon DEF AtMostOne
<1> QED
  BY <1>2

\* The types of the variables follow from the invariant.
LEMMA TypesFollow == DataInv => TypeOK
<1> SUFFICES ASSUME DataInv PROVE TypeOK
  OBVIOUS
<1> USE DEF DataInv, PreparationInv
<1>1. /\ config \in Requests /\ prep.request \in Requests
      /\ prep.at \in {"idle", "promote", "commit", "done", "refused"}
      /\ prep.next \in DOMAIN Paths /\ edits \in 0..MaxEdits /\ crashes \in 0..MaxCrashes
  BY PathsAreListed DEF PrepOK
<1>2. DOMAIN files \subseteq ArtifactPaths /\ Cardinality(manifest) <= 1
  BY AtMostOneIs DEF FilesOK, AtMostOne
<1>3. /\ \A role \in Range(TrainingRoles):
           Cardinality(derived[role]) <= 1 /\ Cardinality(sidecar[role]) <= 1
      /\ mix.at \in {"idle", "loaded", "requested", "replaced"}
  BY AtMostOneIs DEF DerivationOK
<1>4. check.at \in {"idle", "verify", "read", "accepted"}
  BY DEF CheckOK, NoCheck
<1> QED
  BY <1>1, <1>2, <1>3, <1>4 DEF TypeOK

\* What is on disk under an accepted manifest is what its preparation staged.
LEMMA TrustedIsStaged ==
  ASSUME NEW r \in Verified, NEW path \in ArtifactPaths
  PROVE  r \in Feasible /\ Bytes(path) = Contents(r, Chosen(r), path)
<1>1. r \in Feasible /\ ArtifactIsValid(Output[r].manifest, path)
  BY DEF Verified, CacheValid, Consistent
<1>2. Output[r].manifest.artifacts[path].digest = Contents(r, Chosen(r), path)
  <2>1. /\ Output[r].manifest.artifacts[path] = Artifact(Output[r].files[path], path)
        /\ Output[r].files[path] = Contents(r, Chosen(r), path)
    BY <1>1, OutputIs
  <2> QED
    BY <2>1 DEF Artifact
<1> QED
  BY <1>1, <1>2 DEF ArtifactIsValid

(***************************************************************************)
(* Every reachable state satisfies the invariant: what is on disk, the     *)
(* preparation, its derivations and the check of two inputs, whatever      *)
(* starts, dies, edits or replaces files in between.                       *)
(***************************************************************************)
THEOREM Invariance == Spec => []DataInv
<1>1. Init => DataInv
  BY PreparationStarts, AcceptedStarts, DerivationStarts, CheckStarts DEF DataInv
<1>2. DataInv /\ [Next]_vars => DataInv'
  BY PreparationHolds, AcceptedHolds, DerivationHolds, CheckHolds DEF DataInv
<1> QED
  BY <1>1, <1>2, PTL DEF Spec

\* A step that changes what the test says of a cache is a rename of a preparation
\* that can be met, and one that breaks it renames for another request.
LEMMA VerdictSteps ==
  ASSUME PreparationInv, [Next]_vars, NEW r \in Requests
  PROVE  VerdictStep(r)
<1> SUFFICES ASSUME CacheValid(r) # CacheValid(r)'
             PROVE  /\ prep.at \in {"promote", "commit"} /\ prep.request \in Feasible
                    /\ CacheValid(r) => prep.request # r
  BY DEF VerdictStep
<1>1. ~(files' = files /\ manifest' = manifest)
  <2>1. SUFFICES ASSUME files' = files, manifest' = manifest PROVE FALSE
    OBVIOUS
  <2>2. CacheValid(r)' <=> CacheValid(r)
    BY <2>1, CacheStays
  <2>3. CacheValid(r) \in BOOLEAN /\ CacheValid(r)' \in BOOLEAN
    BY Zenon DEF CacheValid
  <2> QED
    BY <2>2, <2>3
<1>2. Promote \/ Commit
  BY <1>1 DEF Next, vars, prepared, Prepare, Load, Request, Replace, Record, Open, Verify,
              ReadRows, Edit, CrashPreparation, CrashDerivation
<1>3. prep.at \in {"promote", "commit"} /\ prep.request \in Feasible
  BY <1>2 DEF Promote, Commit, PreparationInv, PrepOK
<1>4. ASSUME CacheValid(r), prep.request = r PROVE FALSE
  <2>1. r \in manifest /\ r \in Consistent /\ (manifest = {} \/ \E q \in Feasible: manifest = {q})
    BY <1>4 DEF CacheValid, PreparationInv, FilesOK
  <2>2. manifest = {r}
    BY <2>1
  <2>3. ASSUME NEW path \in ArtifactPaths
        PROVE  ArtifactIsValid(Output[r].manifest, path)'
    <3> DEFINE m == Output[r].manifest
    <3>1. ArtifactIsValid(m, path)
      BY <1>4, <2>3, Zenon DEF CacheValid
    <3>2. ArtifactIsValid(m, path) /\ path \in DOMAIN files
      BY <3>1 DEF ArtifactIsValid
    <3>3. m.artifacts[path].digest = Output[r].files[path]
      <4>1. m.artifacts[path] = Artifact(Output[r].files[path], path)
        BY <1>3, <1>4, OutputIs
      <4> QED
        BY <4>1 DEF Artifact
    <3>4. path \in DOMAIN files' /\ (files'[path] = files[path] \/ files'[path] = r)
      BY <1>2, <1>4, <3>2 DEF Promote, Commit
    <3>5. Output[files'[path]].files[path] = m.artifacts[path].digest
      BY <3>2, <3>3, <3>4 DEF ArtifactIsValid, Bytes
    <3> HIDE DEF m
    <3>6. ArtifactIsValid(m, path)'
      BY <3>2, <3>4, <3>5 DEF ArtifactIsValid, Bytes, m
    <3> QED
      BY <3>6 DEF m
  <2>4. manifest' = {r}
    BY <1>2, <1>4, <2>2 DEF Promote, Commit
  <2>5. CacheValid(r)'
    BY <2>1, <2>3, <2>4 DEF CacheValid
  <2> QED
    BY <1>4, <2>5, Zenon
<1> QED
  BY <1>3, <1>4

(***************************************************************************)
(* What the test says of a cache changes in the renames of a preparation   *)
(* that can be met, and a cache that passes is broken only by those of     *)
(* another request: not by a refused or repeated preparation, a kill, an   *)
(* edit, a derivation or a check.                                          *)
(***************************************************************************)
THEOREM AcceptedCacheStands == Spec => VerdictChangesInRenames
<1>1. DataInv /\ [Next]_vars => [\A request \in Requests: VerdictStep(request)]_vars
  BY VerdictSteps DEF DataInv
<1> QED
  BY <1>1, Invariance, PTL DEF Spec, VerdictChangesInRenames

(***************************************************************************)
(* A preparation that ends has left a cache that prepare, --check and      *)
(* every reader accept, whether it made the cache or found it.             *)
(***************************************************************************)
THEOREM WhatIsPreparedIsAccepted == Spec => []PreparationIsAccepted
<1>1. DataInv => PreparationIsAccepted
  BY TypesFollow DEF DataInv, DoneIsValid, PreparationIsAccepted
<1> QED
  BY <1>1, Invariance, PTL

\* The files a preparation writes for its datasets hold their published rows.
LEMMA RoleFiles ==
  ASSUME NEW r \in Feasible, NEW role \in Roles, NEW k \in DOMAIN Datasets
  PROVE  /\ <<Datasets[k], RoleFile[role]>> \in ArtifactPaths
         /\ Contents(r, Chosen(r), <<Datasets[k], RoleFile[role]>>) = Chosen(r)[role][k]
<1> DEFINE path == <<Datasets[k], RoleFile[role]>>
<1>1. Datasets[k] \in Range(Datasets) /\ Datasets[k] \notin {"data", "searchr1"}
  BY DatasetsAssumption DEF Range
<1>2. RoleFile[role] \in {"train", "dev", "final_eval"} /\ RoleOf(path) = role
  BY RolesAre DEF RoleFile, RoleOf
<1>3. path \in ArtifactPaths
  BY <1>1, <1>2 DEF ArtifactPaths, Places, NamesIn
<1>4. (CHOOSE j \in DOMAIN Datasets: Datasets[j] = Datasets[k]) = k
  BY DatasetsAssumption DEF IsInjective
<1>5. path[1] = Datasets[k] /\ role # "metadata"
  BY RolesAre
<1> HIDE DEF path
<1>6. Contents(r, Chosen(r), path) = Chosen(r)[role][k]
  BY <1>1, <1>2, <1>4, <1>5 DEF Contents
<1> QED
  BY <1>3, <1>6 DEF path

(***************************************************************************)
(* The coverage in a manifest that is trusted is that of the titles of the *)
(* rows that are on disk in the whole corpus, although the scan stops      *)
(* early, a title may be spelled in several ways and preparations of other *)
(* requests have been killed between their renames.                        *)
(***************************************************************************)
THEOREM CoverageIsThatOfTheCorpus == Spec => []CoverageIsExact
<1>1. CoverageIsExact
  <2> SUFFICES ASSUME NEW r \in Verified
               PROVE  LET coverage == Output[r].manifest.coverage
                      IN /\ CoverageFits(Bytes(<<"data", "final_eval">>),
                                         coverage.all["final_evaluation"])
                         /\ \A role \in Roles, k \in DOMAIN Datasets:
                              CoverageFits(Bytes(<<Datasets[k], RoleFile[role]>>),
                                           coverage.each[role][k])
    BY DEF CoverageIsExact
  <2> DEFINE coverage == Output[r].manifest.coverage
  <2>1. r \in Feasible
    BY DEF Verified, CacheValid, Consistent
  <2>2. /\ coverage.all["final_evaluation"] = Summary(AllRows(Chosen(r), "final_evaluation"))
        /\ \A role \in Roles, k \in DOMAIN Datasets:
             coverage.each[role][k] = Summary(Chosen(r)[role][k])
    <3>1. coverage = Coverage(Chosen(r)) /\ "final_evaluation" \in Roles
      BY <2>1, OutputIs, RolesAre
    <3> QED
      BY <3>1 DEF Coverage
  <2>3. CoverageFits(Bytes(<<"data", "final_eval">>), coverage.all["final_evaluation"])
    <3> DEFINE path == <<"data", "final_eval">>
               rows == AllRows(Chosen(r), "final_evaluation")
    <3>1. path \in ArtifactPaths
      BY DEF ArtifactPaths, Places, NamesIn
    <3>2. RoleOf(path) = "final_evaluation" /\ path[1] = "data"
      BY DEF RoleOf
    <3> HIDE DEF path
    <3>3. Bytes(path) = Contents(r, Chosen(r), path)
      BY <3>1, TrustedIsStaged
    <3>4. Contents(r, Chosen(r), path) = rows
      BY <3>2 DEF Contents
    <3>5. CoverageFits(rows, Summary(rows))
      BY <2>1, RolesAre, RowsArePublished, NeededIs, CoverageOfPublished
    <3> HIDE DEF coverage
    <3>6. CoverageFits(Bytes(path), coverage.all["final_evaluation"])
      BY <2>2, <3>3, <3>4, <3>5
    <3> QED
      BY <3>6 DEF path
  <2>4. ASSUME NEW role \in Roles, NEW k \in DOMAIN Datasets
        PROVE  CoverageFits(Bytes(<<Datasets[k], RoleFile[role]>>), coverage.each[role][k])
    <3> DEFINE path == <<Datasets[k], RoleFile[role]>>
               rows == Chosen(r)[role][k]
    <3>1. path \in ArtifactPaths /\ Contents(r, Chosen(r), path) = rows
      BY <2>1, RoleFiles
    <3> HIDE DEF path
    <3>2. Bytes(path) = rows
      BY <3>1, TrustedIsStaged
    <3>3. CoverageFits(rows, Summary(rows))
      BY <2>1, RowsArePublished, EachIsNeeded, CoverageOfPublished
    <3> HIDE DEF coverage
    <3>4. CoverageFits(Bytes(path), coverage.each[role][k])
      BY <2>2, <3>2, <3>3
    <3> QED
      BY <3>4 DEF path
  <2> QED
    BY <2>3, <2>4
<1> QED
  BY <1>1, PTL

(***************************************************************************)
(* The two files a training run may read hold the rows of the two training *)
(* roles of one preparation, each once or once for each backend, and no    *)
(* question of the final evaluation or of the other file, although what is *)
(* on disk may be replaced between any two of the reads.                   *)
(***************************************************************************)
THEOREM TrainingInputsAreClean == Spec => []AcceptedInputsAreClean
<1>1. DataInv => AcceptedInputsAreClean
  BY AcceptedIsClean DEF DataInv
<1> QED
  BY <1>1, Invariance, PTL

=============================================================================
