--------------------------- MODULE MirrorNamesProofs ---------------------------
(***************************************************************************)
(* Proofs about MirrorNames, for every text over its characters: what      *)
(* quote_identifier writes is read in one way, and as what was written;    *)
(* what uri_encode writes is read as what was written.  Hence the three    *)
(* properties of the names.                                                *)
(*                                                                         *)
(* The texts are built piece by piece (FlattenSeq).  Induction over their  *)
(* length is by SetInduction: a set that has 0 and, with each number, the  *)
(* next one, has them all.  Texts are compared by places: a function e     *)
(* tells where in the new text the copy of the i-th character ends.        *)
(***************************************************************************)
EXTENDS MirrorNames, FiniteSetTheorems, SequenceTheorems, TLAPS

-----------------------------------------------------------------------------
(***************************************************************************)
(* Induction, and texts that are built piece by piece.                     *)
(***************************************************************************)

\* A set that has 0 and, with each natural number, the next one, has them all.
\* Were n missing, k |-> k + 1 would map the members up to n into those but 0.
LEMMA SetInduction ==
  ASSUME NEW T, 0 \in T, \A n \in Nat : n \in T => n + 1 \in T
  PROVE  Nat \subseteq T
<1> SUFFICES ASSUME NEW n \in Nat, n \notin T PROVE FALSE  OBVIOUS
<1> DEFINE A == {k \in Nat : k <= n /\ k \in T}
<1> DEFINE f == [k \in A |-> k + 1]
<1>1. IsFiniteSet(A)  BY FS_BoundedSetOfNaturals
<1>2. 0 \in A  OBVIOUS
<1>3. f \in [A -> A \ {0}]  OBVIOUS
<1>4. IsFiniteSet(A \ {0}) /\ Cardinality(A \ {0}) = Cardinality(A) - 1  BY <1>1, <1>2, FS_RemoveElement
<1>5. Cardinality(A) \in Nat  BY <1>1, FS_CardinalityType
<1>6. \A x, y \in A : f[x] = f[y] => x = y  OBVIOUS
<1> HIDE DEF A, f
<1>7. Cardinality(A \ {0}) < Cardinality(A)  BY <1>4, <1>5
<1> QED  BY <1>1, <1>3, <1>4, <1>6, <1>7, FS_PigeonHole

\* Concatenation, which the proofs about FlattenSeq need not look into.
Cat(s, t) == s \o t

\* What concatenation yields.
LEMMA CatProperties ==
  ASSUME NEW S, NEW s \in Seq(S), NEW t \in Seq(S)
  PROVE  /\ Cat(s, t) \in Seq(S)
         /\ Len(Cat(s, t)) = Len(s) + Len(t)
         /\ \A i \in 1..Len(s) : Cat(s, t)[i] = s[i]
         /\ \A i \in 1..Len(t) : Cat(s, t)[Len(s) + i] = t[i]
         /\ Cat(<<>>, t) = t
         /\ Cat(s, <<>>) = s
BY ConcatEmptySeq DEF Cat

\* What pieces come to, one after the other, up to the m-th.
IsSum(f, S, pieces, m) ==
  /\ f \in [0..m -> Seq(S)]
  /\ f[0] = <<>>
  /\ \A i \in 1..m : f[i] = Cat(f[i - 1], pieces[i])

\* There are such sums.
LEMMA SumsExist ==
  ASSUME NEW S, NEW pieces \in Seq(Seq(S)), NEW n \in 0..Len(pieces)
  PROVE  \E f : IsSum(f, S, pieces, n)
<1>0. Len(pieces) \in Nat /\ \A i \in 1..Len(pieces) : pieces[i] \in Seq(S)
  OBVIOUS
<1> DEFINE T == {m \in Nat : m <= Len(pieces) => \E g : IsSum(g, S, pieces, m)}
<1>1. 0 \in T
  <2>1. IsSum([i \in 0..0 |-> <<>>], S, pieces, 0)
    BY DEF IsSum
  <2> QED BY <2>1
<1>2. ASSUME NEW m \in Nat, m \in T PROVE m + 1 \in T
  <2> SUFFICES ASSUME m + 1 <= Len(pieces) PROVE \E g : IsSum(g, S, pieces, m + 1)
    OBVIOUS
  <2>1. PICK g : IsSum(g, S, pieces, m)
    BY <1>0, <1>2
  <2> HIDE DEF T
  <2> DEFINE h == [i \in 0..m + 1 |-> IF i <= m THEN g[i] ELSE Cat(g[m], pieces[m + 1])]
  <2>2. /\ g \in [0..m -> Seq(S)] /\ g[0] = <<>> /\ g[m] \in Seq(S)
        /\ \A i \in 1..m : g[i] = Cat(g[i - 1], pieces[i])
    BY <2>1 DEF IsSum
  <2>3. Cat(g[m], pieces[m + 1]) \in Seq(S)
    <3>1. pieces[m + 1] \in Seq(S)
      BY <1>0
    <3> QED BY <2>2, <3>1, CatProperties
  <2>4. h \in [0..m + 1 -> Seq(S)]
    BY <2>2, <2>3
  <2>5. ASSUME NEW i \in 1..m + 1 PROVE h[i] = Cat(h[i - 1], pieces[i])
    <3>1. CASE i <= m
      BY <2>2, <3>1
    <3>2. CASE i = m + 1
      BY <3>2
    <3> QED BY <3>1, <3>2
  <2>6. h[0] = <<>>
    BY <2>2
  <2> HIDE DEF h
  <2>7. IsSum(h, S, pieces, m + 1)
    BY <2>4, <2>5, <2>6 DEF IsSum
  <2> QED BY <2>7
<1> HIDE DEF T
<1>3. Nat \subseteq T
  BY <1>1, <1>2, SetInduction
<1> QED BY <1>3, <1>0 DEF T

\* FlattenSeq is the last of them.
LEMMA FlattenSums ==
  ASSUME NEW S, NEW pieces \in Seq(Seq(S)),
         NEW f, IsSum(f, S, pieces, Len(pieces))
  PROVE  FlattenSeq(pieces) = f[Len(pieces)]
<1> DEFINE n == Len(pieces)
<1>1. /\ n \in Nat /\ \A i \in 1..n : pieces[i] \in Seq(S)
      /\ f \in [0..n -> Seq(S)] /\ f[0] = <<>>
      /\ \A i \in 1..n : f[i] = Cat(f[i - 1], pieces[i])
  BY DEF IsSum
<1>2. CASE n = 0
  <2>1. pieces = <<>>
    BY <1>2
  <2> QED BY <1>1, <1>2, <2>1 DEF FlattenSeq
<1>3. CASE n # 0
  <2> DEFINE Rec(g) == g = [i \in 1..n |-> IF i = 1 THEN pieces[i] ELSE Cat(g[i - 1], pieces[i])]
  <2> DEFINE fl == CHOOSE g : Rec(g)
  <2> DEFINE r == [i \in 1..n |-> f[i]]
  <2>1. ASSUME NEW i \in 1..n PROVE r[i] = IF i = 1 THEN pieces[i] ELSE Cat(r[i - 1], pieces[i])
    <3>1. CASE i = 1
      <4>1. f[1] = Cat(<<>>, pieces[1]) /\ pieces[1] \in Seq(S) /\ <<>> \in Seq(S)
        BY <3>1, <1>1
      <4>2. f[1] = pieces[1]
        BY <4>1, CatProperties
      <4> QED BY <3>1, <4>2
    <3>2. CASE i # 1
      <4>1. i - 1 \in 1..n
        BY <3>2, <1>1
      <4> QED BY <3>2, <4>1, <1>1
    <3> QED BY <3>1, <3>2
  <2>2. Rec(r)
    BY <2>1
  <2>3. Rec(fl)
    <3> HIDE DEF Rec
    <3> QED BY <2>2
  <2>4. FlattenSeq(pieces) = fl[n]
    BY <1>3, <1>1 DEF FlattenSeq, Cat
  <2>5. \A i \in 1..n : fl[i] = IF i = 1 THEN pieces[i] ELSE Cat(fl[i - 1], pieces[i])
    BY <2>3
  <2> HIDE DEF fl, n
  <2> DEFINE U == {m \in Nat : m + 1 \in 1..n => fl[m + 1] = f[m + 1]}
  <2>6. 0 \in U
    <3> SUFFICES ASSUME 1 \in 1..n PROVE fl[1] = f[1]
      OBVIOUS
    <3>1. fl[1] = pieces[1] /\ f[1] = Cat(<<>>, pieces[1]) /\ pieces[1] \in Seq(S) /\ <<>> \in Seq(S)
      BY <2>5, <1>1
    <3> QED BY <3>1, CatProperties
  <2>7. ASSUME NEW m \in Nat, m \in U PROVE m + 1 \in U
    <3> SUFFICES ASSUME m + 2 \in 1..n PROVE fl[m + 2] = f[m + 2]
      OBVIOUS
    <3>0. m + 1 \in 1..n /\ m + 2 - 1 = m + 1 /\ m + 2 # 1
      BY <1>1
    <3>1. fl[m + 1] = f[m + 1]
      BY <2>7, <3>0
    <3> HIDE DEF U
    <3> QED BY <3>0, <3>1, <2>5, <1>1
  <2> HIDE DEF U
  <2>8. Nat \subseteq U
    BY <2>6, <2>7, SetInduction
  <2>9. n - 1 \in Nat /\ (n - 1) + 1 = n /\ n \in 1..n
    BY <1>3, <1>1
  <2>10. fl[n] = f[n]
    BY <2>8, <2>9 DEF U
  <2> QED BY <2>4, <2>10 DEF n
<1> QED BY <1>2, <1>3

\* The whole is the last of the sums.
LEMMA FlattenIsSum ==
  ASSUME NEW S, NEW pieces \in Seq(Seq(S))
  PROVE  \E f : /\ IsSum(f, S, pieces, Len(pieces))
               /\ FlattenSeq(pieces) = f[Len(pieces)]
               /\ FlattenSeq(pieces) \in Seq(S)
<1>1. Len(pieces) \in 0..Len(pieces)
  OBVIOUS
<1>2. PICK f : IsSum(f, S, pieces, Len(pieces))
  BY <1>1, SumsExist
<1>3. f[Len(pieces)] \in Seq(S)
  BY <1>1, <1>2 DEF IsSum
<1> QED BY <1>2, <1>3, FlattenSums

\* u is s and then t, by places.
Joins(u, s, t) ==
  /\ Len(u) = Len(s) + Len(t)
  /\ \A k \in 1..Len(s) : u[k] = s[k]
  /\ \A k \in 1..Len(t) : u[Len(s) + k] = t[k]

\* A concatenation is one text and then the other.
LEMMA CatJoins ==
  ASSUME NEW S, NEW s \in Seq(S), NEW t \in Seq(S)
  PROVE  Joins(Cat(s, t), s, t)
<1>1. Len(Cat(s, t)) = Len(s) + Len(t)
  BY CatProperties
<1>2. \A k \in 1..Len(s) : Cat(s, t)[k] = s[k]
  BY CatProperties
<1>3. \A k \in 1..Len(t) : Cat(s, t)[Len(s) + k] = t[k]
  BY CatProperties
<1> QED BY <1>1, <1>2, <1>3 DEF Joins

\* The sums, by places.
LEMMA SumLengths ==
  ASSUME NEW S, NEW pieces \in Seq(Seq(S)), NEW f, IsSum(f, S, pieces, Len(pieces)),
         NEW i \in 0..Len(pieces) - 1
  PROVE  Joins(f[i + 1], f[i], pieces[i + 1])
<1>1. Len(pieces) \in Nat /\ i + 1 \in 1..Len(pieces) /\ (i + 1) - 1 = i /\ i \in 0..Len(pieces)
  OBVIOUS
<1>2. f[i] \in Seq(S)
  BY <1>1 DEF IsSum
<1>3. pieces[i + 1] \in Seq(S)
  BY <1>1
<1>4. f[i + 1] = Cat(f[i], pieces[i + 1])
  BY <1>1 DEF IsSum
<1> QED BY <1>2, <1>3, <1>4, CatJoins

\* Where the pieces are in the sum up to the m-th: each at its place, and
\* nothing besides.
Places(e, f, pieces, m) ==
  /\ \A i \in 1..m : \A k \in 1..Len(pieces[i]) :
       e[i - 1] + k \in 1..e[m] /\ f[m][e[i - 1] + k] = pieces[i][k]
  /\ \A j \in 1..e[m] : \E i \in 1..m : \E k \in 1..Len(pieces[i]) : j = e[i - 1] + k
  /\ \A i \in 0..m : e[i] <= e[m]

\* The sums have the pieces at their places.
LEMMA SumPlaces ==
  ASSUME NEW S, NEW pieces \in Seq(Seq(S)), NEW f, IsSum(f, S, pieces, Len(pieces))
  PROVE  \E e \in [0..Len(pieces) -> Nat] :
           /\ \A i \in 0..Len(pieces) : e[i] = Len(f[i])
           /\ e[0] = 0
           /\ \A i \in 1..Len(pieces) : e[i] = e[i - 1] + Len(pieces[i])
           /\ \A m \in 0..Len(pieces) : Places(e, f, pieces, m)
<1> DEFINE n == Len(pieces)
           e == [i \in 0..n |-> Len(f[i])]
<1>1. n \in Nat
  OBVIOUS
<1>2. e \in [0..n -> Nat] /\ \A i \in 0..n : e[i] = Len(f[i])
  <2>1. \A i \in 0..n : f[i] \in Seq(S)
    BY DEF IsSum
  <2>2. \A i \in 0..n : Len(f[i]) \in Nat
    BY <2>1
  <2> QED BY <2>2
<1>3. e[0] = 0
  <2>1. f[0] = <<>>
    BY DEF IsSum
  <2> QED BY <1>1, <2>1
<1>4. ASSUME NEW i \in 0..n - 1
      PROVE  /\ e[i + 1] = e[i] + Len(pieces[i + 1])
             /\ \A k \in 1..e[i] : f[i + 1][k] = f[i][k]
             /\ \A k \in 1..Len(pieces[i + 1]) : f[i + 1][e[i] + k] = pieces[i + 1][k]
  <2>1. i \in 0..n /\ i + 1 \in 0..n
    BY <1>1
  <2>2. e[i] = Len(f[i]) /\ e[i + 1] = Len(f[i + 1])
    BY <1>2, <2>1
  <2>3. Joins(f[i + 1], f[i], pieces[i + 1])
    BY SumLengths
  <2> HIDE DEF e
  <2> QED BY <2>2, <2>3, Zenon DEF Joins
<1>5. \A i \in 1..n : pieces[i] \in Seq(S)
  OBVIOUS
<1> HIDE DEF e, n
<1>6. \A i \in 1..n : Len(pieces[i]) \in Nat
  BY <1>5
<1> DEFINE T == {m \in Nat : m <= n => Places(e, f, pieces, m)}
<1>7. 0 \in T
  BY <1>1, <1>2, <1>3 DEF Places
<1>8. ASSUME NEW m \in Nat, m \in T PROVE m + 1 \in T
  <2> SUFFICES ASSUME m + 1 <= n PROVE Places(e, f, pieces, m + 1)
    OBVIOUS
  <2> DEFINE l == Len(pieces[m + 1])
  <2>1. Places(e, f, pieces, m)
    BY <1>1, <1>8
  <2>2. m \in 0..n - 1 /\ m + 1 \in 1..n /\ (m + 1) - 1 = m /\ l \in Nat /\ e[m] \in Nat
    BY <1>1, <1>2, <1>6
  <2>3. /\ e[m + 1] = e[m] + l
        /\ \A k \in 1..e[m] : f[m + 1][k] = f[m][k]
        /\ \A k \in 1..l : f[m + 1][e[m] + k] = pieces[m + 1][k]
    BY <1>4, <2>2
  <2> HIDE DEF T
  <2>4. ASSUME NEW i \in 1..m + 1, NEW k \in 1..Len(pieces[i])
        PROVE  e[i - 1] + k \in 1..e[m + 1] /\ f[m + 1][e[i - 1] + k] = pieces[i][k]
    <3>1. CASE i = m + 1
      BY <2>2, <2>3, <3>1
    <3>2. CASE i \in 1..m
      <4>1. e[i - 1] + k \in 1..e[m] /\ f[m][e[i - 1] + k] = pieces[i][k]
        BY <2>1, <3>2 DEF Places
      <4> DEFINE q == e[i - 1] + k
      <4>2. q \in 1..e[m] /\ f[m][q] = pieces[i][k]
        BY <4>1
      <4> HIDE DEF l, q
      <4>3. q \in 1..e[m + 1]
        BY <2>2, <2>3, <4>2
      <4>4. f[m + 1][q] = pieces[i][k]
        BY <2>3, <4>2
      <4> QED BY <4>3, <4>4 DEF q
    <3> QED BY <3>1, <3>2
  <2>5. ASSUME NEW j \in 1..e[m + 1]
        PROVE  \E i \in 1..m + 1 : \E k \in 1..Len(pieces[i]) : j = e[i - 1] + k
    <3>1. CASE j <= e[m]
      <4>1. PICK i \in 1..m : \E k \in 1..Len(pieces[i]) : j = e[i - 1] + k
        <5>1. j \in 1..e[m]
          BY <2>2, <3>1
        <5> QED BY <2>1, <5>1 DEF Places
      <4>2. i \in 1..m + 1
        OBVIOUS
      <4> QED BY <4>1, <4>2
    <3>2. CASE j > e[m]
      <4>1. j - e[m] \in 1..l /\ j = e[m] + (j - e[m])
        <5> HIDE DEF l
        <5> QED BY <2>2, <2>3, <3>2
      <4>2. \E k \in 1..Len(pieces[m + 1]) : j = e[(m + 1) - 1] + k
        BY <4>1, <2>2
      <4> QED BY <4>2
    <3> QED BY <2>2, <3>1, <3>2
  <2>6. ASSUME NEW i \in 0..m + 1 PROVE e[i] <= e[m + 1]
    <3>1. CASE i = m + 1
      BY <1>2, <2>2, <3>1
    <3>2. CASE i \in 0..m
      <4>1. e[i] \in Nat /\ e[i] <= e[m]
        BY <1>1, <1>2, <2>1, <3>2 DEF Places
      <4> HIDE DEF l
      <4> QED BY <2>2, <2>3, <4>1
    <3> QED BY <3>1, <3>2
  <2> QED BY <2>4, <2>5, <2>6 DEF Places
<1> HIDE DEF T
<1>9. Nat \subseteq T
  BY <1>7, <1>8, SetInduction
<1>10. \A m \in 0..n : Places(e, f, pieces, m)
  BY <1>9, <1>1 DEF T
<1>11. \A i \in 1..n : e[i] = e[i - 1] + Len(pieces[i])
  <2> TAKE i \in 1..n
  <2>1. i - 1 \in 0..n - 1 /\ (i - 1) + 1 = i
    BY <1>1
  <2>2. e[(i - 1) + 1] = e[i - 1] + Len(pieces[(i - 1) + 1])
    BY <1>4, <2>1
  <2> QED BY <2>1, <2>2
<1> QED BY <1>2, <1>3, <1>10, <1>11 DEF n

\* The first characters of a text, one by one.
LEMMA TextPrefixes ==
  ASSUME NEW S, NEW x \in Seq(S)
  PROVE  /\ SubSeq(x, 1, 0) = <<>>
         /\ \A i \in 0..Len(x) : SubSeq(x, 1, i) \in Seq(S)
         /\ \A i \in 1..Len(x) : SubSeq(x, 1, i) = Cat(SubSeq(x, 1, i - 1), <<x[i]>>)
         /\ SubSeq(x, 1, Len(x)) = x
<1>1. Len(x) \in Nat
  OBVIOUS
<1>2. SubSeq(x, 1, 0) = <<>>
  BY SubSeqEmpty
<1>3. ASSUME NEW i \in 0..Len(x) PROVE SubSeq(x, 1, i) \in Seq(S)
  <2>1. \A j \in 1..i : x[j] \in S
    BY <1>1, ElementOfSeq
  <2> QED BY <1>1, <2>1, SubSeqProperties
<1>4. ASSUME NEW i \in 1..Len(x) PROVE SubSeq(x, 1, i) = Cat(SubSeq(x, 1, i - 1), <<x[i]>>)
  <2>1. 1 \in 1..Len(x) /\ i \in 1..Len(x)
    BY <1>1
  <2>2. SubSeq(x, 1, i) = SubSeq(x, 1, i - 1) \o <<x[i]>>
    BY <2>1, SubSeqRecursiveSecond
  <2> QED BY <2>2 DEF Cat
<1>5. SubSeq(x, 1, Len(x)) = x
  BY SubSeqFull
<1> QED BY <1>2, <1>3, <1>4, <1>5

\* What stands from one place of a text to another.
LEMMA Between ==
  ASSUME NEW S, NEW x \in Seq(S), NEW i \in 1..Len(x) + 1, NEW j \in i - 1..Len(x)
  PROVE  /\ SubSeq(x, i, j) \in Seq(S)
         /\ Len(SubSeq(x, i, j)) = j - i + 1
         /\ \A k \in 1..j - i + 1 : SubSeq(x, i, j)[k] = x[i + k - 1]
<1>1. Len(x) \in Nat /\ i \in Nat /\ i >= 1 /\ j \in Int /\ j + 1 >= i /\ j <= Len(x)
  OBVIOUS
<1>2. \A k \in i..j : x[k] \in S
  BY <1>1, ElementOfSeq
<1>3. /\ SubSeq(x, i, j) \in Seq(S)
      /\ Len(SubSeq(x, i, j)) = IF i <= j THEN j - i + 1 ELSE 0
      /\ \A k \in 1..j - i + 1 : SubSeq(x, i, j)[k] = x[i + k - 1]
  BY <1>1, <1>2, SubSeqProperties
<1>4. (IF i <= j THEN j - i + 1 ELSE 0) = j - i + 1
  BY <1>1
<1> QED BY <1>3, <1>4

\* A span of a text that has the characters of y, in their order, is y.
LEMMA SpanIs ==
  ASSUME NEW x \in Seq(UriChars), NEW y \in Seq(UriChars),
         NEW i \in 1..Len(x) + 1, NEW j \in i - 1..Len(x), Len(y) = j - i + 1,
         \A k \in 1..Len(y) : x[i + k - 1] = y[k]
  PROVE  SubSeq(x, i, j) = y
<1> DEFINE p == SubSeq(x, i, j)
<1>1. p \in Seq(UriChars) /\ Len(p) = j - i + 1 /\ \A k \in 1..j - i + 1 : p[k] = x[i + k - 1]
  BY Between
<1> HIDE DEF p
<1>2. Len(p) = Len(y) /\ \A k \in 1..Len(p) : p[k] = y[k]
  BY <1>1
<1>3. p = y
  BY <1>1, <1>2, SeqEqual
<1> QED BY <1>3 DEF p

-----------------------------------------------------------------------------
(***************************************************************************)
(* Identifiers: what is put in quotes is read back, and nothing else is.   *)
(***************************************************************************)

\* Marks counts one by one.
LEMMA MarksCount ==
  ASSUME NEW text, NEW i \in Nat
  PROVE  /\ Marks(text, i) \in Nat
         /\ Marks(text, 0) = 0
         /\ text[i + 1] = Dq => Marks(text, i + 1) = Marks(text, i) + 1
         /\ text[i + 1] # Dq => Marks(text, i + 1) = Marks(text, i)
<1> DEFINE M(j) == {k \in 1..j : text[k] = Dq}
<1>1. IsFiniteSet(M(i)) /\ Cardinality(M(i)) \in Nat
  <2>1. IsFiniteSet(1..i)
    BY FS_Interval
  <2>2. M(i) \in SUBSET (1..i)
    OBVIOUS
  <2> QED BY <2>1, <2>2, FS_Subset, FS_CardinalityType
<1>2. M(0) = {}
  OBVIOUS
<1>3. CASE text[i + 1] = Dq
  <2>1. M(i + 1) = M(i) \cup {i + 1} /\ i + 1 \notin M(i)
    BY <1>3
  <2> QED BY <1>1, <1>2, <1>3, <2>1, FS_AddElement, FS_EmptySet DEF Marks
<1>4. CASE text[i + 1] # Dq
  <2>1. M(i + 1) = M(i)
    BY <1>4
  <2> QED BY <1>1, <1>2, <1>4, <2>1, FS_EmptySet DEF Marks
<1> QED BY <1>3, <1>4

\* Where the characters of x are in y, the text of x in quotes: the copies of the
\* i-th end at e[i] + 1.
QuotedAt(x, y, e) ==
  /\ e[0] = 0
  /\ \A i \in 1..Len(x) : e[i] = IF x[i] = Dq THEN e[i - 1] + 2 ELSE e[i - 1] + 1
  /\ Len(y) = e[Len(x)] + 2
  /\ y[1] = Dq
  /\ y[Len(y)] = Dq
  /\ \A i \in 1..Len(x) : y[e[i] + 1] = x[i] /\ (x[i] = Dq => y[e[i]] = Dq)
  /\ \A j \in 1..e[Len(x)] : \E i \in 1..Len(x) : j = e[i] \/ (x[i] = Dq /\ j + 1 = e[i])
  /\ \A i \in 0..Len(x) : e[i] <= e[Len(x)]

\* A text in quotes has each character at its place.
LEMMA QuotedPlaces ==
  ASSUME NEW x \in Seq(NameChars)
  PROVE  /\ Quoted(x) \in Seq(NameChars)
         /\ \E e \in [0..Len(x) -> Nat] : QuotedAt(x, Quoted(x), e)
<1> DEFINE pieces == [i \in DOMAIN x |-> Double(x[i])]
           n == Len(x)
<1>1. n \in Nat /\ \A i \in 1..n : x[i] \in NameChars
  OBVIOUS
<1>2. \A c \in NameChars : Double(c) \in Seq(NameChars) /\ Len(Double(c)) = IF c = Dq THEN 2 ELSE 1
  <2> TAKE c \in NameChars
  <2>1. CASE c = Dq
    <3>1. Double(c) = <<c, c>>
      BY <2>1 DEF Double
    <3> QED BY <2>1, <3>1
  <2>2. CASE c # Dq
    <3>1. Double(c) = <<c>>
      BY <2>2 DEF Double
    <3> QED BY <2>2, <3>1
  <2> QED BY <2>1, <2>2
<1>3. pieces \in Seq(Seq(NameChars)) /\ Len(pieces) = n
  <2>1. pieces \in [1..n -> Seq(NameChars)]
    BY <1>1, <1>2
  <2> QED BY <1>1, <2>1
<1>4. \A i \in 1..n : pieces[i] = Double(x[i])
  OBVIOUS
<1> HIDE DEF pieces
<1>5. PICK f : /\ IsSum(f, NameChars, pieces, Len(pieces))
               /\ FlattenSeq(pieces) = f[Len(pieces)]
               /\ FlattenSeq(pieces) \in Seq(NameChars)
  BY <1>3, FlattenIsSum
<1>6. PICK e \in [0..Len(pieces) -> Nat] :
           /\ \A i \in 0..Len(pieces) : e[i] = Len(f[i])
           /\ e[0] = 0
           /\ \A i \in 1..Len(pieces) : e[i] = e[i - 1] + Len(pieces[i])
           /\ \A m \in 0..Len(pieces) : Places(e, f, pieces, m)
  BY <1>3, <1>5, SumPlaces
<1> DEFINE F == FlattenSeq(pieces)
           y == <<Dq>> \o F \o <<Dq>>
<1>7. Quoted(x) = y
  BY DEF Quoted, pieces
<1> HIDE DEF n
<1>8. e \in [0..n -> Nat] /\ Places(e, f, pieces, n) /\ e[n] = Len(F) /\ F = f[n]
  BY <1>1, <1>3, <1>5, <1>6
<1>9. \A i \in 1..n : Len(pieces[i]) = IF x[i] = Dq THEN 2 ELSE 1
  BY <1>1, <1>2, <1>4
<1>10. \A i \in 1..n : e[i] = IF x[i] = Dq THEN e[i - 1] + 2 ELSE e[i - 1] + 1
  BY <1>3, <1>6, <1>9
<1>11. F \in Seq(NameChars) /\ Dq \in NameChars
  BY <1>5 DEF NameChars
<1> HIDE DEF F
<1>12. /\ y \in Seq(NameChars) /\ Len(y) = Len(F) + 2 /\ y[1] = Dq /\ y[Len(y)] = Dq
       /\ \A j \in 1..Len(F) : y[j + 1] = F[j]
  BY <1>11
<1> HIDE DEF y
<1>13. ASSUME NEW i \in 1..n PROVE y[e[i] + 1] = x[i] /\ (x[i] = Dq => y[e[i]] = Dq)
  <2> DEFINE l == Len(pieces[i])
  <2>1. e[i] = e[i - 1] + l /\ l \in 1..2 /\ i - 1 \in 0..n /\ e[i - 1] \in Nat /\ e[i] \in Nat
    BY <1>1, <1>3, <1>6, <1>8, <1>9
  <2>2. \A k \in 1..l : e[i - 1] + k \in 1..Len(F) /\ F[e[i - 1] + k] = pieces[i][k]
    BY <1>8 DEF Places
  <2>3. pieces[i][l] = x[i] /\ (x[i] = Dq => l = 2 /\ pieces[i][1] = Dq)
    <3>1. CASE x[i] = Dq
      <4>1. pieces[i] = <<Dq, Dq>> /\ l = 2
        BY <1>4, <1>9, <3>1 DEF Double
      <4> QED BY <3>1, <4>1
    <3>2. CASE x[i] # Dq
      <4>1. pieces[i] = <<x[i]>> /\ l = 1
        BY <1>4, <1>9, <3>2 DEF Double
      <4> QED BY <3>2, <4>1
    <3> QED BY <3>1, <3>2
  <2> HIDE DEF l
  <2>4. \A k \in 1..l : y[(e[i - 1] + k) + 1] = pieces[i][k]
    <3> TAKE k \in 1..l
    <3> DEFINE j == e[i - 1] + k
    <3>1. j \in 1..Len(F) /\ F[j] = pieces[i][k]
      BY <2>2
    <3> HIDE DEF j
    <3>2. y[j + 1] = pieces[i][k]
      BY <1>12, <3>1
    <3> QED BY <3>2 DEF j
  <2>5. y[e[i] + 1] = x[i]
    <3>1. l \in 1..l /\ (e[i - 1] + l) + 1 = e[i] + 1
      BY <2>1
    <3>2. y[(e[i - 1] + l) + 1] = pieces[i][l]
      BY <2>4, <3>1
    <3> QED BY <2>3, <3>1, <3>2
  <2>6. x[i] = Dq => y[e[i]] = Dq
    <3> SUFFICES ASSUME x[i] = Dq PROVE y[e[i]] = Dq
      OBVIOUS
    <3>1. 1 \in 1..l /\ pieces[i][1] = Dq /\ e[i] = (e[i - 1] + 1) + 1
      BY <2>1, <2>3
    <3> QED BY <2>4, <3>1
  <2> QED BY <2>5, <2>6
<1>14. ASSUME NEW j \in 1..e[n] PROVE \E i \in 1..n : j = e[i] \/ (x[i] = Dq /\ j + 1 = e[i])
  <2>1. PICK i \in 1..n : \E k \in 1..Len(pieces[i]) : j = e[i - 1] + k
    BY <1>8 DEF Places
  <2>2. i - 1 \in 0..n /\ e[i - 1] \in Nat
    BY <1>1, <1>8
  <2>3. PICK k \in 1..Len(pieces[i]) : j = e[i - 1] + k
    BY <2>1
  <2> DEFINE b == e[i - 1]
  <2>4. j = e[i] \/ (x[i] = Dq /\ j + 1 = e[i])
    <3>1. CASE x[i] = Dq
      <4>1. k \in 1..2 /\ e[i] = e[i - 1] + 2
        BY <1>9, <1>10, <3>1
      <4>2. b \in Nat /\ j = b + k
        BY <2>2, <2>3
      <4> HIDE DEF b
      <4>3. j = b + 2 \/ j + 1 = b + 2
        BY <4>1, <4>2
      <4> QED BY <3>1, <4>1, <4>3 DEF b
    <3>2. CASE x[i] # Dq
      <4>1. k \in 1..1 /\ e[i] = e[i - 1] + 1
        BY <1>9, <1>10, <3>2
      <4> QED BY <2>2, <2>3, <4>1
    <3> QED BY <3>1, <3>2
  <2> QED BY <2>4
<1>15. \A i \in 0..n : e[i] <= e[n]
  BY <1>8 DEF Places
<1>16. QuotedAt(x, y, e)
  BY <1>6, <1>8, <1>10, <1>12, <1>13, <1>14, <1>15 DEF QuotedAt, n
<1> QED BY <1>7, <1>8, <1>12, <1>16 DEF n

\* Before each character of x, a mark is open.
LEMMA QuotedMarks ==
  ASSUME NEW x \in Seq(NameChars), NEW y, NEW e \in [0..Len(x) -> Nat], QuotedAt(x, y, e)
  PROVE  \A i \in 0..Len(x) : Marks(y, e[i] + 1) % 2 = 1
<1> DEFINE n == Len(x)
           T == {i \in Nat : i <= n => Marks(y, e[i] + 1) % 2 = 1}
<1>1. n \in Nat
  OBVIOUS
<1> HIDE DEF n
<1>2. 0 \in T
  <2>1. y[0 + 1] = Dq /\ e[0] = 0
    BY DEF QuotedAt
  <2>2. Marks(y, 0) = 0 /\ Marks(y, 0 + 1) = Marks(y, 0) + 1
    BY <2>1, MarksCount
  <2> QED BY <2>1, <2>2
<1>3. ASSUME NEW i \in Nat, i \in T PROVE i + 1 \in T
  <2> SUFFICES ASSUME i + 1 <= n PROVE Marks(y, e[i + 1] + 1) % 2 = 1
    OBVIOUS
  <2> DEFINE m == Marks(y, e[i] + 1)
  <2>1. /\ i \in 0..n /\ i + 1 \in 0..n /\ i + 1 \in 1..n /\ (i + 1) - 1 = i
        /\ e[i] \in Nat /\ e[i + 1] \in Nat
    BY <1>1 DEF n
  <2>2. m \in Nat /\ m % 2 = 1
    BY <1>3, <2>1, MarksCount
  <2>3. /\ e[i + 1] = IF x[i + 1] = Dq THEN e[i] + 2 ELSE e[i] + 1
        /\ y[e[i + 1] + 1] = x[i + 1] /\ (x[i + 1] = Dq => y[e[i + 1]] = Dq)
    BY <2>1 DEF QuotedAt, n
  <2> HIDE DEF T
  <2>4. CASE x[i + 1] = Dq
    <3> DEFINE p == e[i] + 1
    <3>1. p \in Nat /\ p + 1 \in Nat /\ e[i + 1] + 1 = p + 2 /\ e[i + 1] = p + 1
      <4>1. e[i + 1] = e[i] + 2
        BY <2>3, <2>4
      <4> QED BY <2>1, <4>1
    <3>2. y[p + 1] = Dq /\ y[(p + 1) + 1] = Dq
      BY <2>3, <2>4, <3>1
    <3>3. Marks(y, p + 1) = m + 1 /\ Marks(y, (p + 1) + 1) = Marks(y, p + 1) + 1
      BY <3>1, <3>2, MarksCount
    <3> HIDE DEF m, p
    <3>4. Marks(y, p + 2) = m + 2
      BY <2>2, <3>1, <3>3
    <3> QED BY <2>2, <3>1, <3>4
  <2>5. CASE x[i + 1] # Dq
    <3> DEFINE p == e[i] + 1
    <3>1. p \in Nat /\ e[i + 1] + 1 = p + 1
      BY <2>1, <2>3, <2>5
    <3>2. y[p + 1] # Dq
      BY <2>3, <2>5, <3>1
    <3>3. Marks(y, p + 1) = m
      BY <3>1, <3>2, MarksCount
    <3> QED BY <2>2, <3>1, <3>3
  <2> QED BY <2>4, <2>5
<1> HIDE DEF T
<1>4. Nat \subseteq T
  BY <1>2, <1>3, SetInduction
<1> QED BY <1>1, <1>4 DEF T, n

\* Where a mark closes in a text that was put in quotes: at its end, before the
\* second of two marks, and nowhere else.
LEMMA QuotedCloses ==
  ASSUME NEW x \in Names, NEW y, NEW e \in [0..Len(x) -> Nat], QuotedAt(x, y, e)
  PROVE  /\ Closes(y, Len(y))
         /\ \A i \in 0..Len(x) : ~Closes(y, e[i] + 1)
         /\ \A i \in 1..Len(x) : x[i] = Dq => Closes(y, e[i])
<1>1. x \in Seq(NameChars) /\ Len(x) \in Nat
  BY DEF Names
<1>2. \A i \in 0..Len(x) : Marks(y, e[i] + 1) % 2 = 1
  BY <1>1, QuotedMarks
<1>3. \A i \in 0..Len(x) : ~Closes(y, e[i] + 1)
  BY <1>2 DEF Closes
<1>4. Closes(y, Len(y))
  <2> DEFINE p == e[Len(x)] + 1
  <2>1. p \in Nat /\ Len(x) \in 0..Len(x) /\ Len(y) = p + 1 /\ y[p + 1] = Dq
    <3>1. Len(x) \in 0..Len(x) /\ e[Len(x)] \in Nat
      BY <1>1
    <3> QED BY <3>1 DEF QuotedAt
  <2>2. Marks(y, p) \in Nat /\ Marks(y, p) % 2 = 1
    BY <1>2, <2>1, MarksCount
  <2>3. Marks(y, p + 1) = Marks(y, p) + 1
    BY <2>1, MarksCount
  <2> HIDE DEF p
  <2>4. Marks(y, p + 1) % 2 = 0
    BY <2>2, <2>3
  <2> QED BY <2>1, <2>4 DEF Closes
<1>5. ASSUME NEW i \in 1..Len(x), x[i] = Dq PROVE Closes(y, e[i])
  <2> DEFINE p == e[i - 1] + 1
  <2>1. i - 1 \in 0..Len(x) /\ e[i - 1] \in Nat
    BY <1>1
  <2>2. p \in Nat /\ e[i] = p + 1 /\ y[p + 1] = Dq
    <3>1. e[i] = e[i - 1] + 2
      BY <1>5 DEF QuotedAt
    <3>2. y[e[i]] = Dq
      BY <1>5 DEF QuotedAt
    <3>3. p \in Nat /\ e[i] = p + 1
      BY <2>1, <3>1
    <3> QED BY <3>2, <3>3
  <2>3. Marks(y, p) \in Nat /\ Marks(y, p) % 2 = 1
    BY <1>2, <2>1, <2>2, MarksCount
  <2>4. Marks(y, p + 1) = Marks(y, p) + 1
    BY <2>2, MarksCount
  <2> HIDE DEF p
  <2>5. Marks(y, p + 1) % 2 = 0
    BY <2>3, <2>4
  <2> QED BY <2>2, <2>5 DEF Closes
<1> QED BY <1>3, <1>4, <1>5

\* quote_identifier makes what the pattern of parse_table accepts.
LEMMA QuotedIsQuoted ==
  ASSUME NEW x \in Names
  PROVE  IsQuoted(Quoted(x))
<1> DEFINE y == Quoted(x)
<1>1. x \in Seq(NameChars) /\ Len(x) \in Nat /\ Len(x) >= 1
  BY DEF Names
<1>2. PICK e \in [0..Len(x) -> Nat] : QuotedAt(x, y, e)
  BY <1>1, QuotedPlaces
<1> HIDE DEF y
<1>3. /\ Closes(y, Len(y))
      /\ \A i \in 0..Len(x) : ~Closes(y, e[i] + 1)
  BY <1>2, QuotedCloses
<1>4. Len(y) = e[Len(x)] + 2 /\ y[1] = Dq /\ e[0] = 0 /\ e[Len(x)] \in Nat
  BY <1>1, <1>2 DEF QuotedAt
<1>5. Len(y) >= 3
  <2>1. 1 \in 1..Len(x) /\ e[1] \in Nat /\ e[1] >= 1 /\ e[1] <= e[Len(x)]
    <3>1. 1 \in 1..Len(x) /\ 1 \in 0..Len(x) /\ 1 - 1 = 0
      BY <1>1
    <3>2. e[1] = IF x[1] = Dq THEN e[1 - 1] + 2 ELSE e[1 - 1] + 1
      BY <1>2, <3>1 DEF QuotedAt
    <3>3. e[1] <= e[Len(x)]
      BY <1>2, <3>1 DEF QuotedAt
    <3> QED BY <1>4, <3>1, <3>2, <3>3
  <2> QED BY <1>4, <2>1
<1>6. ASSUME NEW p \in 1..Len(y) - 1, Closes(y, p) PROVE y[p + 1] = Dq
  <2>1. CASE p = 1
    <3>1. 0 \in 0..Len(x)
      BY <1>1
    <3> QED BY <1>3, <1>4, <1>6, <2>1, <3>1
  <2>2. CASE p # 1
    <3>1. p - 1 \in 1..e[Len(x)]
      BY <1>4, <2>2
    <3>2. PICK i \in 1..Len(x) : p - 1 = e[i] \/ (x[i] = Dq /\ (p - 1) + 1 = e[i])
      BY <1>2, <3>1 DEF QuotedAt
    <3>3. i \in 0..Len(x) /\ e[i] \in Nat
      BY <1>1
    <3>4. p # e[i] + 1
      BY <1>3, <1>6, <3>3
    <3>5. x[i] = Dq /\ p = e[i]
      BY <3>2, <3>3, <3>4
    <3>6. y[e[i] + 1] = x[i]
      BY <1>2 DEF QuotedAt
    <3> QED BY <3>5, <3>6
  <2> QED BY <2>1, <2>2
<1>7. IsQuoted(y)
  BY <1>3, <1>4, <1>5, <1>6 DEF IsQuoted
<1> QED BY <1>7 DEF y

\* What stands in quotes is what was put there.
LEMMA UnquotedQuoted ==
  ASSUME NEW x \in Names
  PROVE  Unquoted(Quoted(x)) = x
<1> DEFINE y == Quoted(x)
           Piece(p) == IF y[p] = Dq /\ ~Closes(y, p) THEN <<>> ELSE <<y[p]>>
           pieces == [p \in 1..Len(y) - 1 |-> Piece(p)]
           n == Len(x)
<1>1. x \in Seq(NameChars) /\ n \in Nat
  BY DEF Names
<1>2. y \in Seq(NameChars) /\ Len(y) \in Nat
  BY <1>1, QuotedPlaces
<1>3. PICK e \in [0..n -> Nat] : QuotedAt(x, y, e)
  BY <1>1, QuotedPlaces
<1>4. Unquoted(y) = FlattenSeq(pieces)
  BY DEF Unquoted
<1> HIDE DEF y
<1>5. /\ Closes(y, Len(y))
      /\ \A i \in 0..n : ~Closes(y, e[i] + 1)
      /\ \A i \in 1..n : x[i] = Dq => Closes(y, e[i])
  BY <1>3, QuotedCloses
<1>6. Len(y) = e[n] + 2 /\ e[n] \in Nat /\ y[1] = Dq /\ e[0] = 0
  BY <1>1, <1>3 DEF QuotedAt
<1>7. pieces \in Seq(Seq(NameChars)) /\ Len(pieces) = e[n] + 1
  <2>1. ASSUME NEW p \in 1..Len(y) - 1 PROVE Piece(p) \in Seq(NameChars)
    <3>1. y[p] \in NameChars
      BY <1>2
    <3>2. <<y[p]>> \in Seq(NameChars) /\ <<>> \in Seq(NameChars)
      BY <3>1
    <3> QED BY <3>2
  <2> HIDE DEF Piece
  <2>2. Len(y) - 1 \in Nat /\ Len(y) - 1 = e[n] + 1
    BY <1>6
  <2>3. pieces \in [1..Len(y) - 1 -> Seq(NameChars)]
    BY <2>1
  <2> QED BY <2>2, <2>3
<1>8. \A p \in 1..e[n] + 1 : pieces[p] = Piece(p)
  BY <1>6
<1> HIDE DEF pieces, n
<1>9. PICK g : /\ IsSum(g, NameChars, pieces, Len(pieces))
               /\ FlattenSeq(pieces) = g[Len(pieces)]
  BY <1>7, FlattenIsSum
<1>10. g[0] = <<>> /\ \A p \in 1..e[n] + 1 : g[p] = Cat(g[p - 1], pieces[p])
  BY <1>7, <1>9 DEF IsSum
<1> DEFINE T == {i \in Nat : i <= n => g[e[i] + 1] = SubSeq(x, 1, i)}
<1>11. 0 \in T
  <2>1. 1 \in 1..e[n] + 1 /\ 1 - 1 = 0 /\ 0 \in 0..n
    BY <1>1, <1>6
  <2>2. pieces[1] = <<>>
    <3>1. ~Closes(y, 1)
      BY <1>5, <1>6, <2>1
    <3> QED BY <1>6, <1>8, <2>1, <3>1
  <2>3. g[1] = Cat(<<>>, <<>>)
    BY <1>10, <2>1, <2>2
  <2>4. g[1] = <<>>
    BY <2>3 DEF Cat
  <2>5. SubSeq(x, 1, 0) = <<>>
    BY SubSeqEmpty
  <2>6. e[0] + 1 = 1
    BY <1>6
  <2>7. g[e[0] + 1] = SubSeq(x, 1, 0)
    BY <2>4, <2>5, <2>6, Zenon
  <2> QED BY <2>7, Zenon
<1>12. ASSUME NEW i \in Nat, i \in T PROVE i + 1 \in T
  <2> SUFFICES ASSUME i + 1 <= n PROVE g[e[i + 1] + 1] = SubSeq(x, 1, i + 1)
    OBVIOUS
  <2> DEFINE t == SubSeq(x, 1, i)
             c == x[i + 1]
             p == e[i] + 1
  <2>1. /\ i \in 0..n /\ i + 1 \in 0..n /\ i + 1 \in 1..n /\ (i + 1) - 1 = i
        /\ e[i] \in Nat /\ e[i + 1] \in Nat /\ e[n] \in Nat
    BY <1>1, <1>6
  <2>2. g[p] = t /\ t \in Seq(NameChars) /\ c \in NameChars
    BY <1>1, <1>12, <2>1, TextPrefixes DEF n
  <2> HIDE DEF T
  <2>3. SubSeq(x, 1, i + 1) = Cat(t, <<c>>)
    <3>1. \A k \in 1..n : SubSeq(x, 1, k) = Cat(SubSeq(x, 1, k - 1), <<x[k]>>)
      BY <1>1, TextPrefixes DEF n
    <3> QED BY <2>1, <3>1
  <2>4. /\ e[i + 1] = IF c = Dq THEN e[i] + 2 ELSE e[i] + 1
        /\ y[e[i + 1] + 1] = c /\ (c = Dq => y[e[i + 1]] = Dq)
        /\ e[i + 1] <= e[n]
    BY <1>3, <2>1 DEF QuotedAt, n
  <2>5. /\ ~Closes(y, e[i + 1] + 1)
        /\ c = Dq => Closes(y, e[i + 1])
    BY <1>5, <2>1
  <2> HIDE DEF t, c
  <2>6. Cat(t, <<c>>) \in Seq(NameChars)
    <3>1. <<c>> \in Seq(NameChars)
      BY <2>2
    <3> QED BY <2>2, <3>1, CatProperties
  <2>7. CASE c = Dq
    <3>1. /\ p + 1 \in 1..e[n] + 1 /\ p + 2 \in 1..e[n] + 1 /\ (p + 1) - 1 = p
          /\ (p + 2) - 1 = p + 1 /\ e[i + 1] = p + 1 /\ e[i + 1] + 1 = p + 2
      BY <2>1, <2>4, <2>7
    <3>2. pieces[p + 1] = <<c>>
      BY <1>8, <2>4, <2>5, <2>7, <3>1
    <3>3. pieces[p + 2] = <<>>
      BY <1>8, <2>4, <2>5, <2>7, <3>1
    <3>4. g[p + 1] = Cat(t, <<c>>)
      BY <1>10, <2>2, <3>1, <3>2
    <3>5. g[p + 2] = Cat(Cat(t, <<c>>), <<>>)
      BY <1>10, <3>1, <3>3, <3>4
    <3>6. g[p + 2] = Cat(t, <<c>>)
      BY <2>6, <3>5, CatProperties
    <3> QED BY <2>3, <3>1, <3>6
  <2>8. CASE c # Dq
    <3>1. p + 1 \in 1..e[n] + 1 /\ (p + 1) - 1 = p /\ e[i + 1] + 1 = p + 1
      BY <2>1, <2>4, <2>8
    <3>2. pieces[p + 1] = <<c>>
      BY <1>8, <2>4, <2>8, <3>1
    <3>3. g[p + 1] = Cat(t, <<c>>)
      BY <1>10, <2>2, <3>1, <3>2
    <3> QED BY <2>3, <3>1, <3>3
  <2> QED BY <2>7, <2>8
<1> HIDE DEF T
<1>13. Nat \subseteq T
  BY <1>11, <1>12, SetInduction
<1>14. g[e[n] + 1] = SubSeq(x, 1, n)
  BY <1>1, <1>13 DEF T
<1>15. SubSeq(x, 1, n) = x
  BY <1>1, TextPrefixes DEF n
<1> QED BY <1>4, <1>7, <1>9, <1>14, <1>15 DEF y

\* Quotation marks and dots are not of plain identifiers.
LEMMA Characters == Word \subseteq NameChars /\ Dq \notin Word /\ "." \notin Word /\ Dq # "."
                      /\ Dq \in NameChars /\ "." \in NameChars /\ Lower \subseteq Word /\ "A" \notin Lower
BY DEF Word, NameChars, Dq, Lower

\* How a name is written: as it is, or in quotes.
LEMMA QuoteIdent ==
  ASSUME NEW x \in Names
  PROVE  /\ quote_ident(x) \in Seq(NameChars)
         /\ quote_ident(x) # <<>>
         /\ \/ ToSet(quote_ident(x)) \subseteq Lower
            \/ IsQuoted(quote_ident(x))
         /\ Ident(quote_ident(x))
         /\ Read(quote_ident(x)) = x
<1> DEFINE q == quote_ident(x)
<1>1. x \in Seq(NameChars) /\ x # <<>> /\ Len(x) >= 1
  BY DEF Names
<1>2. CASE ToSet(x) \subseteq Lower
  <2>1. q = x
    BY <1>2 DEF quote_ident
  <2>2. \A i \in DOMAIN x : x[i] \in Lower
    BY <1>2 DEF ToSet
  <2>3. ~IsQuoted(x)
    <3>1. 1 \in DOMAIN x
      BY <1>1
    <3>2. x[1] # Dq
      BY <2>2, <3>1, Characters
    <3> QED BY <3>2 DEF IsQuoted
  <2>4. Read(x) = x
    <3>1. \A i \in DOMAIN x : (IF x[i] = "A" THEN "a" ELSE x[i]) = x[i]
      BY <2>2, Characters
    <3>2. [i \in DOMAIN x |-> IF x[i] = "A" THEN "a" ELSE x[i]] = [i \in DOMAIN x |-> x[i]]
      BY <3>1
    <3>3. [i \in DOMAIN x |-> x[i]] = x
      BY <1>1
    <3> QED BY <2>3, <3>2, <3>3 DEF Read
  <2>5. Ident(x)
    BY <1>1, <1>2, Characters DEF Ident
  <2> QED BY <1>1, <1>2, <2>1, <2>4, <2>5
<1>3. CASE ~(ToSet(x) \subseteq Lower)
  <2>1. q = Quoted(x)
    BY <1>3 DEF quote_ident
  <2>2. IsQuoted(q)
    BY <2>1, QuotedIsQuoted
  <2>3. q \in Seq(NameChars)
    BY <1>1, <2>1, QuotedPlaces
  <2>4. Len(q) >= 3
    BY <2>2 DEF IsQuoted
  <2>5. q # <<>>
    BY <2>3, <2>4
  <2>6. Read(q) = x
    BY <2>1, <2>2, UnquotedQuoted DEF Read
  <2> QED BY <2>2, <2>3, <2>5, <2>6 DEF Ident
<1> QED BY <1>2, <1>3

\* Marks of a prefix are those of the text.
LEMMA PrefixMarks ==
  ASSUME NEW S, NEW x \in Seq(S), NEW j \in 0..Len(x), NEW i \in 1..j
  PROVE  Closes(SubSeq(x, 1, j), i) <=> Closes(x, i)
<1>1. \A k \in 1..j : SubSeq(x, 1, j)[k] = x[k]
  <2>1. \A k \in 1..j : x[k] \in S
    BY ElementOfSeq
  <2>2. \A k \in 1..j - 1 + 1 : SubSeq(x, 1, j)[k] = x[1 + k - 1]
    BY <2>1, SubSeqProperties
  <2> QED BY <2>2
<1>2. {k \in 1..i : SubSeq(x, 1, j)[k] = Dq} = {k \in 1..i : x[k] = Dq}
  BY <1>1
<1> QED BY <1>1, <1>2 DEF Closes, Marks

\* A text that starts with an identifier and a dot is none itself, and no longer
\* or shorter identifier ends before a dot of it.
LEMMA FirstDot ==
  ASSUME NEW A \in Seq(NameChars), A # <<>>, ToSet(A) \subseteq Lower \/ IsQuoted(A),
         NEW key \in Seq(NameChars), Len(A) < Len(key),
         SubSeq(key, 1, Len(A)) = A, key[Len(A) + 1] = "."
  PROVE  /\ ~Ident(key)
         /\ \A j \in 1..Len(key) :
              key[j] = "." /\ Ident(SubSeq(key, 1, j - 1)) => j = Len(A) + 1
<1> DEFINE l == Len(A)
<1>1. l \in Nat /\ l >= 1 /\ Len(key) \in Nat /\ l \in 1..Len(key) - 1
  OBVIOUS
<1>2. \A j \in 1..Len(key) : \A k \in 1..j - 1 : SubSeq(key, 1, j - 1)[k] = key[k]
  <2> TAKE j \in 1..Len(key)
  <2>1. \A k \in 1..j - 1 : key[k] \in NameChars
    BY <1>1, ElementOfSeq
  <2>2. \A k \in 1..(j - 1) - 1 + 1 : SubSeq(key, 1, j - 1)[k] = key[1 + k - 1]
    BY <2>1, SubSeqProperties
  <2> QED BY <2>2
<1>3. \A k \in 1..l : A[k] = key[k]
  <2>1. l + 1 \in 1..Len(key) /\ (l + 1) - 1 = l
    BY <1>1
  <2>2. \A k \in 1..l : SubSeq(key, 1, l)[k] = key[k]
    BY <1>2, <2>1
  <2> QED BY <2>2
<1>4. \A i \in 1..l : Closes(A, i) <=> Closes(key, i)
  <2>1. \A i \in 1..l : Closes(SubSeq(key, 1, l), i) <=> Closes(key, i)
    BY <1>1, PrefixMarks
  <2> QED BY <2>1
<1>5. \A j \in 1..Len(key) : \A i \in 1..j - 1 : Closes(SubSeq(key, 1, j - 1), i) <=> Closes(key, i)
  BY <1>1, PrefixMarks
<1>6. DOMAIN A = 1..l /\ DOMAIN key = 1..Len(key)
  OBVIOUS
<1> HIDE DEF l
<1>7. CASE ToSet(A) \subseteq Lower
  <2>1. \A k \in 1..l : key[k] \in Lower
    BY <1>3, <1>6, <1>7 DEF ToSet
  <2>2. key[1] # Dq
    BY <1>1, <2>1, Characters
  <2>3. key[l + 1] = "." /\ l + 1 \in 1..Len(key)
    BY <1>1 DEF l
  <2>4. ~Ident(key)
    BY <1>6, <2>2, <2>3, Characters DEF Ident, IsQuoted, ToSet
  <2>5. ASSUME NEW j \in 1..Len(key), key[j] = ".", Ident(SubSeq(key, 1, j - 1)), j # l + 1
        PROVE  FALSE
    <3> DEFINE p == SubSeq(key, 1, j - 1)
    <3>1. j > l + 1
      <4>1. j \notin 1..l
        BY <2>1, <2>5, Characters
      <4> QED BY <1>1, <2>5, <4>1
    <3>2. /\ 1 \in 1..j - 1 /\ l + 1 \in 1..j - 1
          /\ \A k \in 1..j - 1 : p[k] = key[k]
      BY <1>1, <1>2, <3>1
    <3>3. DOMAIN p = 1..j - 1
      <4>1. \A k \in 1..j - 1 : key[k] \in NameChars
        BY <1>1, ElementOfSeq
      <4>2. p \in Seq(NameChars) /\ Len(p) = j - 1
        BY <3>1, <4>1, SubSeqProperties, <1>1
      <4> QED BY <4>2
    <3>4. Ident(p)
      BY <2>5
    <3> HIDE DEF p
    <3> QED BY <2>2, <2>3, <3>2, <3>3, <3>4, Characters DEF Ident, IsQuoted, ToSet
  <2> QED BY <2>4, <2>5, <1>6 DEF l
<1>8. CASE IsQuoted(A)
  <2>1. /\ l >= 3 /\ key[1] = Dq /\ Closes(key, l)
        /\ \A i \in 1..l - 1 : Closes(key, i) => key[i + 1] = Dq
    <3>1. /\ l >= 3 /\ A[1] = Dq /\ Closes(A, l)
          /\ \A i \in 1..l - 1 : Closes(A, i) => A[i + 1] = Dq
      BY <1>8 DEF IsQuoted, l
    <3>2. \A i \in 1..l - 1 : i \in 1..l /\ i + 1 \in 1..l
      BY <1>1
    <3>3. 1 \in 1..l /\ l \in 1..l
      BY <1>1
    <3> QED BY <1>3, <1>4, <3>1, <3>2, <3>3
  <2>2. key[l + 1] = "." /\ l + 1 \in 1..Len(key)
    BY <1>1 DEF l
  <2>3. ~Ident(key)
    <3>1. 1 \in DOMAIN key /\ ~(ToSet(key) \subseteq Word)
      BY <1>1, <1>6, <2>2, Characters DEF ToSet
    <3>2. ~IsQuoted(key)
      BY <1>1, <2>1, <2>2, Characters DEF IsQuoted
    <3> QED BY <3>1, <3>2 DEF Ident
  <2>4. ASSUME NEW j \in 1..Len(key), key[j] = ".", Ident(SubSeq(key, 1, j - 1)), j # l + 1
        PROVE  FALSE
    <3> DEFINE p == SubSeq(key, 1, j - 1)
    <3>1. /\ p \in Seq(NameChars) /\ Len(p) = j - 1 /\ DOMAIN p = 1..j - 1
          /\ \A k \in 1..j - 1 : p[k] = key[k]
      <4>1. \A k \in 1..j - 1 : key[k] \in NameChars
        BY <1>1, ElementOfSeq
      <4>2. p \in Seq(NameChars) /\ Len(p) = j - 1
        BY <4>1, SubSeqProperties, <1>1
      <4> QED BY <1>2, <4>2
    <3>2. Ident(p)
      BY <2>4
    <3>3. \A i \in 1..j - 1 : Closes(p, i) <=> Closes(key, i)
      BY <1>5
    <3> HIDE DEF p
    <3>4. IsQuoted(p)
      <4>1. CASE IsQuoted(p)
        BY <4>1
      <4>2. CASE p # <<>> /\ ToSet(p) \subseteq Word
        <5>1. 1 \in DOMAIN p
          BY <3>1, <4>2
        <5>2. p[1] = Dq
          BY <2>1, <3>1, <5>1
        <5> QED BY <4>2, <5>1, <5>2, Characters DEF ToSet
      <4> QED BY <3>2, <4>1, <4>2 DEF Ident
    <3>5. /\ j - 1 >= 3 /\ Closes(p, j - 1)
          /\ \A i \in 1..(j - 1) - 1 : Closes(p, i) => p[i + 1] = Dq
      BY <3>1, <3>4 DEF IsQuoted
    <3>6. CASE j <= l
      <4>1. j - 1 \in 1..l - 1 /\ j - 1 \in 1..j - 1 /\ (j - 1) + 1 = j
        BY <1>1, <3>5, <3>6
      <4>2. Closes(key, j - 1)
        BY <3>3, <3>5, <4>1
      <4>3. key[j] = Dq
        BY <2>1, <4>1, <4>2
      <4> QED BY <2>4, <4>3, Characters
    <3>7. CASE j > l + 1
      <4>1. l \in 1..(j - 1) - 1 /\ l \in 1..j - 1 /\ l + 1 \in 1..j - 1
        BY <1>1, <3>7
      <4>2. Closes(p, l)
        BY <2>1, <3>3, <4>1
      <4>3. p[l + 1] = Dq
        BY <3>5, <4>1, <4>2
      <4> QED BY <2>2, <3>1, <4>1, <4>3, Characters
    <3> QED BY <1>1, <2>4, <3>6, <3>7
  <2> QED BY <2>3, <2>4, <1>6 DEF l
<1> QED BY <1>7, <1>8

\* What parse_table registers is read in one way.
LEMMA OneMatch ==
  ASSUME NEW a \in Names, NEW b \in Names
  PROVE  Matches(Qualified(a, b)) = {<<quote_ident(a), quote_ident(b)>>}
<1> DEFINE A == quote_ident(a)
           B == quote_ident(b)
           key == A \o <<".">> \o B
           l == Len(A)
<1>1. /\ A \in Seq(NameChars) /\ A # <<>> /\ (ToSet(A) \subseteq Lower \/ IsQuoted(A)) /\ Ident(A)
      /\ B \in Seq(NameChars) /\ B # <<>> /\ Ident(B)
  BY QuoteIdent
<1>2. Qualified(a, b) = key
  BY DEF Qualified
<1> HIDE DEF A, B
<1>3. /\ key \in Seq(NameChars) /\ Len(key) = l + 1 + Len(B) /\ key[l + 1] = "."
      /\ l \in Nat /\ Len(B) \in Nat /\ Len(B) >= 1
      /\ \A k \in 1..l : key[k] = A[k]
      /\ \A k \in 1..Len(B) : key[l + 1 + k] = B[k]
  BY <1>1, Characters
<1> HIDE DEF key
<1>4. \A k \in 1..Len(key) : key[k] \in NameChars
  BY <1>3, ElementOfSeq
<1>5. SubSeq(key, 1, l) = A
  <2> DEFINE p == SubSeq(key, 1, l)
  <2>1. \A k \in 1..l : key[k] \in NameChars
    BY <1>3, <1>4
  <2>2. p \in Seq(NameChars) /\ Len(p) = l /\ \A k \in 1..l - 1 + 1 : p[k] = key[1 + k - 1]
    BY <1>3, <2>1, SubSeqProperties
  <2> HIDE DEF p
  <2>3. \A k \in 1..l : p[k] = A[k]
    BY <1>3, <2>2
  <2>4. p = A
    BY <1>1, <2>2, <2>3, SeqEqual
  <2> QED BY <2>4 DEF p
<1>6. SubSeq(key, l + 1 + 1, Len(key)) = B
  <2> DEFINE p == SubSeq(key, l + 1 + 1, Len(key))
  <2>1. \A k \in l + 1 + 1..Len(key) : key[k] \in NameChars
    BY <1>3, <1>4
  <2>2. /\ p \in Seq(NameChars) /\ Len(p) = Len(B)
        /\ \A k \in 1..Len(key) - (l + 1 + 1) + 1 : p[k] = key[(l + 1 + 1) + k - 1]
    BY <1>3, <2>1, SubSeqProperties
  <2> HIDE DEF p
  <2>3. \A k \in 1..Len(B) : p[k] = B[k]
    <3> TAKE k \in 1..Len(B)
    <3>1. k \in 1..Len(key) - (l + 1 + 1) + 1 /\ (l + 1 + 1) + k - 1 = l + 1 + k
      BY <1>3
    <3> QED BY <1>3, <2>2, <3>1
  <2>4. p = B
    BY <1>1, <2>2, <2>3, SeqEqual
  <2> QED BY <2>4 DEF p
<1>7. /\ ~Ident(key)
      /\ \A j \in 1..Len(key) : key[j] = "." /\ Ident(SubSeq(key, 1, j - 1)) => j = l + 1
  <2>1. l < Len(key)
    BY <1>3
  <2> QED BY <1>1, <1>3, <1>5, <2>1, FirstDot
<1>8. DOMAIN key = 1..Len(key) /\ l + 1 \in 1..Len(key) /\ (l + 1) - 1 = l
  BY <1>3
<1> DEFINE Dots == {j \in DOMAIN key : /\ key[j] = "."
                                       /\ Ident(SubSeq(key, 1, j - 1))
                                       /\ Ident(SubSeq(key, j + 1, Len(key)))}
<1>9. Dots = {l + 1}
  <2>1. l + 1 \in Dots
    BY <1>1, <1>3, <1>5, <1>6, <1>8
  <2>2. \A j \in Dots : j = l + 1
    BY <1>7, <1>8
  <2> HIDE DEF Dots
  <2> QED BY <2>1, <2>2
<1>10. {y \in {key} : Ident(y)} = {}
  BY <1>7
<1>11. Matches(key) = {<<SubSeq(key, 1, i - 1), SubSeq(key, i + 1, Len(key))>> : i \in Dots}
  BY <1>10 DEF Matches
<1> HIDE DEF Dots
<1>12. Matches(key) = {<<SubSeq(key, 1, (l + 1) - 1), SubSeq(key, (l + 1) + 1, Len(key))>>}
  BY <1>9, <1>11
<1> QED BY <1>2, <1>5, <1>6, <1>8, <1>12 DEF A, B

\* A registered name spells the schema and the name it was made of, and nothing
\* else; the table that CREATE TABLE makes of it has them, as far as they are kept.
THEOREM NamedQualified ==
  ASSUME NEW a \in Names, NEW b \in Names
  PROVE  /\ Spelled(Qualified(a, b)) = <<a, b>>
         /\ Named(Qualified(a, b)) = <<Cut(a), Cut(b)>>
<1>1. Matches(Qualified(a, b)) = {<<quote_ident(a), quote_ident(b)>>}
  BY OneMatch
<1>2. (CHOOSE m \in Matches(Qualified(a, b)) : TRUE) = <<quote_ident(a), quote_ident(b)>>
  BY <1>1
<1>3. Read(quote_ident(a)) = a /\ Read(quote_ident(b)) = b
  BY QuoteIdent
<1> DEFINE m == <<quote_ident(a), quote_ident(b)>>
<1>4. Spelled(Qualified(a, b)) = <<Read(m[1]), Read(m[2])>>
  BY <1>2 DEF Spelled
<1>5. Spelled(Qualified(a, b)) = <<a, b>>
  BY <1>3, <1>4
<1> QED BY <1>5 DEF Named

\* Different tables are registered under different names.
LEMMA QualifiedInjective ==
  ASSUME NEW a \in Names, NEW b \in Names, NEW c \in Names, NEW d \in Names,
         Qualified(a, b) = Qualified(c, d)
  PROVE  a = c /\ b = d
<1>1. <<a, b>> = <<c, d>>
  BY NamedQualified
<1> QED BY <1>1

-----------------------------------------------------------------------------
(***************************************************************************)
(* URIs: what is encoded is read back, and is where it was put.            *)
(***************************************************************************)

\* The characters of encoded texts.
Encoded == UriChars \ {"?", "&", "=", "/", Comma, Blank}

\* A comma and a blank are neither other separators nor digits.
LEMMA Separators ==
  /\ Comma # Blank /\ Comma \notin {"%", "/", "?", "&", "="} /\ Blank \notin {"%", "/", "?", "&", "="}
  /\ Comma \notin {"0", "2", "3", "5", "6", "C", "D", "F"}
  /\ Blank \notin {"0", "2", "3", "5", "6", "C", "D", "F"}
BY DEF Comma, Blank

\* Two hexadecimal digits stand for one special character, and for no other.
LEMMA HexDigits ==
  /\ \A c \in Special : /\ Hex[c] \in Seq(Encoded) /\ Len(Hex[c]) = 2
                        /\ Hex[c][1] # "%" /\ Hex[c][2] # "%"
  /\ \A c, d \in Special : Hex[c] = Hex[d] => c = d
<1>1. /\ Hex["%"] = <<"2", "5">> /\ Hex["/"] = <<"2", "F">> /\ Hex["?"] = <<"3", "F">>
      /\ Hex["&"] = <<"2", "6">> /\ Hex["="] = <<"3", "D">> /\ Hex[Comma] = <<"2", "C">>
      /\ Hex[Blank] = <<"2", "0">>
  BY Separators DEF Hex, Special
<1>3. ASSUME NEW c \in Special, NEW d \in Special, Hex[c] = Hex[d] PROVE c = d
  <2> DEFINE H1(u) == Hex[u][1]
             H2(u) == Hex[u][2]
  <2>1. H1("%") = "2" /\ H2("%") = "5"
    <3>1. Hex["%"] = <<"2", "5">>
      BY Separators DEF Hex, Special
    <3> QED BY <3>1
  <2>2. H1("/") = "2" /\ H2("/") = "F"
    <3>1. Hex["/"] = <<"2", "F">>
      BY Separators DEF Hex, Special
    <3> QED BY <3>1
  <2>3. H1("?") = "3" /\ H2("?") = "F"
    <3>1. Hex["?"] = <<"3", "F">>
      BY Separators DEF Hex, Special
    <3> QED BY <3>1
  <2>4. H1("&") = "2" /\ H2("&") = "6"
    <3>1. Hex["&"] = <<"2", "6">>
      BY Separators DEF Hex, Special
    <3> QED BY <3>1
  <2>5. H1("=") = "3" /\ H2("=") = "D"
    <3>1. Hex["="] = <<"3", "D">>
      BY Separators DEF Hex, Special
    <3> QED BY <3>1
  <2>6. H1(Comma) = "2" /\ H2(Comma) = "C"
    <3>1. Hex[Comma] = <<"2", "C">>
      BY Separators DEF Hex, Special
    <3> QED BY <3>1
  <2>7. H1(Blank) = "2" /\ H2(Blank) = "0"
    <3>1. Hex[Blank] = <<"2", "0">>
      BY Separators DEF Hex, Special
    <3> QED BY <3>1
  <2>8. H1(c) = H1(d) /\ H2(c) = H2(d)
    BY <1>3
  <2> HIDE DEF H1, H2
  <2> QED BY <2>1, <2>2, <2>3, <2>4, <2>5, <2>6, <2>7, <2>8, Separators DEF Special
<1>4. ASSUME NEW c \in Special
      PROVE  \E a, b \in {"0", "2", "3", "5", "6", "C", "D", "F"} : Hex[c] = <<a, b>>
  <2>1. Hex[c] \in {<<"2", "5">>, <<"2", "F">>, <<"3", "F">>, <<"2", "6">>, <<"3", "D">>,
                    <<"2", "C">>, <<"2", "0">>}
    BY <1>1 DEF Special
  <2> QED BY <2>1, Zenon
<1>5. ASSUME NEW c \in Special
      PROVE /\ Hex[c] \in Seq(Encoded) /\ Len(Hex[c]) = 2
            /\ Hex[c][1] # "%" /\ Hex[c][2] # "%"
  <2> DEFINE h == Hex[c]
  <2>1. PICK a, b \in {"0", "2", "3", "5", "6", "C", "D", "F"} : h = <<a, b>>
    BY <1>4
  <2>2. a \in Encoded /\ b \in Encoded /\ a # "%" /\ b # "%"
    BY Separators DEF Encoded, UriChars, Special
  <2> HIDE DEF h
  <2>3. h \in Seq(Encoded) /\ Len(h) = 2 /\ h[1] = a /\ h[2] = b
    BY <2>1, <2>2
  <2> QED BY <2>2, <2>3 DEF h
<1> QED BY <1>3, <1>5

\* Where the characters of x are in y, the encoded text: the i-th ends at e[i].
EncodedAt(x, y, e) ==
  /\ e[0] = 0
  /\ Len(y) = e[Len(x)]
  /\ \A i \in 1..Len(x) :
       IF x[i] \in Special
       THEN /\ e[i] = e[i - 1] + 3
            /\ y[e[i - 1] + 1] = "%"
            /\ y[e[i - 1] + 2] = Hex[x[i]][1]
            /\ y[e[i - 1] + 3] = Hex[x[i]][2]
       ELSE /\ e[i] = e[i - 1] + 1
            /\ y[e[i - 1] + 1] = x[i]
  /\ \A j \in 1..e[Len(x)] : \E i \in 1..Len(x) :
       j = e[i - 1] + 1 \/ (x[i] \in Special /\ (j = e[i - 1] + 2 \/ j = e[i - 1] + 3))
  /\ \A m \in 0..Len(x) : \A i \in 0..m : e[i] <= e[m]

\* An encoded text has the code of each character at its place.
LEMMA EncodedPlaces ==
  ASSUME NEW x \in Seq(UriChars)
  PROVE  /\ uri_encode(x) \in Seq(Encoded)
         /\ \E e \in [0..Len(x) -> Nat] : EncodedAt(x, uri_encode(x), e)
<1> DEFINE pieces == [i \in DOMAIN x |-> Encode(x[i])]
           n == Len(x)
           F == FlattenSeq(pieces)
<1>1. n \in Nat /\ \A i \in 1..n : x[i] \in UriChars
  OBVIOUS
<1>2. \A c \in UriChars :
        /\ Encode(c) \in Seq(Encoded)
        /\ c \in Special => /\ Len(Encode(c)) = 3 /\ Encode(c)[1] = "%"
                            /\ Encode(c)[2] = Hex[c][1] /\ Encode(c)[3] = Hex[c][2]
        /\ c \notin Special => Len(Encode(c)) = 1 /\ Encode(c)[1] = c
  <2> TAKE c \in UriChars
  <2>1. CASE c \in Special
    <3> DEFINE h == Hex[c]
    <3>1. h \in Seq(Encoded) /\ Len(h) = 2
      BY <2>1, HexDigits
    <3>2. "%" \in Encoded
      BY Separators DEF Encoded, UriChars, Special
    <3>3. Encode(c) = <<"%">> \o h
      BY <2>1 DEF Encode
    <3> HIDE DEF h
    <3> DEFINE p == <<"%">>
               s == Cat(p, h)
    <3>4. s \in Seq(Encoded) /\ Len(s) = 3 /\ s[1] = "%" /\ s[2] = h[1] /\ s[3] = h[2]
      <4> HIDE DEF h
      <4>1. p \in Seq(Encoded) /\ Len(p) = 1 /\ p[1] = "%"
        BY <3>2
      <4> HIDE DEF p
      <4>2. s \in Seq(Encoded)
        BY <3>1, <4>1, CatProperties
      <4>3. Joins(s, p, h)
        BY <3>1, <4>1, CatJoins
      <4>5. 1 \in 1..Len(p) /\ 1 \in 1..Len(h) /\ 2 \in 1..Len(h)
        BY <3>1, <4>1
      <4> HIDE DEF s
      <4> QED BY <3>1, <4>1, <4>2, <4>3, <4>5 DEF Joins
    <3> HIDE DEF s
    <3>5. /\ Encode(c) \in Seq(Encoded) /\ Len(Encode(c)) = 3 /\ Encode(c)[1] = "%"
          /\ Encode(c)[2] = h[1] /\ Encode(c)[3] = h[2]
      BY <3>3, <3>4 DEF s, Cat
    <3> QED BY <2>1, <3>5 DEF h
  <2>2. CASE c \notin Special
    <3>1. Encode(c) = <<c>>
      BY <2>2 DEF Encode
    <3>2. c \in Encoded
      BY <2>2 DEF Encoded, Special
    <3> QED BY <2>2, <3>1, <3>2
  <2> QED BY <2>1, <2>2
<1>3. pieces \in Seq(Seq(Encoded)) /\ Len(pieces) = n
  <2>1. pieces \in [1..n -> Seq(Encoded)]
    BY <1>1, <1>2
  <2> QED BY <1>1, <2>1
<1>4. \A i \in 1..n : pieces[i] = Encode(x[i])
  OBVIOUS
<1>5. uri_encode(x) = F
  BY DEF uri_encode
<1> HIDE DEF pieces
<1>6. PICK f : /\ IsSum(f, Encoded, pieces, Len(pieces))
               /\ F = f[Len(pieces)]
               /\ F \in Seq(Encoded)
  BY <1>3, FlattenIsSum
<1>7. PICK e \in [0..Len(pieces) -> Nat] :
           /\ \A i \in 0..Len(pieces) : e[i] = Len(f[i])
           /\ e[0] = 0
           /\ \A i \in 1..Len(pieces) : e[i] = e[i - 1] + Len(pieces[i])
           /\ \A m \in 0..Len(pieces) : Places(e, f, pieces, m)
  BY <1>3, <1>6, SumPlaces
<1> HIDE DEF F, n
<1>8. e \in [0..n -> Nat] /\ Places(e, f, pieces, n) /\ e[n] = Len(F) /\ F = f[n]
  BY <1>1, <1>3, <1>6, <1>7
<1>9. ASSUME NEW i \in 1..n
      PROVE  IF x[i] \in Special
             THEN /\ e[i] = e[i - 1] + 3
                  /\ F[e[i - 1] + 1] = "%"
                  /\ F[e[i - 1] + 2] = Hex[x[i]][1]
                  /\ F[e[i - 1] + 3] = Hex[x[i]][2]
             ELSE /\ e[i] = e[i - 1] + 1
                  /\ F[e[i - 1] + 1] = x[i]
  <2>1. e[i] = e[i - 1] + Len(pieces[i]) /\ pieces[i] = Encode(x[i]) /\ x[i] \in UriChars
    BY <1>1, <1>3, <1>4, <1>7
  <2>2. \A k \in 1..Len(pieces[i]) : F[e[i - 1] + k] = pieces[i][k]
    BY <1>8 DEF Places
  <2>3. CASE x[i] \in Special
    <3>1. /\ Len(pieces[i]) = 3 /\ pieces[i][1] = "%"
          /\ pieces[i][2] = Hex[x[i]][1] /\ pieces[i][3] = Hex[x[i]][2]
      BY <1>2, <2>1, <2>3
    <3>2. 1 \in 1..3 /\ 2 \in 1..3 /\ 3 \in 1..3
      OBVIOUS
    <3> QED BY <2>1, <2>2, <2>3, <3>1, <3>2
  <2>4. CASE x[i] \notin Special
    <3>1. Len(pieces[i]) = 1 /\ pieces[i][1] = x[i]
      BY <1>2, <2>1, <2>4
    <3> QED BY <2>1, <2>2, <2>4, <3>1
  <2> QED BY <2>3, <2>4
<1>10. ASSUME NEW j \in 1..e[n]
       PROVE  \E i \in 1..n :
                j = e[i - 1] + 1 \/ (x[i] \in Special /\ (j = e[i - 1] + 2 \/ j = e[i - 1] + 3))
  <2>1. PICK i \in 1..n : \E k \in 1..Len(pieces[i]) : j = e[i - 1] + k
    BY <1>8 DEF Places
  <2>2. PICK k \in 1..Len(pieces[i]) : j = e[i - 1] + k
    BY <2>1
  <2>3. /\ x[i] \in Special => Len(pieces[i]) = 3
        /\ x[i] \notin Special => Len(pieces[i]) = 1
    BY <1>1, <1>2, <1>4
  <2>4. k = 1 \/ (x[i] \in Special /\ (k = 2 \/ k = 3))
    BY <2>3
  <2> QED BY <2>2, <2>4
<1>11. \A m \in 0..n : \A i \in 0..m : e[i] <= e[m]
  BY <1>3, <1>7 DEF Places
<1>12. EncodedAt(x, F, e)
  BY <1>7, <1>8, <1>9, <1>10, <1>11 DEF EncodedAt, n
<1> QED BY <1>5, <1>6, <1>8, <1>12 DEF n

\* In an encoded text, a percent sign starts the escape of a character of x.
LEMMA Percents ==
  ASSUME NEW x \in Seq(UriChars), NEW y \in Seq(Encoded), NEW e \in [0..Len(x) -> Nat], EncodedAt(x, y, e),
         NEW j \in 1..Len(y), y[j] = "%"
  PROVE  \E i \in 1..Len(x) : x[i] \in Special /\ j = e[i - 1] + 1
<1>1. PICK i \in 1..Len(x) :
         j = e[i - 1] + 1 \/ (x[i] \in Special /\ (j = e[i - 1] + 2 \/ j = e[i - 1] + 3))
  BY DEF EncodedAt
<1>2. CASE x[i] \in Special
  <2>1. y[e[i - 1] + 2] = Hex[x[i]][1] /\ y[e[i - 1] + 3] = Hex[x[i]][2]
    BY <1>2 DEF EncodedAt
  <2>2. Hex[x[i]][1] # "%" /\ Hex[x[i]][2] # "%"
    BY <1>2, HexDigits
  <2> QED BY <1>1, <1>2, <2>1, <2>2
<1>3. CASE x[i] \notin Special
  <2>1. y[e[i - 1] + 1] = x[i] /\ "%" \in Special
    BY <1>3 DEF EncodedAt, Special
  <2> QED BY <1>1, <1>3, <2>1
<1> QED BY <1>2, <1>3

\* In an encoded text, an escape stands where a special character of x was
\* encoded, for that character, and nowhere else.
LEMMA EscapedOf ==
  ASSUME NEW x \in Seq(UriChars), NEW y \in Seq(Encoded), NEW e \in [0..Len(x) -> Nat], EncodedAt(x, y, e)
  PROVE  /\ \A i \in 1..Len(x) : x[i] \in Special => Escaped(y, e[i - 1] + 1) = {x[i]}
         /\ \A j \in Int : (\A i \in 1..Len(x) : x[i] \in Special => j # e[i - 1] + 1) => Escaped(y, j) = {}
<1>1. Len(y) \in Nat /\ Len(x) \in Nat /\ e[Len(x)] = Len(y) /\ \A k \in 1..Len(y) : y[k] \in Encoded
  BY DEF EncodedAt
<1>2. ASSUME NEW j \in 1..Len(y) - 2
      PROVE  /\ SubSeq(y, j, j + 2) \in Seq(Encoded) /\ Len(SubSeq(y, j, j + 2)) = 3
             /\ SubSeq(y, j, j + 2)[1] = y[j] /\ SubSeq(y, j, j + 2)[2] = y[j + 1]
             /\ SubSeq(y, j, j + 2)[3] = y[j + 2]
  <2> DEFINE p == SubSeq(y, j, j + 2)
  <2>0. j \in Nat /\ j >= 1 /\ j + 2 \in Nat
    OBVIOUS
  <2>1. \A k \in j..j + 2 : y[k] \in Encoded
    BY <1>1
  <2>2. p \in Seq(Encoded) /\ Len(p) = 3 /\ \A k \in 1..(j + 2) - j + 1 : p[k] = y[j + k - 1]
    BY <2>0, <2>1, SubSeqProperties
  <2> HIDE DEF p
  <2>3. 1 \in 1..(j + 2) - j + 1 /\ 2 \in 1..(j + 2) - j + 1 /\ 3 \in 1..(j + 2) - j + 1
    BY <2>0
  <2>4. p[1] = y[j + 1 - 1] /\ p[2] = y[j + 2 - 1] /\ p[3] = y[j + 3 - 1]
    BY <2>2, <2>3
  <2>5. j + 1 - 1 = j /\ j + 2 - 1 = j + 1 /\ j + 3 - 1 = j + 2
    BY <2>0
  <2>6. p[1] = y[j] /\ p[2] = y[j + 1] /\ p[3] = y[j + 2]
    BY <2>4, <2>5
  <2> QED BY <2>2, <2>6 DEF p
<1>3. "%" \in Encoded
  BY Separators DEF Encoded, UriChars, Special
<1>4. ASSUME NEW c \in Special
      PROVE  /\ Cat(<<"%">>, Hex[c]) \in Seq(Encoded) /\ Len(Cat(<<"%">>, Hex[c])) = 3
             /\ Cat(<<"%">>, Hex[c])[1] = "%" /\ Cat(<<"%">>, Hex[c])[2] = Hex[c][1]
             /\ Cat(<<"%">>, Hex[c])[3] = Hex[c][2]
  <2> DEFINE p == <<"%">>
             h == Hex[c]
             s == Cat(p, h)
  <2>1. p \in Seq(Encoded) /\ Len(p) = 1 /\ p[1] = "%"
    BY <1>3
  <2>2. h \in Seq(Encoded) /\ Len(h) = 2
    BY HexDigits
  <2> HIDE DEF p, h
  <2>3. s \in Seq(Encoded)
    BY <2>1, <2>2, CatProperties
  <2>4. Joins(s, p, h)
    BY <2>1, <2>2, CatJoins
  <2> HIDE DEF s
  <2>5. 1 \in 1..Len(p) /\ 1 \in 1..Len(h) /\ 2 \in 1..Len(h)
    BY <2>1, <2>2
  <2>6. Len(s) = 3 /\ s[1] = "%" /\ s[2] = h[1] /\ s[3] = h[2]
    BY <2>1, <2>2, <2>4, <2>5 DEF Joins
  <2> QED BY <2>3, <2>6 DEF s, p, h
<1>5. ASSUME NEW c \in Special, NEW j \in 1..Len(y) - 2
      PROVE  SubSeq(y, j, j + 2) = <<"%">> \o Hex[c]
               <=> y[j] = "%" /\ y[j + 1] = Hex[c][1] /\ y[j + 2] = Hex[c][2]
  <2> DEFINE p == SubSeq(y, j, j + 2)
             s == Cat(<<"%">>, Hex[c])
  <2>1. /\ p \in Seq(Encoded) /\ Len(p) = 3
        /\ p[1] = y[j] /\ p[2] = y[j + 1] /\ p[3] = y[j + 2]
    BY <1>2
  <2>2. /\ s \in Seq(Encoded) /\ Len(s) = 3
        /\ s[1] = "%" /\ s[2] = Hex[c][1] /\ s[3] = Hex[c][2]
    BY <1>4
  <2> HIDE DEF p, s
  <2>3. p = s <=> p[1] = s[1] /\ p[2] = s[2] /\ p[3] = s[3]
    <3>1. ASSUME p[1] = s[1], p[2] = s[2], p[3] = s[3] PROVE p = s
      <4>1. \A k \in 1..Len(p) : p[k] = s[k]
        BY <2>1, <3>1
      <4> QED BY <2>1, <2>2, <4>1, SeqEqual
    <3> QED BY <3>1
  <2>4. p = s <=> y[j] = "%" /\ y[j + 1] = Hex[c][1] /\ y[j + 2] = Hex[c][2]
    BY <2>1, <2>2, <2>3
  <2> QED BY <2>4 DEF p, s, Cat
<1>6. \A c, d \in Special : Hex[c][1] = Hex[d][1] /\ Hex[c][2] = Hex[d][2] => c = d
  <2> SUFFICES ASSUME NEW c \in Special, NEW d \in Special,
                      Hex[c][1] = Hex[d][1], Hex[c][2] = Hex[d][2]
               PROVE  c = d
    OBVIOUS
  <2>1. Hex[c] = Hex[d]
    <3> DEFINE h == Hex[c]
               g == Hex[d]
    <3>1. h \in Seq(Encoded) /\ g \in Seq(Encoded) /\ Len(h) = 2 /\ Len(g) = 2 /\ h[1] = g[1] /\ h[2] = g[2]
      BY HexDigits
    <3> HIDE DEF h, g
    <3>2. \A k \in 1..Len(h) : h[k] = g[k]
      BY <3>1
    <3>3. h = g
      BY <3>1, <3>2, SeqEqual
    <3> QED BY <3>3 DEF h, g
  <2> QED BY <2>1, HexDigits
<1>7. ASSUME NEW i \in 1..Len(x), x[i] \in Special PROVE Escaped(y, e[i - 1] + 1) = {x[i]}
  <2> DEFINE j == e[i - 1] + 1
  <2>1. /\ i - 1 \in 0..Len(x) /\ i \in 0..Len(x) /\ Len(x) \in 0..Len(x)
        /\ e[i - 1] \in Nat /\ e[i] \in Nat
    BY <1>1
  <2>2. e[i] <= Len(y)
    BY <1>1, <2>1 DEF EncodedAt
  <2>3. /\ e[i] = e[i - 1] + 3 /\ y[e[i - 1] + 1] = "%"
        /\ y[e[i - 1] + 2] = Hex[x[i]][1] /\ y[e[i - 1] + 3] = Hex[x[i]][2]
    BY <1>7 DEF EncodedAt
  <2>4. j \in 1..Len(y) - 2 /\ j + 1 = e[i - 1] + 2 /\ j + 2 = e[i - 1] + 3
    <3> DEFINE b == e[i - 1]
               l == Len(y)
    <3>1. b \in Nat /\ l \in Nat /\ b + 3 <= l /\ j = b + 1
      BY <1>1, <2>1, <2>2, <2>3
    <3> HIDE DEF b, l, j
    <3>2. j \in 1..l - 2 /\ j + 1 = b + 2 /\ j + 2 = b + 3
      BY <3>1
    <3> QED BY <3>2 DEF b, l
  <2>5. \A c \in Special : SubSeq(y, j, j + 2) = <<"%">> \o Hex[c] <=> c = x[i]
    <3> TAKE c \in Special
    <3>1. SubSeq(y, j, j + 2) = <<"%">> \o Hex[c]
               <=> y[j] = "%" /\ y[j + 1] = Hex[c][1] /\ y[j + 2] = Hex[c][2]
      BY <1>5, <2>4
    <3>2. y[j] = "%" /\ y[j + 1] = Hex[x[i]][1] /\ y[j + 2] = Hex[x[i]][2]
      BY <2>3, <2>4
    <3> HIDE DEF j
    <3> QED BY <1>6, <1>7, <3>1, <3>2, Zenon
  <2>6. Escaped(y, j) = {c \in Special : c = x[i]}
    BY <2>4, <2>5 DEF Escaped
  <2> QED BY <1>7, <2>6
<1>8. ASSUME NEW j \in Int, \A i \in 1..Len(x) : x[i] \in Special => j # e[i - 1] + 1
      PROVE  Escaped(y, j) = {}
  <2> SUFFICES ASSUME NEW c \in Special, j \in 1..Len(y) - 2, SubSeq(y, j, j + 2) = <<"%">> \o Hex[c]
               PROVE  FALSE
    BY DEF Escaped
  <2>1. y[j] = "%"
    BY <1>5
  <2>2. j \in 1..Len(y)
    BY <1>1
  <2>3. PICK k \in 1..Len(y) : k = j /\ y[k] = "%"
    BY <2>1, <2>2
  <2>4. \E i \in 1..Len(x) : x[i] \in Special /\ k = e[i - 1] + 1
    BY <2>3, Percents
  <2> QED BY <1>8, <2>3, <2>4
<1> QED BY <1>7, <1>8

\* What decoding puts for the character at p.
Decoded(y, p) ==
  IF Escaped(y, p - 1) \cup Escaped(y, p - 2) # {} THEN <<>>
  ELSE IF Escaped(y, p) = {} THEN <<y[p]>>
  ELSE <<CHOOSE c \in Escaped(y, p) : TRUE>>

\* Each character of x comes back at the first place of its code.
LEMMA DecodedOf ==
  ASSUME NEW x \in Seq(UriChars), NEW y \in Seq(Encoded), NEW e \in [0..Len(x) -> Nat], EncodedAt(x, y, e),
         NEW i \in 1..Len(x)
  PROVE  /\ Decoded(y, e[i - 1] + 1) = <<x[i]>>
         /\ x[i] \in Special => /\ Decoded(y, e[i - 1] + 2) = <<>>
                                /\ Decoded(y, e[i - 1] + 3) = <<>>
<1> DEFINE p == e[i - 1] + 1
<1>1. /\ Len(x) \in Nat /\ i - 1 \in 0..Len(x) /\ i \in 0..Len(x)
      /\ e[i - 1] \in Nat /\ e[i] \in Nat /\ p \in Nat
  OBVIOUS
<1>2. \A k \in 1..Len(x) : /\ k - 1 \in 0..Len(x) /\ e[k - 1] \in Nat /\ e[k] \in Nat
                           /\ x[k] \in Special => e[k] = e[k - 1] + 3
                           /\ x[k] \notin Special => e[k] = e[k - 1] + 1
  <2> TAKE k \in 1..Len(x)
  <2>1. k - 1 \in 0..Len(x) /\ k \in 0..Len(x)
    BY <1>1
  <2>2. /\ x[k] \in Special => e[k] = e[k - 1] + 3
        /\ x[k] \notin Special => e[k] = e[k - 1] + 1
    BY DEF EncodedAt
  <2> QED BY <2>1, <2>2
<1>3. \A k \in 1..Len(x) : k < i => e[k] <= e[i - 1]
  <2> TAKE k \in 1..Len(x)
  <2> SUFFICES ASSUME k < i PROVE e[k] <= e[i - 1]
    OBVIOUS
  <2>1. k \in 0..i - 1
    BY <1>1
  <2> QED BY <1>1, <2>1 DEF EncodedAt
<1>4. \A k \in 1..Len(x) : k > i => e[i] <= e[k - 1]
  <2> TAKE k \in 1..Len(x)
  <2> SUFFICES ASSUME k > i PROVE e[i] <= e[k - 1]
    OBVIOUS
  <2>1. i \in 0..k - 1 /\ k - 1 \in 0..Len(x)
    BY <1>1
  <2> QED BY <2>1 DEF EncodedAt
<1>5. /\ \A k \in 1..Len(x) : x[k] \in Special => Escaped(y, e[k - 1] + 1) = {x[k]}
      /\ \A j \in Int : (\A k \in 1..Len(x) : x[k] \in Special => j # e[k - 1] + 1) => Escaped(y, j) = {}
  BY EscapedOf
<1>6. ASSUME NEW k \in 1..Len(x), x[k] \in Special
      PROVE  /\ p - 1 # e[k - 1] + 1 /\ p - 2 # e[k - 1] + 1
             /\ x[i] \notin Special => p # e[k - 1] + 1
  <2>1. e[k] = e[k - 1] + 3 /\ e[k - 1] \in Nat
    BY <1>2, <1>6
  <2> DEFINE a == e[k - 1]
             b == e[i - 1]
  <2>2. CASE k < i
    <3>1. e[k] <= e[i - 1]
      BY <1>3, <2>2
    <3>2. a \in Nat /\ b \in Nat /\ a + 3 <= b /\ p = b + 1
      BY <1>1, <2>1, <3>1
    <3> HIDE DEF a, b, p
    <3>3. p - 1 # a + 1 /\ p - 2 # a + 1 /\ p # a + 1
      BY <3>2
    <3> QED BY <3>3 DEF a
  <2>3. CASE k > i
    <3>1. e[i] <= e[k - 1]
      BY <1>4, <2>3
    <3>2. e[i] = e[i - 1] + 1 \/ e[i] = e[i - 1] + 3
      BY <1>2
    <3>3. a \in Nat /\ b \in Nat /\ b + 1 <= a /\ p = b + 1
      BY <1>1, <2>1, <3>1, <3>2
    <3> HIDE DEF a, b, p
    <3>4. p - 1 # a + 1 /\ p - 2 # a + 1 /\ p # a + 1
      BY <3>3
    <3> QED BY <3>4 DEF a
  <2>4. CASE k = i
    BY <1>1, <1>6, <2>4
  <2> QED BY <1>1, <2>2, <2>3, <2>4
<1> HIDE DEF p
<1>7. Escaped(y, p - 1) = {} /\ Escaped(y, p - 2) = {}
  <2>1. p - 1 \in Int /\ p - 2 \in Int
    BY <1>1
  <2>2. \A k \in 1..Len(x) : x[k] \in Special => p - 1 # e[k - 1] + 1 /\ p - 2 # e[k - 1] + 1
    BY <1>6
  <2> DEFINE q == p - 1
             r == p - 2
  <2> HIDE DEF q, r
  <2>3. q \in Int /\ r \in Int /\ \A k \in 1..Len(x) : x[k] \in Special => q # e[k - 1] + 1 /\ r # e[k - 1] + 1
    BY <2>1, <2>2 DEF q, r
  <2>4. Escaped(y, q) = {} /\ Escaped(y, r) = {}
    BY <1>5, <2>3, Zenon
  <2> QED BY <2>4 DEF q, r
<1>8. CASE x[i] \in Special
  <2>1. Escaped(y, p) = {x[i]}
    BY <1>5, <1>8 DEF p
  <2>2. (CHOOSE c \in Escaped(y, p) : TRUE) = x[i]
    BY <2>1
  <2>3. Decoded(y, p) = <<x[i]>>
    BY <1>7, <2>1, <2>2 DEF Decoded
  <2>4. (e[i - 1] + 2) - 1 = p /\ (e[i - 1] + 3) - 2 = p
    BY <1>1 DEF p
  <2>5. Decoded(y, e[i - 1] + 2) = <<>> /\ Decoded(y, e[i - 1] + 3) = <<>>
    BY <2>1, <2>4 DEF Decoded
  <2> QED BY <2>3, <2>5 DEF p
<1>9. CASE x[i] \notin Special
  <2>1. Escaped(y, p) = {}
    <3>1. p \in Int /\ \A k \in 1..Len(x) : x[k] \in Special => p # e[k - 1] + 1
      BY <1>1, <1>6, <1>9
    <3> QED BY <1>5, <3>1, Zenon
  <2>2. y[p] = x[i]
    BY <1>9 DEF EncodedAt, p
  <2>3. Decoded(y, p) = <<x[i]>>
    BY <1>7, <2>1, <2>2 DEF Decoded
  <2> QED BY <1>9, <2>3 DEF p
<1> QED BY <1>8, <1>9

\* The client library reads in a URI what uri_encode was given.
THEOREM DecodeEncode ==
  ASSUME NEW x \in Seq(UriChars)
  PROVE  Decode(uri_encode(x)) = x
<1> DEFINE y == uri_encode(x)
           pieces == [p \in DOMAIN y |-> Decoded(y, p)]
           n == Len(x)
<1>1. n \in Nat /\ \A i \in 1..n : x[i] \in UriChars
  OBVIOUS
<1>2. y \in Seq(Encoded)
  BY EncodedPlaces
<1>3. PICK e \in [0..n -> Nat] : EncodedAt(x, y, e)
  BY EncodedPlaces
<1>4. Decode(y) = FlattenSeq(pieces)
  BY DEF Decode, Decoded
<1> HIDE DEF y
<1>5. /\ Len(y) = e[n] /\ e[n] \in Nat /\ e[0] = 0 /\ DOMAIN y = 1..e[n]
      /\ \A i \in 0..n : e[i] \in Nat /\ e[i] <= e[n]
      /\ \A i \in 1..n : e[i] = IF x[i] \in Special THEN e[i - 1] + 3 ELSE e[i - 1] + 1
  <2>1. Len(y) = e[n] /\ e[0] = 0
    BY <1>3 DEF EncodedAt
  <2>2. DOMAIN y = 1..Len(y)
    BY <1>2
  <2>3. \A i \in 0..n : e[i] \in Nat /\ e[i] <= e[n]
    <3>1. \A m \in 0..n : \A i \in 0..m : e[i] <= e[m]
      BY <1>3 DEF EncodedAt
    <3>2. n \in 0..n
      BY <1>1
    <3> HIDE DEF n
    <3> QED BY <3>1, <3>2
  <2>4. e[n] \in Nat
    BY <1>1
  <2>5. \A i \in 1..n : e[i] = IF x[i] \in Special THEN e[i - 1] + 3 ELSE e[i - 1] + 1
    BY <1>3 DEF EncodedAt
  <2> QED BY <2>1, <2>2, <2>3, <2>4, <2>5
<1>6. ASSUME NEW i \in 1..n
      PROVE  /\ Decoded(y, e[i - 1] + 1) = <<x[i]>>
             /\ x[i] \in Special => /\ Decoded(y, e[i - 1] + 2) = <<>>
                                    /\ Decoded(y, e[i - 1] + 3) = <<>>
  BY <1>2, <1>3, DecodedOf
<1>7. pieces \in Seq(Seq(UriChars)) /\ Len(pieces) = e[n]
  <2>1. ASSUME NEW p \in 1..e[n] PROVE Decoded(y, p) \in Seq(UriChars)
    <3>1. PICK i \in 1..n : p = e[i - 1] + 1 \/ (x[i] \in Special /\ (p = e[i - 1] + 2 \/ p = e[i - 1] + 3))
      BY <1>3 DEF EncodedAt
    <3>2. <<x[i]>> \in Seq(UriChars) /\ <<>> \in Seq(UriChars)
      BY <1>1
    <3> QED BY <1>6, <3>1, <3>2, Zenon
  <2>2. pieces \in [1..e[n] -> Seq(UriChars)]
    BY <1>5, <2>1
  <2> DEFINE m == e[n]
  <2>3. m \in Nat
    BY <1>5
  <2> HIDE DEF m, pieces
  <2>4. pieces \in [1..m -> Seq(UriChars)]
    BY <2>2 DEF m
  <2>5. pieces \in Seq(Seq(UriChars)) /\ Len(pieces) = m
    BY <2>3, <2>4
  <2> QED BY <2>5 DEF m
<1>8. \A p \in 1..e[n] : pieces[p] = Decoded(y, p)
  BY <1>5
<1> HIDE DEF pieces, n
<1>9. PICK g : /\ IsSum(g, UriChars, pieces, Len(pieces))
               /\ FlattenSeq(pieces) = g[Len(pieces)]
  BY <1>7, FlattenIsSum
<1>10. g[0] = <<>> /\ \A p \in 1..e[n] : g[p] = Cat(g[p - 1], pieces[p])
  BY <1>7, <1>9 DEF IsSum
<1> DEFINE T == {i \in Nat : i <= n => g[e[i]] = SubSeq(x, 1, i)}
<1>11. 0 \in T
  <2>1. g[e[0]] = <<>>
    BY <1>5, <1>10
  <2>2. SubSeq(x, 1, 0) = <<>>
    BY SubSeqEmpty
  <2>3. g[e[0]] = SubSeq(x, 1, 0)
    BY <2>1, <2>2, Zenon
  <2> QED BY <2>3, Zenon
<1>12. ASSUME NEW i \in Nat, i \in T PROVE i + 1 \in T
  <2> SUFFICES ASSUME i + 1 <= n PROVE g[e[i + 1]] = SubSeq(x, 1, i + 1)
    OBVIOUS
  <2> DEFINE t == SubSeq(x, 1, i)
             c == x[i + 1]
             p == e[i]
  <2>1. i \in 0..n /\ i + 1 \in 0..n /\ i + 1 \in 1..n /\ (i + 1) - 1 = i /\ i <= n
    BY <1>1
  <2>2. p \in Nat /\ e[i + 1] \in Nat /\ e[n] \in Nat /\ e[i + 1] <= e[n]
    BY <1>5, <2>1
  <2>3. g[p] = t
    BY <1>12, <2>1
  <2>4. t \in Seq(UriChars)
    BY <2>1, TextPrefixes DEF n
  <2>5. c \in UriChars
    BY <1>1, <2>1
  <2> HIDE DEF T
  <2>6. SubSeq(x, 1, i + 1) = Cat(t, <<c>>)
    <3>1. \A k \in 1..n : SubSeq(x, 1, k) = Cat(SubSeq(x, 1, k - 1), <<x[k]>>)
      BY TextPrefixes DEF n
    <3> QED BY <2>1, <3>1
  <2>7. e[i + 1] = IF c \in Special THEN p + 3 ELSE p + 1
    BY <1>5, <2>1
  <2>8. /\ Decoded(y, p + 1) = <<c>>
        /\ c \in Special => Decoded(y, p + 2) = <<>> /\ Decoded(y, p + 3) = <<>>
    BY <1>6, <2>1
  <2> HIDE DEF t, c, p
  <2>9. Cat(t, <<c>>) \in Seq(UriChars)
    <3>1. <<c>> \in Seq(UriChars)
      BY <2>5
    <3> QED BY <2>4, <3>1, CatProperties
  <2>10. g[p + 1] = Cat(t, <<c>>)
    <3>1. p + 1 \in 1..e[n] /\ (p + 1) - 1 = p
      BY <2>2, <2>7
    <3>2. pieces[p + 1] = <<c>>
      BY <1>8, <2>8, <3>1
    <3> QED BY <1>10, <2>3, <3>1, <3>2
  <2>11. CASE c \in Special
    <3>1. /\ p + 2 \in 1..e[n] /\ p + 3 \in 1..e[n]
          /\ (p + 2) - 1 = p + 1 /\ (p + 3) - 1 = p + 2 /\ e[i + 1] = p + 3
      BY <2>2, <2>7, <2>11
    <3>2. pieces[p + 2] = <<>> /\ pieces[p + 3] = <<>>
      BY <1>8, <2>8, <2>11, <3>1
    <3>3. g[p + 2] = Cat(Cat(t, <<c>>), <<>>)
      BY <1>10, <2>10, <3>1, <3>2
    <3>4. g[p + 2] = Cat(t, <<c>>)
      BY <2>9, <3>3, CatProperties
    <3>5. g[p + 3] = Cat(Cat(t, <<c>>), <<>>)
      BY <1>10, <3>1, <3>2, <3>4
    <3>6. g[p + 3] = Cat(t, <<c>>)
      BY <2>9, <3>5, CatProperties
    <3> QED BY <2>6, <3>1, <3>6
  <2>12. CASE c \notin Special
    BY <2>6, <2>7, <2>10, <2>12
  <2> QED BY <2>11, <2>12
<1> HIDE DEF T
<1>13. Nat \subseteq T
  BY <1>11, <1>12, SetInduction
<1>14. g[e[n]] = SubSeq(x, 1, n)
  BY <1>1, <1>13 DEF T
<1>15. SubSeq(x, 1, n) = x
  BY TextPrefixes DEF n
<1> QED BY <1>4, <1>7, <1>9, <1>14, <1>15 DEF y

\* A set of places has a first and a last one.
LEMMA Extremes ==
  ASSUME NEW n \in Nat, NEW P \in SUBSET (1..n), P # {}
  PROVE  Min(P) \in P /\ Max(P) \in P
<1> DEFINE Least(i) == i \in P /\ \A j \in P : i <= j
           Greatest(i) == i \in P /\ \A j \in P : i >= j
<1>1. \E i \in P : Least(i)
  <2> DEFINE T == {m \in Nat : (\E k \in P : k <= m) => \E i \in P : Least(i)}
  <2>1. 0 \in T
    OBVIOUS
  <2>2. ASSUME NEW m \in Nat, m \in T PROVE m + 1 \in T
    <3> SUFFICES ASSUME NEW k \in P, k <= m + 1 PROVE \E i \in P : Least(i)
      OBVIOUS
    <3>1. CASE \E l \in P : l <= m
      BY <2>2, <3>1
    <3>2. CASE \A l \in P : ~(l <= m)
      <4>1. Least(k)
        BY <3>2
      <4> QED BY <4>1
    <3> QED BY <3>1, <3>2
  <2>3. Nat \subseteq T
    <3> HIDE DEF T
    <3> QED BY <2>1, <2>2, SetInduction
  <2>4. PICK k \in P : TRUE
    OBVIOUS
  <2>5. k \in Nat
    OBVIOUS
  <2>6. (\E l \in P : l <= k) => \E i \in P : Least(i)
    BY <2>3, <2>5
  <2> QED BY <2>5, <2>6
<1>2. \E i \in P : Greatest(i)
  <2> DEFINE T == {m \in Nat : (\E k \in P : k + m >= n) => \E i \in P : Greatest(i)}
  <2>1. 0 \in T
    <3> SUFFICES ASSUME NEW k \in P, k + 0 >= n PROVE \E i \in P : Greatest(i)
      OBVIOUS
    <3>1. Greatest(k)
      OBVIOUS
    <3> QED BY <3>1
  <2>2. ASSUME NEW m \in Nat, m \in T PROVE m + 1 \in T
    <3> SUFFICES ASSUME NEW k \in P, k + (m + 1) >= n PROVE \E i \in P : Greatest(i)
      OBVIOUS
    <3>1. CASE \E l \in P : l + m >= n
      BY <2>2, <3>1
    <3>2. CASE \A l \in P : ~(l + m >= n)
      <4>1. Greatest(k)
        BY <3>2
      <4> QED BY <4>1
    <3> QED BY <3>1, <3>2
  <2>3. Nat \subseteq T
    <3> HIDE DEF T
    <3> QED BY <2>1, <2>2, SetInduction
  <2>4. PICK k \in P : TRUE
    OBVIOUS
  <2>5. (\E l \in P : l + n >= n) => \E i \in P : Greatest(i)
    BY <2>3
  <2>6. k + n >= n
    OBVIOUS
  <2> QED BY <2>5, <2>6
<1> QED BY <1>1, <1>2 DEF Min, Max

\* The first of the socket directories is a text.
LEMMA HostType ==
  ASSUME NEW s \in Seq(UriChars)
  PROVE  Host(s) \in Seq(UriChars)
<1> DEFINE P == {i \in DOMAIN s : s[i] # Blank /\ Comma \notin ToSet(SubSeq(s, 1, i))}
<1>1. CASE P = {}
  <2>1. Host(s) = <<>>
    BY <1>1 DEF Host, Span
  <2> QED BY <2>1
<1>2. CASE P # {}
  <2>1. P \in SUBSET (1..Len(s)) /\ Len(s) \in Nat
    OBVIOUS
  <2>2. Host(s) = SubSeq(s, Min(P), Max(P))
    BY <1>2 DEF Host, Span
  <2> HIDE DEF P
  <2>3. Min(P) \in P /\ Max(P) \in P
    BY <1>2, <2>1, Extremes
  <2> DEFINE i == Min(P)
             j == Max(P)
  <2>4. i \in 1..Len(s) /\ j \in 1..Len(s)
    BY <2>1, <2>3
  <2> HIDE DEF i, j
  <2>5. \A k \in i..j : s[k] \in UriChars
    BY <2>4, ElementOfSeq
  <2>6. SubSeq(s, i, j) \in Seq(UriChars)
    BY <2>4, <2>5, SubSeqProperties
  <2> QED BY <2>2, <2>6 DEF i, j
<1> QED BY <1>1, <1>2

\* A URI has a parameter once, at the places from i to j.
Once(x, key, i, j) ==
  /\ i \in 1..Len(x) /\ j \in i + 1..Len(x)
  /\ i \in Starts(x, {"?", "&"}) /\ j \in Ends(x, i, {"&"}) /\ x[i] = key /\ x[i + 1] = "="
  /\ \A s \in 1..Len(x) - 1 : x[s] = key /\ x[s + 1] = "=" => s = i
  /\ \A t \in Ends(x, i, {"&"}) : t = j

\* It has the value that stands there.
LEMMA ParamOnce ==
  ASSUME NEW x \in Seq(UriChars), NEW key \in UriChars, NEW i, NEW j, Once(x, key, i, j)
  PROVE  Param(x, key) = {Decode(SubSeq(x, i + 2, j))}
<1> DEFINE L == {"?", "&"}
           R == {"&"}
           Q == {q \in Pieces(x, L, R) : Len(q) >= 2 /\ SubSeq(q, 1, 2) = <<key, "=">>}
           p == SubSeq(x, i, j)
<1>1. Len(x) \in Nat /\ DOMAIN x = 1..Len(x) /\ i \in 1..Len(x) /\ j \in i + 1..Len(x)
  BY DEF Once
<1>2. Param(x, key) = {Decode(SubSeq(q, 3, Len(q))) : q \in Q}
  BY DEF Param
<1>3. ASSUME NEW s \in 1..Len(x), NEW t \in s - 1..Len(x)
      PROVE  LET q == SubSeq(x, s, t)
             IN  Len(q) >= 2 /\ SubSeq(q, 1, 2) = <<key, "=">>
                   <=> t >= s + 1 /\ x[s] = key /\ x[s + 1] = "="
  <2> DEFINE q == SubSeq(x, s, t)
             b == SubSeq(q, 1, 2)
             c == <<key, "=">>
  <2>1. /\ q \in Seq(UriChars) /\ Len(q) = t - s + 1
        /\ \A k \in 1..t - s + 1 : q[k] = x[s + k - 1]
    <3>1. s \in 1..Len(x) + 1
      BY <1>1
    <3> QED BY <3>1, Between
  <2>2. c \in Seq(UriChars) /\ Len(c) = 2 /\ c[1] = key /\ c[2] = "="
    <3>1. "=" \in UriChars
      BY DEF UriChars, Special
    <3> QED BY <3>1
  <2>3. Len(q) >= 2 <=> t >= s + 1
    BY <1>1, <2>1
  <2>4. ASSUME t >= s + 1 PROVE b = c <=> x[s] = key /\ x[s + 1] = "="
    <3> HIDE DEF q
    <3>1. 1 \in 1..Len(q) + 1 /\ 2 \in 1 - 1..Len(q)
      BY <1>1, <2>1, <2>4
    <3>2. b \in Seq(UriChars) /\ Len(b) = 2 - 1 + 1 /\ \A k \in 1..2 - 1 + 1 : b[k] = q[1 + k - 1]
      BY <2>1, <3>1, Between
    <3>3. Len(b) = 2 /\ b[1] = q[1] /\ b[2] = q[2]
      <4> HIDE DEF b
      <4> QED BY <3>2
    <3>4. q[1] = x[s] /\ q[2] = x[s + 1]
      <4>1. 1 \in 1..t - s + 1 /\ 2 \in 1..t - s + 1 /\ s + 1 - 1 = s /\ s + 2 - 1 = s + 1
        BY <1>1, <2>4
      <4>2. q[1] = x[s + 1 - 1] /\ q[2] = x[s + 2 - 1]
        BY <2>1, <4>1
      <4> QED BY <4>1, <4>2
    <3> HIDE DEF b, c
    <3>5. ASSUME b[1] = c[1], b[2] = c[2] PROVE b = c
      <4>1. \A k \in 1..Len(b) : b[k] = c[k]
        BY <3>3, <3>5
      <4> QED BY <2>2, <3>2, <3>3, <4>1, SeqEqual
    <3>6. b = c <=> b[1] = c[1] /\ b[2] = c[2]
      BY <3>5
    <3> QED BY <2>2, <3>3, <3>4, <3>6
  <2> QED BY <2>3, <2>4
<1>4. p \in Q
  <2>1. i \in Starts(x, L) /\ j \in Ends(x, i, R) /\ x[i] = key /\ x[i + 1] = "="
    BY DEF Once
  <2>2. p \in Pieces(x, L, R)
    <3>1. p \in {SubSeq(x, i, t) : t \in Ends(x, i, R)}
      BY <2>1
    <3> HIDE DEF p, L, R
    <3> QED BY <2>1, <3>1 DEF Pieces
  <2>3. i \in 1..Len(x) /\ j \in i - 1..Len(x) /\ j >= i + 1
    BY <1>1
  <2>4. Len(p) >= 2 /\ SubSeq(p, 1, 2) = <<key, "=">>
    BY <1>3, <2>1, <2>3
  <2> QED BY <2>2, <2>4
<1>5. ASSUME NEW q \in Q PROVE q = p
  <2>1. PICK s \in Starts(x, L) : \E t \in Ends(x, s, R) : q = SubSeq(x, s, t)
    BY DEF Pieces
  <2>2. PICK t \in Ends(x, s, R) : q = SubSeq(x, s, t)
    BY <2>1
  <2>3. s \in 1..Len(x) /\ t \in s - 1..Len(x)
    BY <1>1 DEF Starts, Ends
  <2>4. Len(q) >= 2 /\ SubSeq(q, 1, 2) = <<key, "=">>
    BY <1>5
  <2>5. t >= s + 1 /\ x[s] = key /\ x[s + 1] = "="
    BY <1>3, <2>2, <2>3, <2>4
  <2>6. s \in 1..Len(x) - 1
    BY <1>1, <2>3, <2>5
  <2>7. s = i
    BY <2>5, <2>6 DEF Once
  <2>8. t = j
    BY <2>7 DEF Once
  <2> QED BY <2>2, <2>7, <2>8
<1>6. Q = {p}
  <2> HIDE DEF Q, p
  <2> QED BY <1>4, <1>5
<1>7. SubSeq(p, 3, Len(p)) = SubSeq(x, i + 2, j)
  <2> DEFINE a == SubSeq(p, 3, Len(p))
             b == SubSeq(x, i + 2, j)
  <2>1. i \in 1..Len(x) + 1 /\ j \in i - 1..Len(x)
    BY <1>1
  <2>2. p \in Seq(UriChars) /\ Len(p) = j - i + 1 /\ \A k \in 1..j - i + 1 : p[k] = x[i + k - 1]
    BY <2>1, Between
  <2> HIDE DEF p
  <2>3. 3 \in 1..Len(p) + 1 /\ Len(p) \in 3 - 1..Len(p)
    BY <1>1, <2>2
  <2>4. a \in Seq(UriChars) /\ Len(a) = Len(p) - 3 + 1 /\ \A k \in 1..Len(p) - 3 + 1 : a[k] = p[3 + k - 1]
    BY <2>2, <2>3, Between
  <2>5. i + 2 \in 1..Len(x) + 1 /\ j \in (i + 2) - 1..Len(x)
    BY <1>1
  <2>6. /\ b \in Seq(UriChars) /\ Len(b) = j - (i + 2) + 1
        /\ \A k \in 1..j - (i + 2) + 1 : b[k] = x[(i + 2) + k - 1]
    BY <2>5, Between
  <2> HIDE DEF a, b
  <2>7. Len(a) = Len(b)
    BY <1>1, <2>2, <2>4, <2>6
  <2>8. ASSUME NEW k \in 1..Len(a) PROVE a[k] = b[k]
    <3>1. /\ k \in 1..Len(p) - 3 + 1 /\ k \in 1..j - (i + 2) + 1 /\ 3 + k - 1 \in 1..j - i + 1
          /\ i + (3 + k - 1) - 1 = (i + 2) + k - 1
      BY <1>1, <2>2, <2>4
    <3>2. a[k] = p[3 + k - 1]
      BY <2>4, <3>1
    <3>3. p[3 + k - 1] = x[i + (3 + k - 1) - 1]
      BY <2>2, <3>1
    <3>4. b[k] = x[(i + 2) + k - 1]
      BY <2>6, <3>1
    <3> QED BY <3>1, <3>2, <3>3, <3>4
  <2>9. a = b
    BY <2>4, <2>6, <2>7, <2>8, SeqEqual
  <2> QED BY <2>9 DEF a, b
<1>8. Param(x, key) = {Decode(SubSeq(p, 3, Len(p)))}
  <2> HIDE DEF Q, p
  <2> QED BY <1>2, <1>6
<1> QED BY <1>7, <1>8

\* A URI of three encoded texts, by places: & stands at two, ? at one, = at three.
UriAt(x, D, H, U) ==
  LET d == Len(D)
      a == Len(D) + 3 + Len(H)
  IN /\ Len(x) = a + 7 + Len(U)
     /\ \A k \in 1..d : x[k] = D[k]
     /\ x[d + 1] = "?" /\ x[d + 2] = "h" /\ x[d + 3] = "="
     /\ \A k \in 1..Len(H) : x[d + 3 + k] = H[k]
     /\ x[a + 1] = "&" /\ x[a + 2] = "p" /\ x[a + 3] = "=" /\ x[a + 4] = "1"
     /\ x[a + 5] = "&" /\ x[a + 6] = "u" /\ x[a + 7] = "="
     /\ \A k \in 1..Len(U) : x[a + 7 + k] = U[k]

\* get_loopback_uri makes such a URI of three encoded texts.
LEMMA UriPlaces ==
  ASSUME NEW D \in Seq(Encoded), NEW H \in Seq(Encoded), NEW U \in Seq(Encoded)
  PROVE  LET x == D \o <<"?", "h", "=">> \o H \o <<"&", "p", "=", "1", "&", "u", "=">> \o U
         IN x \in Seq(UriChars) /\ UriAt(x, D, H, U)
<1> DEFINE A == <<"?", "h", "=">>
           B == <<"&", "p", "=", "1", "&", "u", "=">>
           v == Cat(D, A)
           w == Cat(v, H)
           z == Cat(w, B)
           x == Cat(z, U)
<1>1. x = D \o A \o H \o B \o U
  BY DEF Cat
<1>2. D \in Seq(UriChars) /\ H \in Seq(UriChars) /\ U \in Seq(UriChars)
  BY DEF Encoded
<1>3. \A c \in {"?", "h", "=", "&", "p", "1", "u"} : c \in UriChars
  BY DEF UriChars, Special
<1>4. A \in Seq(UriChars) /\ Len(A) = 3 /\ A[1] = "?" /\ A[2] = "h" /\ A[3] = "="
  BY <1>3
<1>5. /\ B \in Seq(UriChars) /\ Len(B) = 7 /\ B[1] = "&" /\ B[2] = "p" /\ B[3] = "="
      /\ B[4] = "1" /\ B[5] = "&" /\ B[6] = "u" /\ B[7] = "="
  BY <1>3
<1> HIDE DEF A, B
<1>6. v \in Seq(UriChars) /\ Joins(v, D, A)
  BY <1>2, <1>4, CatProperties, CatJoins
<1> HIDE DEF v
<1>7. w \in Seq(UriChars) /\ Joins(w, v, H)
  BY <1>2, <1>6, CatProperties, CatJoins
<1> HIDE DEF w
<1>8. z \in Seq(UriChars) /\ Joins(z, w, B)
  BY <1>5, <1>7, CatProperties, CatJoins
<1> HIDE DEF z
<1>9. x \in Seq(UriChars) /\ Joins(x, z, U)
  BY <1>2, <1>8, CatProperties, CatJoins
<1> HIDE DEF x
<1> DEFINE d == Len(D)
           h == Len(H)
           u == Len(U)
           a == d + 3 + h
<1>10. d \in Nat /\ h \in Nat /\ u \in Nat
  OBVIOUS
<1> HIDE DEF d, h, u
<1>11. /\ Len(v) = d + 3 /\ \A k \in 1..d : v[k] = D[k]
       /\ v[d + 1] = "?" /\ v[d + 2] = "h" /\ v[d + 3] = "="
  <2>1. 1 \in 1..3 /\ 2 \in 1..3 /\ 3 \in 1..3
    OBVIOUS
  <2> QED BY <1>4, <1>6, <2>1 DEF Joins, d
<1>12. Len(w) = a /\ (\A k \in 1..d + 3 : w[k] = v[k]) /\ \A k \in 1..h : w[d + 3 + k] = H[k]
  BY <1>7, <1>11 DEF Joins, h
<1>13. /\ Len(z) = a + 7 /\ (\A k \in 1..a : z[k] = w[k])
       /\ z[a + 1] = "&" /\ z[a + 2] = "p" /\ z[a + 3] = "=" /\ z[a + 4] = "1"
       /\ z[a + 5] = "&" /\ z[a + 6] = "u" /\ z[a + 7] = "="
  <2>1. 1 \in 1..7 /\ 2 \in 1..7 /\ 3 \in 1..7 /\ 4 \in 1..7 /\ 5 \in 1..7 /\ 6 \in 1..7 /\ 7 \in 1..7
    OBVIOUS
  <2> QED BY <1>5, <1>8, <1>12, <2>1 DEF Joins
<1>14. Len(x) = a + 7 + u /\ (\A k \in 1..a + 7 : x[k] = z[k]) /\ \A k \in 1..u : x[a + 7 + k] = U[k]
  BY <1>9, <1>13 DEF Joins, u
<1>15. \A k \in 1..d + 3 : x[k] = v[k]
  <2> TAKE k \in 1..d + 3
  <2>1. k \in 1..a /\ k \in 1..a + 7
    BY <1>10
  <2> QED BY <1>12, <1>13, <1>14, <2>1
<1>16. \A k \in 1..d : x[k] = D[k]
  <2> TAKE k \in 1..d
  <2>1. k \in 1..d + 3
    BY <1>10
  <2> QED BY <1>11, <1>15, <2>1
<1>17. x[d + 1] = "?" /\ x[d + 2] = "h" /\ x[d + 3] = "="
  <2>1. d + 1 \in 1..d + 3 /\ d + 2 \in 1..d + 3 /\ d + 3 \in 1..d + 3
    BY <1>10
  <2> QED BY <1>11, <1>15, <2>1
<1>18. \A k \in 1..h : x[d + 3 + k] = H[k]
  <2> TAKE k \in 1..h
  <2>1. d + 3 + k \in 1..a /\ d + 3 + k \in 1..a + 7
    BY <1>10
  <2> QED BY <1>12, <1>13, <1>14, <2>1
<1>19. \A k \in 1..7 : x[a + k] = z[a + k]
  <2> TAKE k \in 1..7
  <2>1. a + k \in 1..a + 7
    BY <1>10
  <2> QED BY <1>14, <2>1
<1>20. /\ x[a + 1] = "&" /\ x[a + 2] = "p" /\ x[a + 3] = "=" /\ x[a + 4] = "1"
       /\ x[a + 5] = "&" /\ x[a + 6] = "u" /\ x[a + 7] = "="
  <2>1. 1 \in 1..7 /\ 2 \in 1..7 /\ 3 \in 1..7 /\ 4 \in 1..7 /\ 5 \in 1..7 /\ 6 \in 1..7 /\ 7 \in 1..7
    OBVIOUS
  <2> QED BY <1>13, <1>19, <2>1
<1>21. UriAt(x, D, H, U)
  BY <1>14, <1>16, <1>17, <1>18, <1>20 DEF UriAt, d, h, u
<1> QED BY <1>1, <1>9, <1>21 DEF A, B

\* Where its separators are.
LEMMA UriSeparators ==
  ASSUME NEW x, NEW D \in Seq(Encoded), NEW H \in Seq(Encoded), NEW U \in Seq(Encoded),
         UriAt(x, D, H, U), NEW k \in 1..Len(x)
  PROVE  LET d == Len(D)
             a == Len(D) + 3 + Len(H)
         IN /\ x[k] = "?" <=> k = d + 1
            /\ x[k] = "&" <=> k = a + 1 \/ k = a + 5
            /\ x[k] = "=" <=> k = d + 3 \/ k = a + 3 \/ k = a + 7
<1> DEFINE d == Len(D)
           h == Len(H)
           u == Len(U)
           a == d + 3 + h
<1>1. d \in Nat /\ h \in Nat /\ u \in Nat
  OBVIOUS
<1>2. (\A c \in Encoded : c # "?" /\ c # "&" /\ c # "=") /\ "?" # "&" /\ "?" # "=" /\ "&" # "="
  BY DEF Encoded
<1>3. /\ \A l \in 1..d : D[l] \in Encoded
      /\ \A l \in 1..h : H[l] \in Encoded
      /\ \A l \in 1..u : U[l] \in Encoded
  OBVIOUS
<1> HIDE DEF d, h, u
<1>4. /\ Len(x) = a + 7 + u
      /\ \A l \in 1..d : x[l] = D[l]
      /\ x[d + 1] = "?" /\ x[d + 2] = "h" /\ x[d + 3] = "="
      /\ \A l \in 1..h : x[d + 3 + l] = H[l]
      /\ x[a + 1] = "&" /\ x[a + 2] = "p" /\ x[a + 3] = "=" /\ x[a + 4] = "1"
      /\ x[a + 5] = "&" /\ x[a + 6] = "u" /\ x[a + 7] = "="
      /\ \A l \in 1..u : x[a + 7 + l] = U[l]
  BY DEF UriAt, d, h, u
<1>5. CASE k \in 1..d
  <2>1. x[k] \in Encoded
    BY <1>3, <1>4, <1>5
  <2> QED BY <1>1, <1>2, <1>5, <2>1 DEF d, h
<1>6. CASE k \in d + 3 + 1..a
  <2>1. k - (d + 3) \in 1..h /\ d + 3 + (k - (d + 3)) = k
    BY <1>1, <1>6
  <2>2. x[k] \in Encoded
    BY <1>3, <1>4, <2>1
  <2> QED BY <1>1, <1>2, <1>6, <2>2 DEF d, h
<1>7. CASE k \in a + 7 + 1..a + 7 + u
  <2>1. k - (a + 7) \in 1..u /\ a + 7 + (k - (a + 7)) = k
    BY <1>1, <1>7
  <2>2. x[k] \in Encoded
    BY <1>3, <1>4, <2>1
  <2> QED BY <1>1, <1>2, <1>7, <2>2 DEF d, h
<1>8. CASE k \in d + 1..d + 3
  <2>1. k = d + 1 \/ k = d + 2 \/ k = d + 3
    BY <1>1, <1>8
  <2> QED BY <1>1, <1>2, <1>4, <2>1 DEF d, h
<1>9. CASE k \in a + 1..a + 7
  <2>1. k = a + 1 \/ k = a + 2 \/ k = a + 3 \/ k = a + 4 \/ k = a + 5 \/ k = a + 6 \/ k = a + 7
    BY <1>1, <1>9
  <2> QED BY <1>1, <1>2, <1>4, <2>1 DEF d, h
<1>10. k \in 1..d \/ k \in d + 1..d + 3 \/ k \in d + 3 + 1..a \/ k \in a + 1..a + 7 \/ k \in a + 7 + 1..a + 7 + u
  BY <1>1, <1>4
<1> QED BY <1>5, <1>6, <1>7, <1>8, <1>9, <1>10

\* The client library finds in the URI the three texts that were put there.
LEMMA PlaceOf ==
  ASSUME NEW x \in Seq(UriChars), NEW D \in Seq(Encoded), NEW H \in Seq(Encoded), NEW U \in Seq(Encoded),
         UriAt(x, D, H, U)
  PROVE  Place(x) = [database : {Decode(D)}, host : {Decode(H)}, user : {Decode(U)}]
<1> DEFINE d == Len(D)
           h == Len(H)
           u == Len(U)
           a == d + 3 + h
<1>1. /\ d \in Nat /\ h \in Nat /\ u \in Nat /\ Len(x) = a + 7 + u /\ DOMAIN x = 1..Len(x)
      /\ D \in Seq(UriChars) /\ H \in Seq(UriChars) /\ U \in Seq(UriChars)
  <2>1. D \in Seq(UriChars) /\ H \in Seq(UriChars) /\ U \in Seq(UriChars)
    BY DEF Encoded
  <2>2. Len(x) = a + 7 + u
    BY DEF UriAt
  <2>3. d \in Nat /\ h \in Nat /\ u \in Nat /\ DOMAIN x = 1..Len(x)
    OBVIOUS
  <2> QED BY <2>1, <2>2, <2>3
<1>2. /\ \A l \in 1..d : x[l] = D[l]
      /\ x[d + 1] = "?" /\ x[d + 2] = "h" /\ x[d + 3] = "="
      /\ \A l \in 1..h : x[d + 3 + l] = H[l]
      /\ x[a + 1] = "&" /\ x[a + 2] = "p" /\ x[a + 3] = "=" /\ x[a + 4] = "1"
      /\ x[a + 5] = "&" /\ x[a + 6] = "u" /\ x[a + 7] = "="
      /\ \A l \in 1..u : x[a + 7 + l] = U[l]
  BY DEF UriAt
<1>3. \A k \in 1..Len(x) : /\ x[k] = "?" <=> k = d + 1
                           /\ x[k] = "&" <=> k = a + 1 \/ k = a + 5
                           /\ x[k] = "=" <=> k = d + 3 \/ k = a + 3 \/ k = a + 7
  BY UriSeparators
<1> HIDE DEF d, h, u
<1>4. Pieces(x, {}, {"?"}) = {D}
  <2>1. Starts(x, {}) = {1}
    BY <1>1 DEF Starts
  <2>2. d \in Ends(x, 1, {"?"})
    <3>1. \A k \in 1..d : x[k] # "?"
      BY <1>1, <1>3
    <3> QED BY <1>1, <1>2, <3>1 DEF Ends
  <2>3. ASSUME NEW t \in Ends(x, 1, {"?"}) PROVE t = d
    <3>1. t \in 0..Len(x) /\ (t = Len(x) \/ x[t + 1] = "?") /\ \A k \in 1..t : x[k] # "?"
      BY DEF Ends
    <3>2. ~(d + 1 <= t)
      BY <1>1, <1>2, <3>1
    <3>3. x[t + 1] = "?" /\ t + 1 \in 1..Len(x)
      BY <1>1, <3>1, <3>2
    <3>4. t + 1 = d + 1
      BY <1>3, <3>3
    <3> QED BY <1>1, <3>1, <3>4
  <2>4. Ends(x, 1, {"?"}) = {d}
    BY <2>2, <2>3
  <2>5. SubSeq(x, 1, d) = D
    <3>1. 1 \in 1..Len(x) + 1 /\ d \in 1 - 1..Len(x) /\ Len(D) = d - 1 + 1
      BY <1>1 DEF d
    <3>2. \A k \in 1..Len(D) : x[1 + k - 1] = D[k]
      BY <1>1, <1>2 DEF d
    <3> QED BY <1>1, <3>1, <3>2, SpanIs
  <2>6. Pieces(x, {}, {"?"}) = {SubSeq(x, 1, d)}
    <3> DEFINE R == {"?"}
    <3>1. \A q : q \in Pieces(x, {}, R) <=> \E i \in Starts(x, {}) : \E j \in Ends(x, i, R) : q = SubSeq(x, i, j)
      BY DEF Pieces
    <3>2. \A i : i \in Starts(x, {}) <=> i = 1
      BY <2>1
    <3>3. \A j : j \in Ends(x, 1, R) <=> j = d
      BY <2>4
    <3> HIDE DEF R
    <3>4. \A q : q \in Pieces(x, {}, R) <=> q = SubSeq(x, 1, d)
      <4> DEFINE p == SubSeq(x, 1, d)
      <4>1. p \in Pieces(x, {}, R)
        BY <3>1, <3>2, <3>3, Zenon
      <4>2. ASSUME NEW q \in Pieces(x, {}, R) PROVE q = p
        <5>1. PICK i \in Starts(x, {}) : \E j \in Ends(x, i, R) : q = SubSeq(x, i, j)
          BY <3>1, Zenon
        <5>2. PICK j \in Ends(x, i, R) : q = SubSeq(x, i, j)
          BY <5>1, Zenon
        <5>3. i = 1
          BY <3>2, Zenon
        <5>4. j = d
          BY <3>3, <5>3, Zenon
        <5> QED BY <5>2, <5>3, <5>4, Zenon
      <4> HIDE DEF p
      <4>3. \A q : q \in Pieces(x, {}, R) <=> q = p
        BY <4>1, <4>2, Zenon
      <4> QED BY <4>3 DEF p
    <3>5. Pieces(x, {}, R) = {SubSeq(x, 1, d)}
      BY <3>4, Zenon
    <3> QED BY <3>5 DEF R
  <2> QED BY <2>5, <2>6
<1>5. \A s \in 1..Len(x) - 1 : s \in 1..Len(x) /\ s + 1 \in 1..Len(x)
  BY <1>1
<1>6. "h" \in UriChars /\ "u" \in UriChars
  BY DEF UriChars
<1>7. Param(x, "h") = {Decode(H)}
  <2> DEFINE i == d + 2
  <2>1. /\ i \in 1..Len(x) /\ a \in i + 1..Len(x) /\ i - 1 = d + 1 /\ i + 1 = d + 3 /\ i + 2 = d + 4
        /\ a \in i - 1..Len(x)
    BY <1>1
  <2>2. i \in Starts(x, {"?", "&"})
    BY <1>1, <1>2, <2>1 DEF Starts
  <2>3. a \in Ends(x, i, {"&"})
    <3>1. \A k \in i..a : x[k] # "&"
      BY <1>1, <1>3
    <3> QED BY <1>2, <2>1, <3>1 DEF Ends
  <2>4. ASSUME NEW s \in 1..Len(x) - 1, x[s] = "h", x[s + 1] = "=" PROVE s = i
    <3>1. s + 1 = d + 3 \/ s + 1 = a + 3 \/ s + 1 = a + 7
      BY <1>3, <1>5, <2>4
    <3>2. s = d + 2 \/ s = a + 2 \/ s = a + 6
      BY <1>1, <3>1
    <3>3. x[a + 2] # "h" /\ x[a + 6] # "h"
      BY <1>2
    <3> QED BY <2>4, <3>2, <3>3
  <2>5. ASSUME NEW t \in Ends(x, i, {"&"}) PROVE t = a
    <3>1. t \in i - 1..Len(x) /\ (t = Len(x) \/ x[t + 1] = "&") /\ \A k \in i..t : x[k] # "&"
      BY DEF Ends
    <3>2. ~(a + 1 <= t)
      BY <1>1, <1>2, <3>1
    <3>3. x[t + 1] = "&" /\ t + 1 \in 1..Len(x)
      BY <1>1, <3>1, <3>2
    <3>4. t + 1 = a + 1 \/ t + 1 = a + 5
      BY <1>3, <3>3
    <3> QED BY <1>1, <3>1, <3>2, <3>4
  <2>6. SubSeq(x, i + 2, a) = H
    <3>1. i + 2 \in 1..Len(x) + 1 /\ a \in (i + 2) - 1..Len(x) /\ Len(H) = a - (i + 2) + 1
      BY <1>1 DEF h
    <3>2. \A k \in 1..Len(H) : x[(i + 2) + k - 1] = H[k]
      <4> TAKE k \in 1..Len(H)
      <4>1. (i + 2) + k - 1 = d + 3 + k /\ k \in 1..h
        BY <1>1 DEF h
      <4> QED BY <1>2, <4>1
    <3> QED BY <1>1, <3>1, <3>2, SpanIs
  <2>7. x[i] = "h" /\ x[i + 1] = "="
    BY <1>2, <2>1
  <2> HIDE DEF i, a
  <2>8. Param(x, "h") = {Decode(SubSeq(x, i + 2, a))}
    <3>1. Once(x, "h", i, a)
      BY <2>1, <2>2, <2>3, <2>4, <2>5, <2>7 DEF Once
    <3> QED BY <1>6, <3>1, ParamOnce
  <2> QED BY <2>6, <2>8
<1>8. Param(x, "u") = {Decode(U)}
  <2> DEFINE i == a + 6
             j == a + 7 + u
  <2>1. /\ i \in 1..Len(x) /\ j \in i + 1..Len(x) /\ i - 1 = a + 5 /\ i + 1 = a + 7 /\ i + 2 = a + 8
        /\ j \in i - 1..Len(x)
    BY <1>1
  <2>0. j = Len(x)
    BY <1>1
  <2>2. i \in Starts(x, {"?", "&"})
    BY <1>1, <1>2, <2>1 DEF Starts
  <2>3. j \in Ends(x, i, {"&"})
    <3>1. \A k \in i..j : x[k] # "&"
      BY <1>1, <1>3
    <3> QED BY <2>0, <2>1, <3>1 DEF Ends
  <2>4. ASSUME NEW s \in 1..Len(x) - 1, x[s] = "u", x[s + 1] = "=" PROVE s = i
    <3>1. s + 1 = d + 3 \/ s + 1 = a + 3 \/ s + 1 = a + 7
      BY <1>3, <1>5, <2>4
    <3>2. s = d + 2 \/ s = a + 2 \/ s = a + 6
      BY <1>1, <3>1
    <3>3. x[d + 2] # "u" /\ x[a + 2] # "u"
      BY <1>2
    <3> QED BY <2>4, <3>2, <3>3
  <2>5. ASSUME NEW t \in Ends(x, i, {"&"}) PROVE t = j
    <3>1. t \in i - 1..Len(x) /\ (t = Len(x) \/ x[t + 1] = "&")
      BY DEF Ends
    <3>2. ASSUME t # Len(x) PROVE FALSE
      <4>1. x[t + 1] = "&" /\ t + 1 \in 1..Len(x)
        BY <1>1, <3>1, <3>2
      <4>2. t + 1 = a + 1 \/ t + 1 = a + 5
        BY <1>3, <4>1
      <4> QED BY <1>1, <3>1, <4>2
    <3> QED BY <2>0, <3>2
  <2>6. SubSeq(x, i + 2, j) = U
    <3>1. i + 2 \in 1..Len(x) + 1 /\ j \in (i + 2) - 1..Len(x) /\ Len(U) = j - (i + 2) + 1
      BY <1>1 DEF u
    <3>2. \A k \in 1..Len(U) : x[(i + 2) + k - 1] = U[k]
      <4> TAKE k \in 1..Len(U)
      <4>1. (i + 2) + k - 1 = a + 7 + k /\ k \in 1..u
        BY <1>1 DEF u
      <4> QED BY <1>2, <4>1
    <3> QED BY <1>1, <3>1, <3>2, SpanIs
  <2>7. x[i] = "u" /\ x[i + 1] = "="
    BY <1>2, <2>1
  <2> HIDE DEF i, j, a
  <2>8. Param(x, "u") = {Decode(SubSeq(x, i + 2, j))}
    <3>1. Once(x, "u", i, j)
      BY <2>1, <2>2, <2>3, <2>4, <2>5, <2>7 DEF Once
    <3> QED BY <1>6, <3>1, ParamOnce
  <2> QED BY <2>6, <2>8
<1>9. {Decode(p) : p \in Pieces(x, {}, {"?"})} = {Decode(D)}
  BY <1>4
<1> QED BY <1>7, <1>8, <1>9 DEF Place

-----------------------------------------------------------------------------
(***************************************************************************)
(* The calls that clients may make, and the properties of the names.       *)
(***************************************************************************)

\* What an argument matches is made of texts that are not empty.
LEMMA MatchesAreNames ==
  ASSUME NEW arg \in Args, NEW m \in Matches(arg)
  PROVE  m[1] \in Names /\ m[2] \in Names
<1>1. arg \in Seq(NameChars) /\ CurrentSchema \in Names
  BY TextAssumption
<1>2. \A t \in Seq(NameChars) : Ident(t) => t \in Names
  <2> TAKE t \in Seq(NameChars)
  <2>1. IsQuoted(t) => t # <<>>
    <3>1. IsQuoted(t) => Len(t) >= 3
      BY DEF IsQuoted
    <3> QED BY <3>1
  <2> QED BY <2>1 DEF Ident, Names
<1>3. CASE m = <<CurrentSchema, arg>> /\ Ident(arg)
  BY <1>1, <1>2, <1>3
<1>4. ASSUME NEW j \in DOMAIN arg, Ident(SubSeq(arg, 1, j - 1)), Ident(SubSeq(arg, j + 1, Len(arg))),
             m = <<SubSeq(arg, 1, j - 1), SubSeq(arg, j + 1, Len(arg))>>
      PROVE  m[1] \in Names /\ m[2] \in Names
  <2>1. j \in 1..Len(arg) /\ Len(arg) \in Nat
    BY <1>1
  <2>2. \A k \in 1..Len(arg) : arg[k] \in NameChars
    BY <1>1
  <2>3. SubSeq(arg, 1, j - 1) \in Seq(NameChars)
    <3>1. \A k \in 1..j - 1 : arg[k] \in NameChars
      BY <2>1, <2>2
    <3> QED BY <2>1, <3>1, SubSeqProperties
  <2>4. SubSeq(arg, j + 1, Len(arg)) \in Seq(NameChars)
    <3>1. \A k \in j + 1..Len(arg) : arg[k] \in NameChars
      BY <2>1, <2>2
    <3> QED BY <2>1, <3>1, SubSeqProperties
  <2> DEFINE s == SubSeq(arg, 1, j - 1)
             t == SubSeq(arg, j + 1, Len(arg))
  <2>5. s \in Names /\ t \in Names /\ m = <<s, t>>
    BY <1>2, <1>4, <2>3, <2>4
  <2> HIDE DEF s, t
  <2> QED BY <2>5
<1> QED BY <1>3, <1>4 DEF Matches

\* What the catalog has names of, and mirrors, by their types.
Kept == {name \in Names : Len(name) <= MaxLen}
Mirrors == [schema : Kept, name : Kept, made : Seq(NameChars), cut : BOOLEAN,
            renamed : BOOLEAN]

\* A name is cut to one that is kept; one that is short enough stays as it is.
LEMMA CutKept ==
  ASSUME NEW a \in Names
  PROVE  Cut(a) \in Kept /\ (a \in Kept => Cut(a) = a)
<1>1. MaxLen \in Nat /\ MaxLen >= 1
  BY TextAssumption
<1>2. a \in Seq(NameChars) /\ Len(a) \in Nat
  BY DEF Names
<1>3. CASE Len(a) > MaxLen
  <2>1. \A k \in 1..MaxLen : a[k] \in NameChars
    BY <1>1, <1>2, <1>3
  <2>2. SubSeq(a, 1, MaxLen) \in Seq(NameChars) /\ Len(SubSeq(a, 1, MaxLen)) = MaxLen
    BY <1>1, <1>2, <1>3, <2>1, SubSeqProperties
  <2>3. SubSeq(a, 1, MaxLen) # <<>>
    <3>1. Len(SubSeq(a, 1, MaxLen)) # 0
      BY <1>1, <2>2
    <3>2. Len(<<>>) = 0
      OBVIOUS
    <3> QED BY <3>1, <3>2
  <2> QED BY <1>1, <1>2, <1>3, <2>2, <2>3 DEF Cut, Kept, Names
<1>4. CASE ~(Len(a) > MaxLen)
  BY <1>1, <1>2, <1>4 DEF Cut, Kept
<1> QED BY <1>3, <1>4

\* Registered names are texts.
LEMMA QualifiedType ==
  ASSUME NEW a \in Names, NEW b \in Names
  PROVE  Qualified(a, b) \in Seq(NameChars)
<1>1. quote_ident(a) \in Seq(NameChars) /\ quote_ident(b) \in Seq(NameChars)
  BY QuoteIdent
<1>2. <<".">> \in Seq(NameChars)
  BY Characters
<1>3. quote_ident(a) \o <<".">> \in Seq(NameChars)
  BY <1>1, <1>2, ConcatProperties
<1> QED BY <1>1, <1>3, ConcatProperties DEF Qualified

\* t is registered under a name of which its own, in the catalog, is what is kept;
\* all of it is, if t is not said to be cut.
MadeAs(t) ==
  \E a, b \in Names : /\ t.made = Qualified(a, b)
                      /\ t.schema = Cut(a) /\ t.name = Cut(b)
                      /\ ~t.cut => t.schema = a /\ t.name = b

\* The mirrors that create_table makes.
LEMMA CallsRegisterTheirNames ==
  ASSUME NEW call \in Calls
  PROVE  call.table \in Mirrors /\ MadeAs(call.table)
<1>1. PICK arg \in Args : \E m \in Matches(arg) : call = [arg |-> arg, table |-> Made(m)]
  BY DEF Calls
<1>2. PICK m \in Matches(arg) : call = [arg |-> arg, table |-> Made(m)]
  BY <1>1
<1>3. m[1] \in Names /\ m[2] \in Names
  BY MatchesAreNames
<1> DEFINE a == m[1]
           b == m[2]
<1>4. a \in Names /\ b \in Names /\ Parsed(m) = Qualified(a, b)
  BY <1>3 DEF Parsed
<1>5. call.table = [schema |-> Named(Parsed(m))[1], name |-> Named(Parsed(m))[2],
                    made |-> Parsed(m), cut |-> Named(Parsed(m)) # Spelled(Parsed(m)),
                    renamed |-> FALSE]
  BY <1>2 DEF Made
<1> HIDE DEF a, b
<1>6. Named(Qualified(a, b)) = <<Cut(a), Cut(b)>> /\ Spelled(Qualified(a, b)) = <<a, b>>
  BY <1>4, NamedQualified
<1>7. call.table = [schema |-> Cut(a), name |-> Cut(b), made |-> Qualified(a, b),
                    cut |-> <<Cut(a), Cut(b)>> # <<a, b>>, renamed |-> FALSE]
  BY <1>4, <1>5, <1>6
<1>8. Qualified(a, b) \in Seq(NameChars) /\ Cut(a) \in Kept /\ Cut(b) \in Kept
  BY <1>4, QualifiedType, CutKept
<1>9. call.table \in Mirrors
  BY <1>7, <1>8 DEF Mirrors
<1>10. ~call.table.cut => Cut(a) = a /\ Cut(b) = b
  <2>1. call.table.cut = (<<Cut(a), Cut(b)>> # <<a, b>>)
    BY <1>7
  <2> QED BY <2>1
<1>11. MadeAs(call.table)
  BY <1>4, <1>7, <1>10 DEF MadeAs
<1> QED BY <1>9, <1>11

\* The inductive invariant: no two mirrors have one name, and one that was never
\* renamed is registered under the name it was made by, which is the name that the
\* trigger will send unless it was cut.
Distinct == \A t, u \in tables : t.schema = u.schema /\ t.name = u.name => t = u
Registered == \A t \in tables : ~t.renamed => MadeAs(t) /\ t.made \in keys
IInv == tables \subseteq Mirrors /\ Distinct /\ Registered

\* It holds at first.
LEMMA InitInv == Init => IInv
BY DEF Init, IInv, Distinct, Registered

\* What one table's trigger sends is no other's name.
LEMMA ForgetsNoOther ==
  ASSUME IInv, NEW t \in tables, NEW schema \in Kept, NEW name \in Kept, ~t.renamed,
         t.schema # schema \/ t.name # name
  PROVE  t.made \in keys \ {Qualified(schema, name)}
<1>1. MadeAs(t) /\ t.made \in keys
  BY DEF IInv, Registered
<1>2. PICK a, b \in Names : t.made = Qualified(a, b) /\ t.schema = Cut(a) /\ t.name = Cut(b)
  BY <1>1 DEF MadeAs
<1>3. schema \in Names /\ name \in Names /\ Cut(schema) = schema /\ Cut(name) = name
  BY CutKept DEF Kept
<1>4. a # schema \/ b # name
  BY <1>2, <1>3
<1>5. t.made # Qualified(schema, name)
  BY <1>2, <1>3, <1>4, QualifiedInjective
<1> QED BY <1>1, <1>5

\* It is inductive.
LEMMA StepInv == IInv /\ [Next]_vars => IInv'
<1> SUFFICES ASSUME IInv, [Next]_vars PROVE IInv'
  OBVIOUS
<1>1. CASE UNCHANGED vars
  BY <1>1 DEF vars, IInv, Distinct, Registered
<1>2. ASSUME NEW call \in Calls, create_table(call.table) PROVE IInv'
  <2> DEFINE t == call.table
  <2>1. t \in Mirrors /\ MadeAs(t)
    BY CallsRegisterTheirNames
  <2>2. /\ tables' = tables \cup {t} /\ keys' = keys \cup {t.made}
        /\ \A u \in tables : ~(u.schema = t.schema /\ u.name = t.name)
    BY <1>2 DEF create_table, Creates, Taken
  <2> HIDE DEF t
  <2> QED BY <2>1, <2>2 DEF IInv, Distinct, Registered
<1>3. ASSUME NEW call \in Calls, create_table_rejected(call.table) PROVE IInv'
  <2> DEFINE t == call.table
  <2>1. t.schema \in Kept /\ t.name \in Kept
    BY CallsRegisterTheirNames DEF Mirrors
  <2>2. /\ tables' = tables /\ keys' = keys \ {Qualified(t.schema, t.name)}
        /\ \A u \in tables : u.schema # t.schema \/ u.name # t.name
    BY <1>3 DEF create_table_rejected, Creates, Taken, Forgotten
  <2> HIDE DEF t
  <2>3. \A u \in tables : ~u.renamed => u.made \in keys'
    BY <2>1, <2>2, ForgetsNoOther
  <2> QED BY <2>2, <2>3 DEF IInv, Distinct, Registered
<1>4. ASSUME NEW t \in tables, DropTable(t) PROVE IInv'
  <2>1. tables' = tables \ {t} /\ keys' = keys \ {Qualified(t.schema, t.name)}
    BY <1>4 DEF DropTable, Forgotten
  <2>2. t.schema \in Kept /\ t.name \in Kept
    BY DEF IInv, Mirrors
  <2>3. ASSUME NEW u \in tables', ~u.renamed PROVE u.made \in keys'
    <3>1. u \in tables /\ (u.schema # t.schema \/ u.name # t.name)
      BY <2>1 DEF IInv, Distinct
    <3> QED BY <2>1, <2>2, <2>3, <3>1, ForgetsNoOther
  <2> QED BY <2>1, <2>3 DEF IInv, Distinct, Registered
<1>5. ASSUME NEW t \in tables, NEW name \in NewNames, Rename(t, name) PROVE IInv'
  <2> DEFINE r == [t EXCEPT !.name = name, !.renamed = TRUE]
  <2>1. tables' = (tables \ {t}) \cup {r} /\ keys' = keys /\ ~Taken(t.schema, name)
    BY <1>5 DEF Rename
  <2>2. t \in Mirrors /\ name \in Kept
    BY TextAssumption DEF IInv, Kept
  <2>3. r \in Mirrors /\ r.schema = t.schema /\ r.name = name /\ r.renamed
    BY <2>2 DEF Mirrors
  <2> HIDE DEF r
  <2> QED BY <2>1, <2>2, <2>3 DEF IInv, Distinct, Registered, Taken
<1> QED BY <1>1, <1>2, <1>3, <1>4, <1>5 DEF Next

\* A mirror that was never renamed is registered under its name until it is dropped.
THEOREM NamesAreKept == Spec => []MirrorsKeepTheirNames
<1>1. IInv => MirrorsKeepTheirNames
  BY DEF IInv, Registered, MirrorsKeepTheirNames
<1> QED BY <1>1, InitInv, StepInv, PTL DEF Spec

\* DROP TABLE makes moonlink forget the name that create_table registered, if
\* PostgreSQL kept all of it.
THEOREM DropForgets == Spec => DroppedIsForgotten
<1>1. ASSUME IInv, Next, NEW t \in tables, ~t.renamed, ~t.cut,
             \A u \in tables' : u.made # t.made
      PROVE  t.made \notin keys'
  <2>1. ASSUME NEW call \in Calls, create_table(call.table) \/ create_table_rejected(call.table)
        PROVE  FALSE
    BY <1>1, <2>1 DEF create_table, create_table_rejected
  <2>2. ASSUME NEW u \in tables, DropTable(u) PROVE t.made \notin keys'
    <3>1. u = t
      BY <1>1, <2>2 DEF DropTable
    <3>2. t.made = Qualified(t.schema, t.name)
      BY <1>1 DEF IInv, Registered, MadeAs
    <3> QED BY <2>2, <3>1, <3>2 DEF DropTable, Forgotten
  <2>3. ASSUME NEW u \in tables, NEW name \in NewNames, Rename(u, name) PROVE FALSE
    <3> DEFINE r == [u EXCEPT !.name = name, !.renamed = TRUE]
    <3>1. u \in Mirrors
      BY <1>1 DEF IInv
    <3>2. tables' = (tables \ {u}) \cup {r} /\ r.made = u.made
      BY <2>3, <3>1 DEF Rename, Mirrors
    <3> HIDE DEF r
    <3> QED BY <1>1, <3>2
  <2> QED BY <1>1, <2>1, <2>2, <2>3 DEF Next
<1>2. IInv /\ [Next]_vars =>
        [\A t \in tables :
           ~t.renamed /\ ~t.cut /\ (\A u \in tables' : u.made # t.made)
             => t.made \notin keys']_vars
  BY <1>1
<1> QED BY <1>2, InitInv, StepInv, PTL DEF Spec, DroppedIsForgotten

\* The loopback session is one in the caller's database, as the caller.
THEOREM LoopbackIsHome == Spec => []LoopbackComesHome
<1>1. Init => LoopbackComesHome
  <2> SUFFICES ASSUME Init PROVE LoopbackComesHome
    OBVIOUS
  <2> DEFINE D == uri_encode(caller.database)
             H == uri_encode(Host(caller.sockets))
             U == uri_encode(caller.user)
             x == D \o <<"?", "h", "=">> \o H \o <<"&", "p", "=", "1", "&", "u", "=">> \o U
  <2>1. caller.database \in Seq(UriChars) /\ caller.user \in Seq(UriChars) /\ caller.sockets \in Seq(UriChars)
    <3>1. caller \in [database : Seq(UriChars), user : Seq(UriChars), sockets : Seq(UriChars)]
      BY TextAssumption DEF Init
    <3> QED BY <3>1
  <2>2. Host(caller.sockets) \in Seq(UriChars)
    BY <2>1, HostType
  <2>3. D \in Seq(Encoded) /\ H \in Seq(Encoded) /\ U \in Seq(Encoded)
    BY <2>1, <2>2, EncodedPlaces
  <2>4. Decode(D) = caller.database /\ Decode(H) = Host(caller.sockets) /\ Decode(U) = caller.user
    BY <2>1, <2>2, DecodeEncode
  <2>5. get_loopback_uri = x
    BY DEF get_loopback_uri
  <2> HIDE DEF D, H, U
  <2>6. x \in Seq(UriChars) /\ UriAt(x, D, H, U)
    BY <2>3, UriPlaces, Zenon
  <2> HIDE DEF x
  <2>7. Place(x) = [database : {Decode(D)}, host : {Decode(H)}, user : {Decode(U)}]
    BY <2>3, <2>6, PlaceOf
  <2>8. loopback \in [database : {caller.database}, host : {Host(caller.sockets)}, user : {caller.user}]
    <3>1. loopback \in Place(get_loopback_uri)
      BY DEF Init
    <3>2. loopback \in Place(x)
      BY <2>5, <3>1, Zenon
    <3>3. loopback \in [database : {Decode(D)}, host : {Decode(H)}, user : {Decode(U)}]
      BY <2>7, <3>2, Zenon
    <3> QED BY <2>4, <3>3, Zenon
  <2> QED BY <2>8 DEF LoopbackComesHome
<1>2. LoopbackComesHome /\ [Next]_vars => LoopbackComesHome'
  <2> SUFFICES ASSUME [Next]_vars PROVE UNCHANGED <<caller, loopback>>
    BY DEF LoopbackComesHome
  <2>1. CASE Next
    <3>1. ASSUME NEW t, create_table(t) \/ create_table_rejected(t) \/ DropTable(t)
          PROVE  UNCHANGED <<caller, loopback>>
      BY <3>1 DEF create_table, create_table_rejected, DropTable
    <3>2. ASSUME NEW t, NEW name, Rename(t, name) PROVE UNCHANGED <<caller, loopback>>
      BY <3>2, Zenon DEF Rename
    <3> QED BY <2>1, <3>1, <3>2 DEF Next
  <2>2. CASE UNCHANGED vars
    BY <2>2 DEF vars
  <2> QED BY <2>1, <2>2
<1> QED BY <1>1, <1>2, PTL DEF Spec
================================================================================
