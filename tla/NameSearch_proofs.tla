------------------------- MODULE NameSearch_proofs --------------------------
(***************************************************************************)
(* What the substring search returns, for every name table, needle and     *)
(* limit, every block size, varint base and number of threads.             *)
(*                                                                         *)
(* First the parallel scan of the name table; then the trigram index,      *)
(* which holds for every trigram the ascending ids of the rows that have   *)
(* it, and the search through it, which returns what a serial scan would.  *)
(***************************************************************************)
EXTENDS NameSearch, SortedRows_proofs

-----------------------------------------------------------------------------
(* Ordered lists.                                                          *)

\* There is one ordered list of a set.
LEMMA ListedOnce ==
    ASSUME NEW S, NEW L, OrderOn(S, L), NEW s, Listed(s, S, L), NEW t, Listed(t, S, L)
    PROVE  s = t
<1> DEFINE n == Len(s)
           D == {i \in 1..n : s[i] # t[i]}
<1>1. /\ n \in Nat /\ s \in Seq(S) /\ t \in Seq(S) /\ Len(t) = n /\ Len(s) = n
      /\ RowsIn(s) = S /\ RowsIn(t) = S
  BY DEF Listed
<1>2. CASE D = {}
  BY <1>1, <1>2
<1>3. CASE D # {}
  <2>1. PICK i \in D : \A j \in D : i <= j
    <3>1. D \in SUBSET Nat
      BY <1>1
    <3> HIDE DEF D
    <3> QED BY <1>3, <3>1, LeastNat
  <2>2. i \in 1..n /\ s[i] # t[i] /\ \A j \in 1..n : j < i => s[j] = t[j]
    BY <1>1, <2>1
  <2>3. s[i] \in S /\ t[i] \in S
    BY <1>1, <2>2
  <2>4. PICK j \in 1..n : t[j] = s[i]
    BY <1>1, <2>3 DEF RowsIn
  <2>5. PICK k \in 1..n : s[k] = t[i]
    BY <1>1, <2>3 DEF RowsIn
  <2> HIDE DEF n, D
  <2>6. \A x \in S : <<x, x>> \notin L
    BY DEF OrderOn
  <2>7. <<t[i], s[i]>> \in L
    <3>1. ~ j < i
      BY <1>1, <2>2, <2>3, <2>4, <2>6 DEF Listed
    <3> QED BY <1>1, <2>2, <2>4, <3>1 DEF Listed
  <2>8. <<s[i], t[i]>> \in L
    <3>1. ~ k < i
      BY <1>1, <2>2, <2>3, <2>5, <2>6 DEF Listed
    <3> QED BY <1>1, <2>2, <2>5, <3>1 DEF Listed
  <2> QED BY <2>3, <2>6, <2>7, <2>8 DEF OrderOn
<1> QED BY <1>2, <1>3

NumberOrder == {p \in Int \X Int : p[1] < p[2]}

\* Numbers in order.
LEMMA NumbersListed ==
    ASSUME NEW S \in SUBSET Int
    PROVE  /\ OrderOn(S, NumberOrder)
           /\ \A x, y \in Int : <<x, y>> \in NumberOrder <=> x < y
           /\ IsFiniteSet(S) => Listed(InOrder(S, <), S, NumberOrder)
<1> DEFINE s == InOrder(S, <)
           L == NumberOrder
<1>1. \A x, y \in Int : <<x, y>> \in L <=> x < y
  BY DEF NumberOrder
<1>2. OrderOn(S, L)
  <2> HIDE DEF L
  <2> QED BY <1>1 DEF OrderOn
<1>3. \A x \in S : Rank(S, L, x) = Cardinality({y \in S : y < x})
  <2> HIDE DEF L
  <2>1. ASSUME NEW x \in S
        PROVE  {y \in S : <<y, x>> \in L} = {y \in S : y < x}
    BY <1>1
  <2> QED BY <2>1 DEF Rank
<1>4. s = [i \in 1..Cardinality(S) |->
             CHOOSE x \in S : Cardinality({y \in S : y < x}) = i - 1]
  BY DEF InOrder
<1>5. Ranked(s, S, L)
  <2> SUFFICES ASSUME NEW i \in 1..Cardinality(S), NEW x \in S, Rank(S, L, x) = i - 1
               PROVE  s[i] \in S /\ Rank(S, L, s[i]) = i - 1
    BY <1>4 DEF Ranked
  <2>1. s[i] = CHOOSE z \in S : Cardinality({y \in S : y < z}) = i - 1
    BY <1>4
  <2>2. s[i] \in S /\ Cardinality({y \in S : y < s[i]}) = i - 1
    <3> HIDE DEF L, s
    <3> QED BY <1>3, <2>1
  <2> HIDE DEF L, s
  <2> QED BY <1>3, <2>2
<1> HIDE DEF s
<1>6. IsFiniteSet(S) => Listed(s, S, L)
  BY <1>2, <1>5, RankedList
<1> QED BY <1>1, <1>2, <1>6 DEF s

-----------------------------------------------------------------------------
(* Strings.                                                                *)

Text == Seq(Int)

StrBefore(s, t) ==
    \/ Len(s) < Len(t) /\ \A j \in 1..Len(s) : s[j] = t[j]
    \/ \E i \in 1..Len(s) : i <= Len(t) /\ s[i] < t[i] /\ \A j \in 1..(i - 1) : s[j] = t[j]

\* Prefixes of two strings are equal if their characters are.
LEMMA SamePrefix ==
    ASSUME NEW s \in Text, NEW t \in Text, NEW n \in Nat, n <= Len(s), n <= Len(t)
    PROVE  SubSeq(s, 1, n) = SubSeq(t, 1, n) <=> \A j \in 1..n : s[j] = t[j]
<1>1. /\ SubSeq(s, 1, n) \in Seq(Int) /\ Len(SubSeq(s, 1, n)) = n
      /\ \A j \in 1..n : SubSeq(s, 1, n)[j] = s[j]
  BY DEF Text
<1>2. /\ SubSeq(t, 1, n) \in Seq(Int) /\ Len(SubSeq(t, 1, n)) = n
      /\ \A j \in 1..n : SubSeq(t, 1, n)[j] = t[j]
  BY DEF Text
<1>3. ASSUME SubSeq(s, 1, n) = SubSeq(t, 1, n), NEW j \in 1..n
      PROVE  s[j] = t[j]
  BY <1>1, <1>2, <1>3
<1>4. ASSUME \A j \in 1..n : s[j] = t[j]
      PROVE  SubSeq(s, 1, n) = SubSeq(t, 1, n)
  <2> DEFINE a == SubSeq(s, 1, n)
             b == SubSeq(t, 1, n)
  <2> HIDE DEF a, b
  <2>1. /\ a \in Seq(Int) /\ b \in Seq(Int) /\ Len(a) = n /\ Len(b) = n
        /\ \A j \in 1..n : a[j] = b[j]
    BY <1>1, <1>2, <1>4 DEF a, b
  <2>2. a = b
    BY <2>1
  <2> QED BY <2>2 DEF a, b
<1> QED BY <1>3, <1>4

\* StrLess by characters.
LEMMA StrLessAt ==
    ASSUME NEW s \in Text, NEW t \in Text
    PROVE  StrLess(s, t) <=> StrBefore(s, t)
<1>1. Len(s) \in Nat /\ Len(t) \in Nat
  BY DEF Text
<1>2. CASE Len(s) < Len(t)
  <2>1. SubSeq(t, 1, Len(s)) = SubSeq(s, 1, Len(s)) <=> \A j \in 1..Len(s) : t[j] = s[j]
    BY <1>1, <1>2, SamePrefix
  <2>2. SubSeq(s, 1, Len(s)) = s
    BY DEF Text
  <2>3. SubSeq(t, 1, Len(s)) = s <=> \A j \in 1..Len(s) : s[j] = t[j]
    BY <2>1, <2>2
  <2>4. \A i \in 1..Len(s) : i <= Len(t) =>
            (SubSeq(s, 1, i - 1) = SubSeq(t, 1, i - 1) <=> \A j \in 1..(i - 1) : s[j] = t[j])
    <3> SUFFICES ASSUME NEW i \in 1..Len(s), i <= Len(t)
                 PROVE  SubSeq(s, 1, i - 1) = SubSeq(t, 1, i - 1) <=> \A j \in 1..(i - 1) : s[j] = t[j]
      OBVIOUS
    <3>1. i - 1 \in Nat /\ i - 1 <= Len(s) /\ i - 1 <= Len(t)
      BY <1>1
    <3> QED BY <3>1, SamePrefix
  <2> QED BY <1>1, <1>2, <2>3, <2>4 DEF StrLess, StrBefore
<1>3. CASE ~ (Len(s) < Len(t))
  <2>4. \A i \in 1..Len(s) : i <= Len(t) =>
            (SubSeq(s, 1, i - 1) = SubSeq(t, 1, i - 1) <=> \A j \in 1..(i - 1) : s[j] = t[j])
    <3> SUFFICES ASSUME NEW i \in 1..Len(s), i <= Len(t)
                 PROVE  SubSeq(s, 1, i - 1) = SubSeq(t, 1, i - 1) <=> \A j \in 1..(i - 1) : s[j] = t[j]
      OBVIOUS
    <3>1. i - 1 \in Nat /\ i - 1 <= Len(s) /\ i - 1 <= Len(t)
      BY <1>1
    <3> QED BY <3>1, SamePrefix
  <2> QED BY <1>1, <1>3, <2>4 DEF StrLess, StrBefore
<1> QED BY <1>2, <1>3

\* No string is less than itself.
LEMMA StrIrreflexive ==
    ASSUME NEW s \in Text
    PROVE  ~ StrLess(s, s)
<1>1. Len(s) \in Nat /\ \A i \in 1..Len(s) : s[i] \in Int
  BY DEF Text
<1>2. ~ StrBefore(s, s)
  BY <1>1 DEF StrBefore
<1> QED BY <1>2, StrLessAt

\* The order of strings is transitive.
LEMMA StrTransitive ==
    ASSUME NEW s \in Text, NEW t \in Text, NEW u \in Text, StrLess(s, t), StrLess(t, u)
    PROVE  StrLess(s, u)
<1>1. /\ Len(s) \in Nat /\ Len(t) \in Nat /\ Len(u) \in Nat
      /\ \A i \in 1..Len(s) : s[i] \in Int
      /\ \A i \in 1..Len(t) : t[i] \in Int
      /\ \A i \in 1..Len(u) : u[i] \in Int
  BY DEF Text
<1>2. StrBefore(s, t) /\ StrBefore(t, u)
  BY StrLessAt
<1>3. CASE Len(s) < Len(t) /\ \A j \in 1..Len(s) : s[j] = t[j]
  <2>1. CASE Len(t) < Len(u) /\ \A j \in 1..Len(t) : t[j] = u[j]
    <3>1. StrBefore(s, u)
      BY <1>1, <1>3, <2>1 DEF StrBefore
    <3> QED BY <3>1, StrLessAt
  <2>2. ASSUME NEW i \in 1..Len(t), i <= Len(u), t[i] < u[i], \A j \in 1..(i - 1) : t[j] = u[j]
        PROVE  StrLess(s, u)
    <3>1. StrBefore(s, u)
      <4>1. CASE i <= Len(s)
        BY <1>1, <1>3, <2>2, <4>1 DEF StrBefore
      <4>2. CASE ~ (i <= Len(s))
        BY <1>1, <1>3, <2>2, <4>2 DEF StrBefore
      <4> QED BY <4>1, <4>2
    <3> QED BY <3>1, StrLessAt
  <2> QED BY <1>2, <2>1, <2>2 DEF StrBefore
<1>4. ASSUME NEW k \in 1..Len(s), k <= Len(t), s[k] < t[k], \A j \in 1..(k - 1) : s[j] = t[j]
      PROVE  StrLess(s, u)
  <2>1. CASE Len(t) < Len(u) /\ \A j \in 1..Len(t) : t[j] = u[j]
    <3>1. StrBefore(s, u)
      BY <1>1, <1>4, <2>1 DEF StrBefore
    <3> QED BY <3>1, StrLessAt
  <2>2. ASSUME NEW i \in 1..Len(t), i <= Len(u), t[i] < u[i], \A j \in 1..(i - 1) : t[j] = u[j]
        PROVE  StrLess(s, u)
    <3>1. StrBefore(s, u)
      <4>1. CASE i < k
        BY <1>1, <1>4, <2>2, <4>1 DEF StrBefore
      <4>2. CASE ~ (i < k)
        <5>1. k <= Len(u) /\ s[k] < u[k] /\ \A j \in 1..(k - 1) : s[j] = u[j]
          <6>1. CASE k = i
            BY <1>1, <1>4, <2>2, <6>1
          <6>2. CASE k < i
            BY <1>1, <1>4, <2>2, <6>2
          <6> QED BY <1>1, <4>2, <6>1, <6>2
        <5> QED BY <1>4, <5>1 DEF StrBefore
      <4> QED BY <4>1, <4>2
    <3> QED BY <3>1, StrLessAt
  <2> QED BY <1>2, <2>1, <2>2 DEF StrBefore
<1> QED BY <1>2, <1>3, <1>4 DEF StrBefore

\* Two strings are equal or one is less.
LEMMA StrTotal ==
    ASSUME NEW s \in Text, NEW t \in Text, s # t
    PROVE  StrLess(s, t) \/ StrLess(t, s)
<1>1. /\ Len(s) \in Nat /\ Len(t) \in Nat
      /\ \A i \in 1..Len(s) : s[i] \in Int
      /\ \A i \in 1..Len(t) : t[i] \in Int
  BY DEF Text
<1> DEFINE D == {i \in Nat : i \in 1..Len(s) /\ i \in 1..Len(t) /\ s[i] # t[i]}
<1>2. CASE D = {}
  <2>1. \A i \in 1..Len(s) : i <= Len(t) => s[i] = t[i]
    BY <1>1, <1>2
  <2>2. Len(s) # Len(t)
    <3> SUFFICES ASSUME Len(s) = Len(t) PROVE FALSE
      OBVIOUS
    <3>1. s = t
      <4>1. s \in Seq(Int) /\ t \in Seq(Int) /\ \A i \in 1..Len(s) : s[i] = t[i]
        BY <1>1, <2>1 DEF Text
      <4> QED BY <4>1
    <3> QED BY <3>1
  <2>3. StrBefore(s, t) \/ StrBefore(t, s)
    BY <1>1, <2>1, <2>2 DEF StrBefore
  <2> QED BY <2>3, StrLessAt
<1>3. CASE D # {}
  <2>1. PICK i \in D : \A j \in D : i <= j
    <3>1. D \in SUBSET Nat
      OBVIOUS
    <3> HIDE DEF D
    <3> QED BY <1>3, <3>1, LeastNat
  <2>2. /\ i \in 1..Len(s) /\ i \in 1..Len(t) /\ s[i] # t[i]
        /\ \A j \in 1..(i - 1) : s[j] = t[j]
    BY <1>1, <2>1
  <2>3. StrBefore(s, t) \/ StrBefore(t, s)
    BY <1>1, <2>2 DEF StrBefore
  <2> QED BY <2>3, StrLessAt
<1> QED BY <1>2, <1>3

StrOrder == {p \in Text \X Text : StrLess(p[1], p[2])}

\* Strings in order.
LEMMA StringsListed ==
    ASSUME NEW S \in SUBSET Text
    PROVE  /\ OrderOn(S, StrOrder)
           /\ \A x, y \in Text : <<x, y>> \in StrOrder <=> StrLess(x, y)
           /\ IsFiniteSet(S) => Listed(InOrder(S, StrLess), S, StrOrder)
<1> DEFINE s == InOrder(S, StrLess)
           L == StrOrder
<1>1. \A x, y \in Text : <<x, y>> \in L <=> StrLess(x, y)
  BY DEF StrOrder
<1>2. OrderOn(S, L)
  <2> HIDE DEF L
  <2> QED BY <1>1, StrIrreflexive, StrTransitive, StrTotal DEF OrderOn
<1>3. \A x \in S : Rank(S, L, x) = Cardinality({y \in S : StrLess(y, x)})
  <2> HIDE DEF L
  <2>1. ASSUME NEW x \in S
        PROVE  {y \in S : <<y, x>> \in L} = {y \in S : StrLess(y, x)}
    BY <1>1
  <2> QED BY <2>1 DEF Rank
<1>4. s = [i \in 1..Cardinality(S) |->
             CHOOSE x \in S : Cardinality({y \in S : StrLess(y, x)}) = i - 1]
  BY DEF InOrder
<1>5. Ranked(s, S, L)
  <2> SUFFICES ASSUME NEW i \in 1..Cardinality(S), NEW x \in S, Rank(S, L, x) = i - 1
               PROVE  s[i] \in S /\ Rank(S, L, s[i]) = i - 1
    BY <1>4 DEF Ranked
  <2>1. s[i] = CHOOSE z \in S : Cardinality({y \in S : StrLess(y, z)}) = i - 1
    BY <1>4
  <2>2. s[i] \in S /\ Cardinality({y \in S : StrLess(y, s[i])}) = i - 1
    <3> HIDE DEF L, s
    <3> QED BY <1>3, <2>1
  <2> HIDE DEF L, s
  <2> QED BY <1>3, <2>2
<1> HIDE DEF s
<1>6. IsFiniteSet(S) => Listed(s, S, L)
  BY <1>2, <1>5, RankedList
<1> QED BY <1>1, <1>2, <1>6 DEF s

-----------------------------------------------------------------------------
(* Folds.  The q of a fold is a sequence of n elements, and S a set that   *)
(* its steps do not leave: then the fold has a value h[k] after k of them, *)
(* and the fold of a longer list is one step more.                         *)

KeepSteps(n, q, S, z, K) ==
    /\ n \in Nat /\ DOMAIN q = 1..n /\ z \in S
    /\ \A x \in S, i \in 1..n : (IF q[i] \in K THEN Append(x, q[i]) ELSE x) \in S

KeepStages(h, n, q, S, z, K) ==
    /\ h \in [0..n -> S] /\ h[0] = z
    /\ \A k \in 1..n : h[k - 1] \in S /\ h[k] = (IF q[k] \in K THEN Append(h[k - 1], q[k]) ELSE h[k - 1])
    /\ FoldLeft(LAMBDA acc, x : IF x \in K THEN Append(acc, x) ELSE acc, z, q) = h[n]

\* A filter has stages.
LEMMA KeepFold ==
    ASSUME NEW n, NEW q, NEW S, NEW z, NEW K, KeepSteps(n, q, S, z, K)
    PROVE  \E h : KeepStages(h, n, q, S, z, K)
<1> DEFINE Body(f, s) == IF s = {} THEN z ELSE (IF q[Max(s)] \in K THEN Append(f[s \ {Max(s)}], q[Max(s)]) ELSE f[s \ {Max(s)}])
           E(f) == f = [s \in SUBSET (DOMAIN q) |-> Body(f, s)]
           it == CHOOSE f : E(f)
           U == [p \in S \X (1..n) |-> (IF q[p[2]] \in K THEN Append(p[1], q[p[2]]) ELSE p[1])]
<1>1. FoldLeft(LAMBDA acc, x : IF x \in K THEN Append(acc, x) ELSE acc, z, q) = it[DOMAIN q]
  BY Zenon DEF FoldLeft, MapThenFoldSet
<1>2. /\ n \in Nat /\ DOMAIN q = 1..n /\ z \in S
      /\ U \in [S \X (1..n) -> S] /\ \A x \in S, i \in 1..n : U[<<x, i>>] = (IF q[i] \in K THEN Append(x, q[i]) ELSE x)
  BY DEF KeepSteps
<1> HIDE DEF U
<1>3. PICK f : /\ f = [s \in SUBSET (1..n) |-> f[s]] /\ FoldsBy(f, n, S, z, U)
               /\ \A s \in SUBSET (1..n) : s # {} => f[s \ {Max(s)}] \in S /\ Max(s) \in 1..n
  <2>1. n \in Nat /\ z \in S /\ U \in [S \X (1..n) -> S]
    BY <1>2
  <2> QED BY <2>1, FoldTable, Zenon
<1>4. E(f)
  <2>1. \A s \in SUBSET (1..n) : f[s] = Body(f, s)
    BY <1>2, <1>3 DEF FoldsBy
  <2> HIDE DEF Body
  <2> QED BY <1>2, <1>3, <2>1
<1>5. E(it)
  <2> HIDE DEF E
  <2> QED BY <1>4
<1> HIDE DEF it
<1>6. FoldsBy(it, n, S, z, U)
  <2>1. \A s \in SUBSET (1..n) : it[s] = Body(it, s)
    <3> HIDE DEF Body
    <3> QED BY <1>2, <1>5
  <2>2. {} \in SUBSET (1..n) /\ \A s \in SUBSET (1..n) : s # {} => Max(s) \in 1..n
    BY <1>3
  <2> QED BY <1>2, <2>1, <2>2 DEF FoldsBy
<1>7. PICK h : StagesOf(h, it, n, S, z, U)
  BY <1>6, FoldStages
<1>8. ASSUME NEW k \in 1..n
      PROVE  h[k - 1] \in S /\ h[k] = (IF q[k] \in K THEN Append(h[k - 1], q[k]) ELSE h[k - 1])
  BY <1>2, <1>7 DEF StagesOf
<1>9. h \in [0..n -> S] /\ h[0] = z /\ it[DOMAIN q] = h[n]
  BY <1>2, <1>7 DEF StagesOf
<1> QED BY <1>1, <1>8, <1>9, Zenon DEF KeepStages

KeepClosed(V, S, K) == \A a \in S, v \in V : (IF v \in K THEN Append(a, v) ELSE a) \in S

\* One element more.
LEMMA KeepLast ==
    ASSUME NEW V, NEW S, NEW K, <<>> \in S, KeepClosed(V, S, K)
    PROVE  /\ Keep(<<>>, K) = <<>>
           /\ \A s \in Seq(V) : Keep(s, K) \in S
           /\ \A s \in Seq(V), u \in V : Keep(Append(s, u), K) = (IF u \in K THEN Append(Keep(s, K), u) ELSE Keep(s, K))
<1>1. ASSUME NEW n \in Nat, NEW q, DOMAIN q = 1..n, \A i \in 1..n : q[i] \in V
      PROVE  \E h : KeepStages(h, n, q, S, <<>>, K)
  <2>1. KeepSteps(n, q, S, <<>>, K)
    BY <1>1 DEF KeepSteps, KeepClosed
  <2> QED BY <2>1, KeepFold
<1>2. Keep(<<>>, K) = <<>>
  <2>1. PICK e : KeepStages(e, 0, <<>>, S, <<>>, K)
    <3>1. 0 \in Nat /\ DOMAIN <<>> = 1..0 /\ \A i \in 1..0 : <<>>[i] \in V
      OBVIOUS
    <3> QED BY <1>1, <3>1
  <2> QED BY <2>1, Zenon DEF KeepStages, Keep
<1>3. ASSUME NEW s \in Seq(V)
      PROVE  Keep(s, K) \in S
  <2>1. Len(s) \in Nat /\ DOMAIN s = 1..Len(s) /\ \A i \in 1..Len(s) : s[i] \in V /\ Len(s) \in 0..Len(s)
    OBVIOUS
  <2>2. PICK g : KeepStages(g, Len(s), s, S, <<>>, K)
    BY <1>1, <2>1
  <2>3. Keep(s, K) = g[Len(s)]
    BY <2>2, Zenon DEF KeepStages, Keep
  <2>4. g \in [0..Len(s) -> S]
    BY <2>2 DEF KeepStages
  <2> QED BY <2>1, <2>3, <2>4
<1>4. ASSUME NEW s \in Seq(V), NEW u \in V
      PROVE  Keep(Append(s, u), K) = (IF u \in K THEN Append(Keep(s, K), u) ELSE Keep(s, K))
  <2> DEFINE n == Len(s)
             t == Append(s, u)
  <2>1. /\ n \in Nat /\ DOMAIN s = 1..n /\ \A i \in 1..n : s[i] \in V
        /\ DOMAIN t = 1..(n + 1) /\ t[n + 1] = u /\ \A i \in 1..n : t[i] = s[i]
        /\ \A i \in 1..(n + 1) : t[i] \in V
    OBVIOUS
  <2> HIDE DEF n, t
  <2>2. PICK g : KeepStages(g, n, s, S, <<>>, K)
    BY <1>1, <2>1
  <2>3. PICK h : KeepStages(h, n + 1, t, S, <<>>, K)
    BY <1>1, <2>1
  <2>4. \A k \in 0..n : k \in {i \in 0..n : h[i] = g[i]}
    <3> DEFINE R == {i \in 0..n : h[i] = g[i]}
    <3>1. 0 \in R
      <4>1. g[0] = <<>>
        BY <2>2 DEF KeepStages
      <4>2. h[0] = <<>>
        BY <2>3 DEF KeepStages
      <4> QED BY <2>1, <4>1, <4>2
    <3>2. ASSUME NEW k \in 1..n, k - 1 \in R
          PROVE  k \in R
      <4>1. k \in 1..(n + 1) /\ t[k] = s[k] /\ h[k - 1] = g[k - 1] /\ k \in 0..n
        BY <2>1, <3>2
      <4>2. g[k] = (IF s[k] \in K THEN Append(g[k - 1], s[k]) ELSE g[k - 1])
        BY <2>2 DEF KeepStages
      <4>3. h[k] = (IF t[k] \in K THEN Append(h[k - 1], t[k]) ELSE h[k - 1])
        BY <2>3, <4>1 DEF KeepStages
      <4>4. h[k] = g[k]
        BY <4>1, <4>2, <4>3
      <4> QED BY <4>1, <4>4
    <3> HIDE DEF R
    <3>3. \A k \in 0..n : k \in R
      BY <2>1, <3>1, <3>2, UpTo
    <3> QED BY <3>3 DEF R
  <2>5. Keep(s, K) = g[n] /\ h[n] = g[n]
    <3>1. n \in 0..n
      BY <2>1
    <3>2. Keep(s, K) = g[n]
      BY <2>2, Zenon DEF KeepStages, Keep
    <3> QED BY <2>4, <3>1, <3>2
  <2>6. Keep(t, K) = h[n + 1]
    BY <2>3, Zenon DEF KeepStages, Keep
  <2>7. h[n + 1] = (IF u \in K THEN Append(h[n], u) ELSE h[n])
    <3>1. n + 1 \in 1..(n + 1) /\ (n + 1) - 1 = n
      BY <2>1
    <3>2. h[n + 1] = (IF t[n + 1] \in K THEN Append(h[(n + 1) - 1], t[n + 1]) ELSE h[(n + 1) - 1])
      BY <2>3, <3>1 DEF KeepStages
    <3> QED BY <2>1, <3>1, <3>2, Zenon
  <2> QED BY <2>5, <2>6, <2>7, Zenon DEF t
<1> QED BY <1>2, <1>3, <1>4

KeySteps(n, q, S, z, key) ==
    /\ n \in Nat /\ DOMAIN q = 1..n /\ z \in S
    /\ \A x \in S, i \in 1..n : (IF \E y \in ToSet(x) : key[y] = key[q[i]] THEN x ELSE Append(x, q[i])) \in S

KeyStages(h, n, q, S, z, key) ==
    /\ h \in [0..n -> S] /\ h[0] = z
    /\ \A k \in 1..n : h[k - 1] \in S /\ h[k] = (IF \E y \in ToSet(h[k - 1]) : key[y] = key[q[k]] THEN h[k - 1] ELSE Append(h[k - 1], q[k]))
    /\ FoldLeft(LAMBDA acc, x : IF \E y \in ToSet(acc) : key[y] = key[x] THEN acc ELSE Append(acc, x), z, q) = h[n]

\* A filter by key has stages.
LEMMA KeyFold ==
    ASSUME NEW n, NEW q, NEW S, NEW z, NEW key, KeySteps(n, q, S, z, key)
    PROVE  \E h : KeyStages(h, n, q, S, z, key)
<1> DEFINE Body(f, s) == IF s = {} THEN z ELSE (IF \E y \in ToSet(f[s \ {Max(s)}]) : key[y] = key[q[Max(s)]] THEN f[s \ {Max(s)}] ELSE Append(f[s \ {Max(s)}], q[Max(s)]))
           E(f) == f = [s \in SUBSET (DOMAIN q) |-> Body(f, s)]
           it == CHOOSE f : E(f)
           U == [p \in S \X (1..n) |-> (IF \E y \in ToSet(p[1]) : key[y] = key[q[p[2]]] THEN p[1] ELSE Append(p[1], q[p[2]]))]
<1>1. FoldLeft(LAMBDA acc, x : IF \E y \in ToSet(acc) : key[y] = key[x] THEN acc ELSE Append(acc, x), z, q) = it[DOMAIN q]
  BY Zenon DEF FoldLeft, MapThenFoldSet
<1>2. /\ n \in Nat /\ DOMAIN q = 1..n /\ z \in S
      /\ U \in [S \X (1..n) -> S] /\ \A x \in S, i \in 1..n : U[<<x, i>>] = (IF \E y \in ToSet(x) : key[y] = key[q[i]] THEN x ELSE Append(x, q[i]))
  BY DEF KeySteps
<1> HIDE DEF U
<1>3. PICK f : /\ f = [s \in SUBSET (1..n) |-> f[s]] /\ FoldsBy(f, n, S, z, U)
               /\ \A s \in SUBSET (1..n) : s # {} => f[s \ {Max(s)}] \in S /\ Max(s) \in 1..n
  <2>1. n \in Nat /\ z \in S /\ U \in [S \X (1..n) -> S]
    BY <1>2
  <2> QED BY <2>1, FoldTable, Zenon
<1>4. E(f)
  <2>1. \A s \in SUBSET (1..n) : f[s] = Body(f, s)
    BY <1>2, <1>3 DEF FoldsBy
  <2> HIDE DEF Body
  <2> QED BY <1>2, <1>3, <2>1
<1>5. E(it)
  <2> HIDE DEF E
  <2> QED BY <1>4
<1> HIDE DEF it
<1>6. FoldsBy(it, n, S, z, U)
  <2>1. \A s \in SUBSET (1..n) : it[s] = Body(it, s)
    <3> HIDE DEF Body
    <3> QED BY <1>2, <1>5
  <2>2. {} \in SUBSET (1..n) /\ \A s \in SUBSET (1..n) : s # {} => Max(s) \in 1..n
    BY <1>3
  <2> QED BY <1>2, <2>1, <2>2, ZenonT(40) DEF FoldsBy
<1>7. PICK h : StagesOf(h, it, n, S, z, U)
  BY <1>6, FoldStages
<1>8. ASSUME NEW k \in 1..n
      PROVE  h[k - 1] \in S /\ h[k] = (IF \E y \in ToSet(h[k - 1]) : key[y] = key[q[k]] THEN h[k - 1] ELSE Append(h[k - 1], q[k]))
  BY <1>2, <1>7 DEF StagesOf
<1>9. h \in [0..n -> S] /\ h[0] = z /\ it[DOMAIN q] = h[n]
  BY <1>2, <1>7 DEF StagesOf
<1> QED BY <1>1, <1>8, <1>9, Zenon DEF KeyStages

KeyClosed(V, S, key) == \A a \in S, v \in V : (IF \E y \in ToSet(a) : key[y] = key[v] THEN a ELSE Append(a, v)) \in S

\* One element more.
LEMMA KeyLast ==
    ASSUME NEW V, NEW S, NEW key, <<>> \in S, KeyClosed(V, S, key)
    PROVE  /\ DistinctBy(<<>>, key) = <<>>
           /\ \A s \in Seq(V) : DistinctBy(s, key) \in S
           /\ \A s \in Seq(V), u \in V : DistinctBy(Append(s, u), key) = (IF \E y \in ToSet(DistinctBy(s, key)) : key[y] = key[u] THEN DistinctBy(s, key) ELSE Append(DistinctBy(s, key), u))
<1>1. ASSUME NEW n \in Nat, NEW q, DOMAIN q = 1..n, \A i \in 1..n : q[i] \in V
      PROVE  \E h : KeyStages(h, n, q, S, <<>>, key)
  <2>1. KeySteps(n, q, S, <<>>, key)
    BY <1>1 DEF KeySteps, KeyClosed
  <2> QED BY <2>1, KeyFold
<1>2. DistinctBy(<<>>, key) = <<>>
  <2>1. PICK e : KeyStages(e, 0, <<>>, S, <<>>, key)
    <3>1. 0 \in Nat /\ DOMAIN <<>> = 1..0 /\ \A i \in 1..0 : <<>>[i] \in V
      OBVIOUS
    <3> QED BY <1>1, <3>1
  <2> QED BY <2>1, Zenon DEF KeyStages, DistinctBy
<1>3. ASSUME NEW s \in Seq(V)
      PROVE  DistinctBy(s, key) \in S
  <2>1. Len(s) \in Nat /\ DOMAIN s = 1..Len(s) /\ \A i \in 1..Len(s) : s[i] \in V /\ Len(s) \in 0..Len(s)
    OBVIOUS
  <2>2. PICK g : KeyStages(g, Len(s), s, S, <<>>, key)
    BY <1>1, <2>1
  <2>3. DistinctBy(s, key) = g[Len(s)]
    BY <2>2, Zenon DEF KeyStages, DistinctBy
  <2>4. g \in [0..Len(s) -> S]
    BY <2>2 DEF KeyStages
  <2> QED BY <2>1, <2>3, <2>4
<1>4. ASSUME NEW s \in Seq(V), NEW u \in V
      PROVE  DistinctBy(Append(s, u), key) = (IF \E y \in ToSet(DistinctBy(s, key)) : key[y] = key[u] THEN DistinctBy(s, key) ELSE Append(DistinctBy(s, key), u))
  <2> DEFINE n == Len(s)
             t == Append(s, u)
  <2>1. /\ n \in Nat /\ DOMAIN s = 1..n /\ \A i \in 1..n : s[i] \in V
        /\ DOMAIN t = 1..(n + 1) /\ t[n + 1] = u /\ \A i \in 1..n : t[i] = s[i]
        /\ \A i \in 1..(n + 1) : t[i] \in V
    OBVIOUS
  <2> HIDE DEF n, t
  <2>2. PICK g : KeyStages(g, n, s, S, <<>>, key)
    BY <1>1, <2>1
  <2>3. PICK h : KeyStages(h, n + 1, t, S, <<>>, key)
    BY <1>1, <2>1
  <2>4. \A k \in 0..n : k \in {i \in 0..n : h[i] = g[i]}
    <3> DEFINE R == {i \in 0..n : h[i] = g[i]}
    <3>1. 0 \in R
      <4>1. g[0] = <<>>
        BY <2>2 DEF KeyStages
      <4>2. h[0] = <<>>
        BY <2>3 DEF KeyStages
      <4> QED BY <2>1, <4>1, <4>2
    <3>2. ASSUME NEW k \in 1..n, k - 1 \in R
          PROVE  k \in R
      <4>1. k \in 1..(n + 1) /\ t[k] = s[k] /\ h[k - 1] = g[k - 1] /\ k \in 0..n
        BY <2>1, <3>2
      <4>2. g[k] = (IF \E y \in ToSet(g[k - 1]) : key[y] = key[s[k]] THEN g[k - 1] ELSE Append(g[k - 1], s[k]))
        BY <2>2 DEF KeyStages
      <4>3. h[k] = (IF \E y \in ToSet(h[k - 1]) : key[y] = key[t[k]] THEN h[k - 1] ELSE Append(h[k - 1], t[k]))
        BY <2>3, <4>1 DEF KeyStages
      <4>4. h[k] = g[k]
        BY <4>1, <4>2, <4>3
      <4> QED BY <4>1, <4>4
    <3> HIDE DEF R
    <3>3. \A k \in 0..n : k \in R
      BY <2>1, <3>1, <3>2, UpTo
    <3> QED BY <3>3 DEF R
  <2>5. DistinctBy(s, key) = g[n] /\ h[n] = g[n]
    <3>1. n \in 0..n
      BY <2>1
    <3>2. DistinctBy(s, key) = g[n]
      BY <2>2, Zenon DEF KeyStages, DistinctBy
    <3> QED BY <2>4, <3>1, <3>2
  <2>6. DistinctBy(t, key) = h[n + 1]
    BY <2>3, Zenon DEF KeyStages, DistinctBy
  <2>7. h[n + 1] = (IF \E y \in ToSet(h[n]) : key[y] = key[u] THEN h[n] ELSE Append(h[n], u))
    <3>1. n + 1 \in 1..(n + 1) /\ (n + 1) - 1 = n
      BY <2>1
    <3>2. h[n + 1] = (IF \E y \in ToSet(h[(n + 1) - 1]) : key[y] = key[t[n + 1]] THEN h[(n + 1) - 1] ELSE Append(h[(n + 1) - 1], t[n + 1]))
      BY <2>3, <3>1 DEF KeyStages
    <3> QED BY <2>1, <3>1, <3>2, Zenon
  <2> QED BY <2>5, <2>6, <2>7, Zenon DEF t
<1> QED BY <1>2, <1>3, <1>4

FirstSteps(n, q, S, z, m) ==
    /\ n \in Nat /\ DOMAIN q = 1..n /\ z \in S
    /\ \A x \in S, i \in 1..n : (IF q[i] \in ToSet(x) \/ Len(x) >= m THEN x ELSE Append(x, q[i])) \in S

FirstStages(h, n, q, S, z, m) ==
    /\ h \in [0..n -> S] /\ h[0] = z
    /\ \A k \in 1..n : h[k - 1] \in S /\ h[k] = (IF q[k] \in ToSet(h[k - 1]) \/ Len(h[k - 1]) >= m THEN h[k - 1] ELSE Append(h[k - 1], q[k]))
    /\ FoldLeft(LAMBDA acc, x : IF x \in ToSet(acc) \/ Len(acc) >= m THEN acc ELSE Append(acc, x), z, q) = h[n]

\* A filter by value and length has stages.
LEMMA FirstFold ==
    ASSUME NEW n, NEW q, NEW S, NEW z, NEW m, FirstSteps(n, q, S, z, m)
    PROVE  \E h : FirstStages(h, n, q, S, z, m)
<1> DEFINE Body(f, s) == IF s = {} THEN z ELSE (IF q[Max(s)] \in ToSet(f[s \ {Max(s)}]) \/ Len(f[s \ {Max(s)}]) >= m THEN f[s \ {Max(s)}] ELSE Append(f[s \ {Max(s)}], q[Max(s)]))
           E(f) == f = [s \in SUBSET (DOMAIN q) |-> Body(f, s)]
           it == CHOOSE f : E(f)
           U == [p \in S \X (1..n) |-> (IF q[p[2]] \in ToSet(p[1]) \/ Len(p[1]) >= m THEN p[1] ELSE Append(p[1], q[p[2]]))]
<1>1. FoldLeft(LAMBDA acc, x : IF x \in ToSet(acc) \/ Len(acc) >= m THEN acc ELSE Append(acc, x), z, q) = it[DOMAIN q]
  BY Zenon DEF FoldLeft, MapThenFoldSet
<1>2. /\ n \in Nat /\ DOMAIN q = 1..n /\ z \in S
      /\ U \in [S \X (1..n) -> S] /\ \A x \in S, i \in 1..n : U[<<x, i>>] = (IF q[i] \in ToSet(x) \/ Len(x) >= m THEN x ELSE Append(x, q[i]))
  BY DEF FirstSteps
<1> HIDE DEF U
<1>3. PICK f : /\ f = [s \in SUBSET (1..n) |-> f[s]] /\ FoldsBy(f, n, S, z, U)
               /\ \A s \in SUBSET (1..n) : s # {} => f[s \ {Max(s)}] \in S /\ Max(s) \in 1..n
  <2>1. n \in Nat /\ z \in S /\ U \in [S \X (1..n) -> S]
    BY <1>2
  <2> QED BY <2>1, FoldTable, Zenon
<1>4. E(f)
  <2>1. \A s \in SUBSET (1..n) : f[s] = Body(f, s)
    BY <1>2, <1>3 DEF FoldsBy
  <2> HIDE DEF Body
  <2> QED BY <1>2, <1>3, <2>1
<1>5. E(it)
  <2> HIDE DEF E
  <2> QED BY <1>4
<1> HIDE DEF it
<1>6. FoldsBy(it, n, S, z, U)
  <2>1. \A s \in SUBSET (1..n) : it[s] = Body(it, s)
    <3> HIDE DEF Body
    <3> QED BY <1>2, <1>5
  <2>2. {} \in SUBSET (1..n) /\ \A s \in SUBSET (1..n) : s # {} => Max(s) \in 1..n
    BY <1>3
  <2> QED BY <1>2, <2>1, <2>2 DEF FoldsBy
<1>7. PICK h : StagesOf(h, it, n, S, z, U)
  BY <1>6, FoldStages
<1>8. ASSUME NEW k \in 1..n
      PROVE  h[k - 1] \in S /\ h[k] = (IF q[k] \in ToSet(h[k - 1]) \/ Len(h[k - 1]) >= m THEN h[k - 1] ELSE Append(h[k - 1], q[k]))
  BY <1>2, <1>7 DEF StagesOf
<1>9. h \in [0..n -> S] /\ h[0] = z /\ it[DOMAIN q] = h[n]
  BY <1>2, <1>7 DEF StagesOf
<1> QED BY <1>1, <1>8, <1>9, Zenon DEF FirstStages

FirstClosed(V, S, m) == \A a \in S, v \in V : (IF v \in ToSet(a) \/ Len(a) >= m THEN a ELSE Append(a, v)) \in S

\* One element more.
LEMMA FirstLast ==
    ASSUME NEW V, NEW S, NEW m, <<>> \in S, FirstClosed(V, S, m)
    PROVE  /\ FirstDistinct(<<>>, m) = <<>>
           /\ \A s \in Seq(V) : FirstDistinct(s, m) \in S
           /\ \A s \in Seq(V), u \in V : FirstDistinct(Append(s, u), m) = (IF u \in ToSet(FirstDistinct(s, m)) \/ Len(FirstDistinct(s, m)) >= m THEN FirstDistinct(s, m) ELSE Append(FirstDistinct(s, m), u))
<1>1. ASSUME NEW n \in Nat, NEW q, DOMAIN q = 1..n, \A i \in 1..n : q[i] \in V
      PROVE  \E h : FirstStages(h, n, q, S, <<>>, m)
  <2>1. FirstSteps(n, q, S, <<>>, m)
    BY <1>1 DEF FirstSteps, FirstClosed
  <2> QED BY <2>1, FirstFold
<1>2. FirstDistinct(<<>>, m) = <<>>
  <2>1. PICK e : FirstStages(e, 0, <<>>, S, <<>>, m)
    <3>1. 0 \in Nat /\ DOMAIN <<>> = 1..0 /\ \A i \in 1..0 : <<>>[i] \in V
      OBVIOUS
    <3> QED BY <1>1, <3>1
  <2> QED BY <2>1, Zenon DEF FirstStages, FirstDistinct
<1>3. ASSUME NEW s \in Seq(V)
      PROVE  FirstDistinct(s, m) \in S
  <2>1. Len(s) \in Nat /\ DOMAIN s = 1..Len(s) /\ \A i \in 1..Len(s) : s[i] \in V /\ Len(s) \in 0..Len(s)
    OBVIOUS
  <2>2. PICK g : FirstStages(g, Len(s), s, S, <<>>, m)
    BY <1>1, <2>1
  <2>3. FirstDistinct(s, m) = g[Len(s)]
    BY <2>2, Zenon DEF FirstStages, FirstDistinct
  <2>4. g \in [0..Len(s) -> S]
    BY <2>2 DEF FirstStages
  <2> QED BY <2>1, <2>3, <2>4
<1>4. ASSUME NEW s \in Seq(V), NEW u \in V
      PROVE  FirstDistinct(Append(s, u), m) = (IF u \in ToSet(FirstDistinct(s, m)) \/ Len(FirstDistinct(s, m)) >= m THEN FirstDistinct(s, m) ELSE Append(FirstDistinct(s, m), u))
  <2> DEFINE n == Len(s)
             t == Append(s, u)
  <2>1. /\ n \in Nat /\ DOMAIN s = 1..n /\ \A i \in 1..n : s[i] \in V
        /\ DOMAIN t = 1..(n + 1) /\ t[n + 1] = u /\ \A i \in 1..n : t[i] = s[i]
        /\ \A i \in 1..(n + 1) : t[i] \in V
    OBVIOUS
  <2> HIDE DEF n, t
  <2>2. PICK g : FirstStages(g, n, s, S, <<>>, m)
    BY <1>1, <2>1
  <2>3. PICK h : FirstStages(h, n + 1, t, S, <<>>, m)
    BY <1>1, <2>1
  <2>4. \A k \in 0..n : k \in {i \in 0..n : h[i] = g[i]}
    <3> DEFINE R == {i \in 0..n : h[i] = g[i]}
    <3>1. 0 \in R
      <4>1. g[0] = <<>>
        BY <2>2 DEF FirstStages
      <4>2. h[0] = <<>>
        BY <2>3 DEF FirstStages
      <4> QED BY <2>1, <4>1, <4>2
    <3>2. ASSUME NEW k \in 1..n, k - 1 \in R
          PROVE  k \in R
      <4>1. k \in 1..(n + 1) /\ t[k] = s[k] /\ h[k - 1] = g[k - 1] /\ k \in 0..n
        BY <2>1, <3>2
      <4>2. g[k] = (IF s[k] \in ToSet(g[k - 1]) \/ Len(g[k - 1]) >= m THEN g[k - 1] ELSE Append(g[k - 1], s[k]))
        BY <2>2 DEF FirstStages
      <4>3. h[k] = (IF t[k] \in ToSet(h[k - 1]) \/ Len(h[k - 1]) >= m THEN h[k - 1] ELSE Append(h[k - 1], t[k]))
        BY <2>3, <4>1 DEF FirstStages
      <4>4. h[k] = g[k]
        BY <4>1, <4>2, <4>3
      <4> QED BY <4>1, <4>4
    <3> HIDE DEF R
    <3>3. \A k \in 0..n : k \in R
      BY <2>1, <3>1, <3>2, UpTo
    <3> QED BY <3>3 DEF R
  <2>5. FirstDistinct(s, m) = g[n] /\ h[n] = g[n]
    <3>1. n \in 0..n
      BY <2>1
    <3>2. FirstDistinct(s, m) = g[n]
      BY <2>2, Zenon DEF FirstStages, FirstDistinct
    <3> QED BY <2>4, <3>1, <3>2
  <2>6. FirstDistinct(t, m) = h[n + 1]
    BY <2>3, Zenon DEF FirstStages, FirstDistinct
  <2>7. h[n + 1] = (IF u \in ToSet(h[n]) \/ Len(h[n]) >= m THEN h[n] ELSE Append(h[n], u))
    <3>1. n + 1 \in 1..(n + 1) /\ (n + 1) - 1 = n
      BY <2>1
    <3>2. h[n + 1] = (IF t[n + 1] \in ToSet(h[(n + 1) - 1]) \/ Len(h[(n + 1) - 1]) >= m THEN h[(n + 1) - 1] ELSE Append(h[(n + 1) - 1], t[n + 1]))
      BY <2>3, <3>1 DEF FirstStages
    <3> QED BY <2>1, <3>1, <3>2, Zenon
  <2> QED BY <2>5, <2>6, <2>7, Zenon DEF t
<1> QED BY <1>2, <1>3, <1>4

-----------------------------------------------------------------------------
(* Lists.                                                                  *)

\* The prefixes of a list.
LEMMA Prefixed ==
    ASSUME NEW V, NEW s \in Seq(V)
    PROVE  /\ Len(s) \in Nat /\ SubSeq(s, 1, 0) = <<>> /\ SubSeq(s, 1, Len(s)) = s
           /\ <<>> \in Seq(V)
           /\ \A j \in 0..Len(s) : /\ SubSeq(s, 1, j) \in Seq(V) /\ Len(SubSeq(s, 1, j)) = j
                                   /\ \A i \in 1..j : SubSeq(s, 1, j)[i] = s[i]
           /\ \A j \in 1..Len(s) : /\ SubSeq(s, 1, j - 1) \in Seq(V) /\ s[j] \in V
                                   /\ SubSeq(s, 1, j) = Append(SubSeq(s, 1, j - 1), s[j])
<1>1. \A j \in 0..Len(s) : /\ SubSeq(s, 1, j) \in Seq(V) /\ Len(SubSeq(s, 1, j)) = j
                           /\ \A i \in 1..j : SubSeq(s, 1, j)[i] = s[i]
  OBVIOUS
<1>2. ASSUME NEW j \in 1..Len(s)
      PROVE  /\ SubSeq(s, 1, j - 1) \in Seq(V) /\ s[j] \in V
             /\ SubSeq(s, 1, j) = Append(SubSeq(s, 1, j - 1), s[j])
  <2> DEFINE a == SubSeq(s, 1, j)
             c == SubSeq(s, 1, j - 1)
             b == Append(c, s[j])
  <2>1. /\ a \in Seq(V) /\ Len(a) = j /\ \A i \in 1..j : a[i] = s[i]
        /\ c \in Seq(V) /\ Len(c) = j - 1 /\ \A i \in 1..(j - 1) : c[i] = s[i]
        /\ s[j] \in V
    <3>1. j \in 0..Len(s) /\ j - 1 \in 0..Len(s)
      OBVIOUS
    <3> QED BY <1>1, <3>1
  <2> HIDE DEF a, c
  <2>2. b \in Seq(V) /\ Len(b) = j /\ \A i \in 1..j : b[i] = s[i]
    BY <2>1
  <2> HIDE DEF b
  <2>3. a = b
    BY <2>1, <2>2
  <2> QED BY <2>1, <2>3 DEF a, b, c
<1>3. SubSeq(s, 1, 0) = <<>> /\ SubSeq(s, 1, Len(s)) = s /\ <<>> \in Seq(V) /\ Len(s) \in Nat
  OBVIOUS
<1> QED BY <1>1, <1>2, <1>3

\* A property of lists that one more element keeps is one of every list.
LEMMA ListInduction ==
    ASSUME NEW V, NEW P, <<>> \in P,
           \A t \in Seq(V), u \in V : t \in P => Append(t, u) \in P
    PROVE  \A s \in Seq(V) : s \in P
<1> SUFFICES ASSUME NEW s \in Seq(V)
             PROVE  s \in P
  OBVIOUS
<1> DEFINE R == {j \in 0..Len(s) : SubSeq(s, 1, j) \in P}
<1>1. 0 \in R
  <2>1. Len(s) \in Nat /\ SubSeq(s, 1, 0) = <<>>
    BY Prefixed
  <2>2. 0 \in 0..Len(s)
    BY <2>1
  <2>3. SubSeq(s, 1, 0) \in P
    BY <2>1, Zenon
  <2> QED BY <2>2, <2>3, Zenon
<1>2. ASSUME NEW j \in 1..Len(s), j - 1 \in R
      PROVE  j \in R
  <2>1. /\ SubSeq(s, 1, j - 1) \in Seq(V) /\ s[j] \in V
        /\ SubSeq(s, 1, j) = Append(SubSeq(s, 1, j - 1), s[j]) /\ j \in 0..Len(s)
    BY Prefixed
  <2>2. Append(SubSeq(s, 1, j - 1), s[j]) \in P
    BY <1>2, <2>1
  <2> QED BY <2>1, <2>2
<1>3. Len(s) \in Nat /\ Len(s) \in 0..Len(s) /\ SubSeq(s, 1, Len(s)) = s
  BY Prefixed
<1>4. \A j \in 0..Len(s) : j \in R
  <2> HIDE DEF R
  <2> QED BY <1>1, <1>2, <1>3, UpTo
<1> QED BY <1>3, <1>4

\* The elements of a list.
LEMMA ElementsOf ==
    /\ ToSet(<<>>) = {}
    /\ \A V : \A s \in Seq(V) : /\ ToSet(s) = RowsIn(s) /\ ToSet(s) \in SUBSET V /\ DOMAIN s = 1..Len(s)
                                /\ \A u \in V : ToSet(Append(s, u)) = ToSet(s) \cup {u}
<1>1. ToSet(<<>>) = {}
  BY DEF ToSet
<1>2. ASSUME NEW V, NEW s \in Seq(V)
      PROVE  ToSet(s) = RowsIn(s) /\ ToSet(s) \in SUBSET V /\ DOMAIN s = 1..Len(s)
  BY DEF ToSet, RowsIn
<1>3. ASSUME NEW V, NEW s \in Seq(V), NEW u \in V
      PROVE  ToSet(Append(s, u)) = ToSet(s) \cup {u}
  <2> DEFINE t == Append(s, u)
  <2>1. /\ t \in Seq(V) /\ DOMAIN t = 1..(Len(s) + 1) /\ DOMAIN s = 1..Len(s) /\ Len(s) \in Nat
        /\ t[Len(s) + 1] = u /\ \A i \in 1..Len(s) : t[i] = s[i]
    OBVIOUS
  <2> HIDE DEF t
  <2>2. \A x : x \in ToSet(t) <=> x \in ToSet(s) \cup {u}
    <3>1. \A x : x \in ToSet(t) => x \in ToSet(s) \cup {u}
      BY <2>1 DEF ToSet
    <3>2. \A x \in ToSet(s) : x \in ToSet(t)
      <4>1. \A i \in 1..Len(s) : i \in 1..(Len(s) + 1)
        BY <2>1
      <4> QED BY <2>1, <4>1 DEF ToSet
    <3>3. u \in ToSet(t)
      <4>1. Len(s) + 1 \in 1..(Len(s) + 1)
        BY <2>1
      <4> QED BY <2>1, <4>1 DEF ToSet
    <3> QED BY <3>1, <3>2, <3>3
  <2> QED BY <2>2 DEF t
<1> QED BY <1>1, <1>2, <1>3

Distinct(s) == \A i, j \in 1..Len(s) : s[i] = s[j] => i = j

\* A list without repetitions has as many elements as its length.
LEMMA DistinctCount ==
    ASSUME NEW V, NEW s \in Seq(V), Distinct(s)
    PROVE  Cardinality(ToSet(s)) = Len(s) /\ IsFiniteSet(ToSet(s))
<1> DEFINE n == Len(s)
<1>1. n \in Nat /\ s \in [1..n -> ToSet(s)] /\ DOMAIN s = 1..n
  BY DEF ToSet
<1>2. s \in Bijection(1..n, ToSet(s))
  <2>1. s \in Injection(1..n, ToSet(s))
    BY <1>1 DEF Distinct, Injection, IsInjective
  <2>2. s \in Surjection(1..n, ToSet(s))
    BY <1>1 DEF Surjection, ToSet
  <2> QED BY <2>1, <2>2 DEF Bijection
<1>3. IsFiniteSet(1..n) /\ Cardinality(1..n) = n
  <2>1. 1 \in Int /\ n \in Int
    BY <1>1
  <2>2. IsFiniteSet(1..n) /\ Cardinality(1..n) = (IF 1 > n THEN 0 ELSE n - 1 + 1)
    <3> HIDE DEF n
    <3> QED BY <2>1, FS_Interval
  <2> QED BY <1>1, <2>2
<1>4. IsFiniteSet(ToSet(s)) /\ Cardinality(1..n) = Cardinality(ToSet(s))
  <2>1. ExistsBijection(1..n, ToSet(s))
    BY <1>2 DEF ExistsBijection
  <2> HIDE DEF n
  <2>2. IsFiniteSet(ToSet(s))
    <3>1. s \in Surjection(1..n, ToSet(s))
      BY <1>2 DEF Bijection
    <3> QED BY <1>3, <3>1, FS_Surjection
  <2> QED BY <1>3, <2>1, <2>2, FS_Bijection
<1> QED BY <1>3, <1>4

\* A new element keeps a list free of repetitions.
LEMMA DistinctMore ==
    ASSUME NEW V, NEW s \in Seq(V), NEW u \in V
    PROVE  /\ Distinct(<<>>)
           /\ Distinct(Append(s, u)) <=> Distinct(s) /\ u \notin ToSet(s)
<1> DEFINE t == Append(s, u)
           n == Len(s)
<1>1. /\ n \in Nat /\ Len(t) = n + 1 /\ t[n + 1] = u /\ \A i \in 1..n : t[i] = s[i]
      /\ ToSet(s) = RowsIn(s)
  BY ElementsOf
<1>2. Distinct(<<>>)
  BY DEF Distinct
<1>3. ASSUME Distinct(s), u \notin ToSet(s)
      PROVE  Distinct(t)
  <2> HIDE DEF t, n
  <2>1. \A i \in 1..n : t[i] # u
    BY <1>1, <1>3 DEF RowsIn, n
  <2> QED BY <1>1, <1>3, <2>1 DEF Distinct, n
<1>4. ASSUME Distinct(t)
      PROVE  Distinct(s) /\ u \notin ToSet(s)
  <2> HIDE DEF t
  <2>1. Distinct(s)
    BY <1>1, <1>4 DEF Distinct
  <2>2. ASSUME u \in ToSet(s)
        PROVE  FALSE
    <3>1. PICK i \in 1..n : s[i] = u
      BY <1>1, <2>2 DEF RowsIn
    <3>2. i \in 1..(n + 1) /\ n + 1 \in 1..(n + 1) /\ i # n + 1 /\ t[i] = t[n + 1]
      BY <1>1, <3>1
    <3> QED BY <1>1, <1>4, <3>2 DEF Distinct
  <2> QED BY <2>1, <2>2
<1> QED BY <1>2, <1>3, <1>4

KeepRule(V, K) ==
    /\ Keep(<<>>, K) = <<>>
    /\ \A s \in Seq(V) : Keep(s, K) \in Seq(V)
    /\ \A s \in Seq(V), u \in V :
          Keep(Append(s, u), K) = IF u \in K THEN Append(Keep(s, K), u) ELSE Keep(s, K)

\* Keep, one element more.
LEMMA KeepOne ==
    ASSUME NEW V, NEW K
    PROVE  KeepRule(V, K)
<1>1. <<>> \in Seq(V) /\ KeepClosed(V, Seq(V), K)
  BY DEF KeepClosed
<1> QED BY <1>1, KeepLast DEF KeepRule

\* What Keep keeps.
LEMMA KeepElements ==
    ASSUME NEW V, NEW K, NEW s \in Seq(V)
    PROVE  /\ Keep(s, K) \in Seq(V)
           /\ ToSet(Keep(s, K)) = ToSet(s) \cap K
           /\ Len(Keep(s, K)) <= Len(s) /\ Len(Keep(s, K)) \in Nat
           /\ Distinct(s) => Distinct(Keep(s, K))
<1> DEFINE Good(t) == /\ ToSet(Keep(t, K)) = ToSet(t) \cap K
                      /\ Len(Keep(t, K)) <= Len(t)
                      /\ Distinct(t) => Distinct(Keep(t, K))
           P == {t \in Seq(V) : Good(t)}
<1>0. KeepRule(V, K)
  BY KeepOne
<1>1. <<>> \in P
  <2>1. Keep(<<>>, K) = <<>> /\ <<>> \in Seq(V) /\ ToSet(<<>>) = {}
    BY <1>0, ElementsOf DEF KeepRule
  <2> QED BY <2>1
<1>2. ASSUME NEW t \in Seq(V), NEW u \in V, t \in P
      PROVE  Append(t, u) \in P
  <2> DEFINE a == Keep(t, K)
             w == Append(t, u)
  <2>1. /\ a \in Seq(V) /\ w \in Seq(V) /\ Len(w) = Len(t) + 1 /\ Len(t) \in Nat /\ Len(a) \in Nat
        /\ Keep(w, K) = IF u \in K THEN Append(a, u) ELSE a
    <3>1. a \in Seq(V) /\ Keep(w, K) = IF u \in K THEN Append(a, u) ELSE a
      <4>1. Keep(t, K) \in Seq(V)
        BY <1>0 DEF KeepRule
      <4>2. \A x \in Seq(V), v \in V : Keep(Append(x, v), K) = IF v \in K THEN Append(Keep(x, K), v) ELSE Keep(x, K)
        BY <1>0, Zenon DEF KeepRule
      <4> QED BY <4>1, <4>2, Zenon
    <3> HIDE DEF a
    <3> QED BY <3>1
  <2>2. /\ ToSet(w) = ToSet(t) \cup {u} /\ ToSet(Append(a, u)) = ToSet(a) \cup {u}
        /\ Distinct(w) <=> Distinct(t) /\ u \notin ToSet(t)
        /\ Distinct(Append(a, u)) <=> Distinct(a) /\ u \notin ToSet(a)
    BY <2>1, ElementsOf, DistinctMore
  <2>3. Good(t) /\ Len(Append(a, u)) = Len(a) + 1
    BY <1>2, <2>1
  <2> HIDE DEF a, w
  <2>4. ToSet(a) = ToSet(t) \cap K /\ Len(a) <= Len(t) /\ (Distinct(t) => Distinct(a))
    BY <2>3 DEF a
  <2>5. Good(w)
    <3>1. CASE u \in K
      BY <2>1, <2>2, <2>3, <2>4, <3>1
    <3>2. CASE u \notin K
      BY <2>1, <2>2, <2>3, <2>4, <3>2
    <3> QED BY <3>1, <3>2
  <2> QED BY <2>1, <2>5 DEF w
<1> HIDE DEF P
<1>3. s \in P
  BY <1>1, <1>2, ListInduction
<1>4. Keep(s, K) \in Seq(V)
  BY <1>0 DEF KeepRule
<1> QED BY <1>3, <1>4 DEF P

KeyRule(V, key) ==
    /\ DistinctBy(<<>>, key) = <<>>
    /\ \A s \in Seq(V) : DistinctBy(s, key) \in Seq(V)
    /\ \A s \in Seq(V), u \in V :
          /\ (\E y \in ToSet(DistinctBy(s, key)) : key[y] = key[u])
                => DistinctBy(Append(s, u), key) = DistinctBy(s, key)
          /\ (\A y \in ToSet(DistinctBy(s, key)) : key[y] # key[u])
                => DistinctBy(Append(s, u), key) = Append(DistinctBy(s, key), u)

\* DistinctBy, one element more.
LEMMA KeyOne ==
    ASSUME NEW V, NEW key
    PROVE  KeyRule(V, key)
<1>1. <<>> \in Seq(V) /\ KeyClosed(V, Seq(V), key)
  BY DEF KeyClosed
<1>2. /\ DistinctBy(<<>>, key) = <<>>
      /\ \A s \in Seq(V) : DistinctBy(s, key) \in Seq(V)
      /\ \A s \in Seq(V), u \in V :
            DistinctBy(Append(s, u), key)
              = IF \E y \in ToSet(DistinctBy(s, key)) : key[y] = key[u]
                THEN DistinctBy(s, key) ELSE Append(DistinctBy(s, key), u)
  BY <1>1, KeyLast
<1>3. ASSUME NEW s \in Seq(V), NEW u \in V
      PROVE  /\ (\E y \in ToSet(DistinctBy(s, key)) : key[y] = key[u])
                   => DistinctBy(Append(s, u), key) = DistinctBy(s, key)
             /\ (\A y \in ToSet(DistinctBy(s, key)) : key[y] # key[u])
                   => DistinctBy(Append(s, u), key) = Append(DistinctBy(s, key), u)
  BY <1>2
<1> QED BY <1>2, <1>3, Zenon DEF KeyRule

\* What DistinctBy keeps: one element for every key.
LEMMA KeyElements ==
    ASSUME NEW V, NEW key, NEW s \in Seq(V), NEW t, t = DistinctBy(s, key)
    PROVE  /\ t \in Seq(V) /\ Len(t) \in Nat
           /\ ToSet(t) \in SUBSET ToSet(s)
           /\ \A x \in ToSet(s) : \E y \in ToSet(t) : key[y] = key[x]
           /\ \A i, j \in 1..Len(t) : key[t[i]] = key[t[j]] => i = j
<1> DEFINE Good(q, a) == /\ ToSet(a) \in SUBSET ToSet(q)
                         /\ \A x \in ToSet(q) : \E y \in ToSet(a) : key[y] = key[x]
                         /\ \A i, j \in 1..Len(a) : key[a[i]] = key[a[j]] => i = j
           P == {q \in Seq(V) : Good(q, DistinctBy(q, key))}
<1>0. KeyRule(V, key)
  BY KeyOne
<1>1. <<>> \in P
  <2>1. DistinctBy(<<>>, key) = <<>> /\ <<>> \in Seq(V) /\ ToSet(<<>>) = {}
    <3>1. DistinctBy(<<>>, key) = <<>>
      BY <1>0, Zenon DEF KeyRule
    <3> QED BY <3>1, ElementsOf
  <2> QED BY <2>1
<1>2. ASSUME NEW q \in Seq(V), NEW u \in V, q \in P
      PROVE  Append(q, u) \in P
  <2> DEFINE a == DistinctBy(q, key)
             w == Append(q, u)
             c == Append(a, u)
  <2>1. /\ a \in Seq(V) /\ w \in Seq(V) /\ Len(a) \in Nat
        /\ (\E y \in ToSet(a) : key[y] = key[u]) => DistinctBy(w, key) = a
        /\ (\A y \in ToSet(a) : key[y] # key[u]) => DistinctBy(w, key) = c
    <3>1. a \in Seq(V) /\ w \in Seq(V)
      BY <1>0 DEF KeyRule
    <3>2. /\ (\E y \in ToSet(a) : key[y] = key[u]) => DistinctBy(w, key) = a
          /\ (\A y \in ToSet(a) : key[y] # key[u]) => DistinctBy(w, key) = c
      BY <1>0 DEF KeyRule
    <3> HIDE DEF a, w
    <3> QED BY <3>1, <3>2
  <2>2. /\ ToSet(w) = ToSet(q) \cup {u} /\ ToSet(c) = ToSet(a) \cup {u} /\ ToSet(a) = RowsIn(a)
    BY <2>1, ElementsOf
  <2>3. Good(q, a)
    BY <1>2
  <2>4. /\ Len(c) = Len(a) + 1 /\ c[Len(a) + 1] = u /\ \A i \in 1..Len(a) : c[i] = a[i]
    BY <2>1
  <2> HIDE DEF a, w, c
  <2>5. CASE \E y \in ToSet(a) : key[y] = key[u]
    <3>1. Good(w, a)
      BY <2>2, <2>3, <2>5
    <3> QED BY <2>1, <2>5, <3>1 DEF w
  <2>6. CASE ~ \E y \in ToSet(a) : key[y] = key[u]
    <3>1. ToSet(c) \in SUBSET ToSet(w) /\ \A x \in ToSet(w) : \E y \in ToSet(c) : key[y] = key[x]
      BY <2>2, <2>3
    <3>2. \A i \in 1..Len(a) : key[a[i]] # key[u]
      BY <2>2, <2>6 DEF RowsIn
    <3>3. \A i, j \in 1..Len(c) : key[c[i]] = key[c[j]] => i = j
      <4> SUFFICES ASSUME NEW i \in 1..Len(c), NEW j \in 1..Len(c), key[c[i]] = key[c[j]]
                   PROVE  i = j
        OBVIOUS
      <4>0. /\ Len(a) \in Nat /\ i \in Nat /\ j \in Nat
            /\ i \in 1..Len(a) \/ i = Len(a) + 1
            /\ j \in 1..Len(a) \/ j = Len(a) + 1
        BY <2>1, <2>4
      <4>1. \A x, y \in 1..Len(a) : key[a[x]] = key[a[y]] => x = y
        BY <2>3, Zenon
      <4>2. CASE i \in 1..Len(a) /\ j \in 1..Len(a)
        BY <2>4, <4>1, <4>2, Zenon
      <4>3. CASE i \in 1..Len(a) /\ j = Len(a) + 1
        BY <2>4, <3>2, <4>3, Zenon
      <4>4. CASE j \in 1..Len(a) /\ i = Len(a) + 1
        BY <2>4, <3>2, <4>4, Zenon
      <4> QED BY <4>0, <4>2, <4>3, <4>4, Zenon
    <3> QED BY <2>1, <2>6, <3>1, <3>3 DEF w
  <2> QED BY <2>5, <2>6
<1> HIDE DEF P
<1>3. s \in P
  BY <1>1, <1>2, ListInduction
<1>4. DistinctBy(s, key) \in Seq(V)
  BY <1>0 DEF KeyRule
<1> QED BY <1>3, <1>4 DEF P

FirstRule(V, m) ==
    /\ FirstDistinct(<<>>, m) = <<>>
    /\ \A s \in Seq(V) : FirstDistinct(s, m) \in Seq(V)
    /\ \A s \in Seq(V), u \in V :
          /\ u \in ToSet(FirstDistinct(s, m)) \/ Len(FirstDistinct(s, m)) >= m
                => FirstDistinct(Append(s, u), m) = FirstDistinct(s, m)
          /\ u \notin ToSet(FirstDistinct(s, m)) /\ ~ (Len(FirstDistinct(s, m)) >= m)
                => FirstDistinct(Append(s, u), m) = Append(FirstDistinct(s, m), u)

\* FirstDistinct, one element more.
LEMMA FirstOne ==
    ASSUME NEW V, NEW m
    PROVE  FirstRule(V, m)
<1>1. <<>> \in Seq(V) /\ FirstClosed(V, Seq(V), m)
  BY DEF FirstClosed
<1> QED BY <1>1, FirstLast, ZenonT(40) DEF FirstRule

\* What FirstDistinct keeps: up to m elements, and all if there are fewer.
LEMMA FirstElements ==
    ASSUME NEW V, NEW m \in Nat, NEW s \in Seq(V), NEW t, t = FirstDistinct(s, m)
    PROVE  /\ t \in Seq(V) /\ Len(t) \in Nat /\ Len(t) <= m
           /\ ToSet(t) \in SUBSET ToSet(s) /\ Distinct(t)
           /\ Len(t) < m => ToSet(t) = ToSet(s)
<1> DEFINE Good(q, a) == /\ Len(a) <= m /\ ToSet(a) \in SUBSET ToSet(q) /\ Distinct(a)
                         /\ Len(a) < m => ToSet(a) = ToSet(q)
           P == {q \in Seq(V) : Good(q, FirstDistinct(q, m))}
<1>0. FirstRule(V, m)
  BY FirstOne
<1>1. <<>> \in P
  <2>1. FirstDistinct(<<>>, m) = <<>> /\ <<>> \in Seq(V) /\ ToSet(<<>>) = {} /\ Distinct(<<>>)
    BY <1>0, ElementsOf DEF Distinct, FirstRule
  <2> QED BY <2>1
<1>2. ASSUME NEW q \in Seq(V), NEW u \in V, q \in P
      PROVE  Append(q, u) \in P
  <2> DEFINE a == FirstDistinct(q, m)
             w == Append(q, u)
             c == Append(a, u)
  <2>1. /\ a \in Seq(V) /\ w \in Seq(V) /\ Len(a) \in Nat /\ Len(c) = Len(a) + 1
        /\ u \in ToSet(a) \/ Len(a) >= m => FirstDistinct(w, m) = a
        /\ u \notin ToSet(a) /\ ~ (Len(a) >= m) => FirstDistinct(w, m) = c
    <3>1. a \in Seq(V) /\ w \in Seq(V)
      BY <1>0 DEF FirstRule
    <3>2. /\ u \in ToSet(a) \/ Len(a) >= m => FirstDistinct(w, m) = a
          /\ u \notin ToSet(a) /\ ~ (Len(a) >= m) => FirstDistinct(w, m) = c
      BY <1>0 DEF FirstRule
    <3> HIDE DEF a, w
    <3> QED BY <3>1, <3>2
  <2>2. /\ ToSet(w) = ToSet(q) \cup {u} /\ ToSet(c) = ToSet(a) \cup {u}
        /\ Distinct(c) <=> Distinct(a) /\ u \notin ToSet(a)
    BY <2>1, ElementsOf, DistinctMore
  <2>3. Good(q, a)
    BY <1>2
  <2> HIDE DEF a, w, c
  <2>4. CASE u \in ToSet(a) \/ Len(a) >= m
    <3>1. Good(w, a)
      BY <2>1, <2>2, <2>3, <2>4
    <3> QED BY <2>1, <2>4, <3>1 DEF w
  <2>5. CASE ~ (u \in ToSet(a) \/ Len(a) >= m)
    <3>1. Good(w, c)
      BY <2>1, <2>2, <2>3, <2>5
    <3> QED BY <2>1, <2>5, <3>1 DEF w
  <2> QED BY <2>4, <2>5
<1> HIDE DEF P
<1>3. s \in P
  BY <1>1, <1>2, ListInduction
<1>4. FirstDistinct(s, m) \in Seq(V)
  BY <1>0 DEF FirstRule
<1> QED BY <1>3, <1>4 DEF P

\* A recursion from one number to the next has a table.
StepsOn(n, S, z, U) == n \in Nat /\ z \in S /\ U \in [S \X (1 .. n) -> S]

StepsOf(h, n, S, z, U) ==
    h \in [0 .. n -> S] /\ h[0] = z /\ \A k \in 1 .. n : h[k] = U[<<h[k - 1], k>>]

\* It has one.
LEMMA StepTable ==
    ASSUME NEW n, NEW S, NEW z, NEW U, StepsOn(n, S, z, U)
    PROVE  \E h : StepsOf(h, n, S, z, U)
<1>0. n \in Nat /\ z \in S /\ U \in [S \X (1 .. n) -> S]
  BY DEF StepsOn
<1>1. PICK f : FoldsBy(f, n, S, z, U)
  BY <1>0, FoldTable
<1>2. PICK h : StagesOf(h, f, n, S, z, U)
  BY <1>1, FoldStages
<1> QED BY <1>2 DEF StagesOf, StepsOf

\* FlattenSeq, stage by stage.
FlatStages(h, ss, V) ==
    /\ h \in [0..Len(ss) -> Seq(V)] /\ h[0] = <<>>
    /\ \A k \in 1..Len(ss) : h[k] = h[k - 1] \o ss[k]
    /\ FlattenSeq(ss) = h[Len(ss)]

\* FlattenSeq has stages.
LEMMA FlattenStages ==
    ASSUME NEW V, NEW ss \in Seq(Seq(V))
    PROVE  \E h : FlatStages(h, ss, V)
<1> DEFINE n == Len(ss)
           S == Seq(V)
           U == [p \in S \X (1..n) |-> p[1] \o ss[p[2]]]
           E(f) == f = [i \in 1..n |-> IF i = 1 THEN ss[i] ELSE f[i - 1] \o ss[i]]
           it == CHOOSE f : E(f)
<1>1. n \in Nat /\ (\A k \in 1..n : ss[k] \in S) /\ <<>> \in S
  OBVIOUS
<1>2. U \in [S \X (1..n) -> S]
  <2>1. \A p \in S \X (1..n) : p[1] \o ss[p[2]] \in S
    <3>1. \A x \in S, k \in 1..n : x \o ss[k] \in S
      BY <1>1
    <3> QED BY <3>1
  <2> HIDE DEF S, n
  <2> QED BY <2>1
<1>3. PICK h \in [0..n -> S] : h[0] = <<>> /\ \A k \in 1..n : h[k] = U[<<h[k - 1], k>>]
  <2> HIDE DEF n, S, U
  <2>1. StepsOn(n, S, <<>>, U)
    BY <1>1, <1>2 DEF StepsOn
  <2>2. \E h : StepsOf(h, n, S, <<>>, U)
    BY <2>1, StepTable
  <2> QED BY <2>2 DEF StepsOf
<1>4. \A k \in 1..n : h[k] = h[k - 1] \o ss[k] /\ h[k - 1] \in S
  <2>1. \A k \in 1..n : k - 1 \in 0..n
    BY <1>1
  <2> HIDE DEF n, S
  <2> QED BY <1>3, <2>1
<1>5. CASE n = 0
  <2>1. FlattenSeq(ss) = ss /\ ss = <<>>
    BY <1>5 DEF FlattenSeq
  <2> QED BY <1>3, <1>4, <1>5, <2>1 DEF FlatStages
<1>6. CASE n # 0
  <2> DEFINE g == [i \in 1..n |-> h[i]]
  <2>1. E(g)
    <3>1. ASSUME NEW i \in 1..n
          PROVE  g[i] = IF i = 1 THEN ss[i] ELSE g[i - 1] \o ss[i]
      <4>1. CASE i = 1
        <5>1. h[1] = h[0] \o ss[1]
          <6>1. 1 \in 1..n /\ 1 - 1 = 0
            BY <4>1
          <6> HIDE DEF n
          <6> QED BY <1>4, <6>1
        <5>2. \A x \in S : <<>> \o x = x
          OBVIOUS
        <5> QED BY <1>1, <1>3, <4>1, <5>1, <5>2
      <4>2. CASE i # 1
        <5>1. i - 1 \in 1..n
          BY <1>1, <4>2
        <5> QED BY <1>4, <4>2, <5>1
      <4> QED BY <4>1, <4>2
    <3>2. g = [i \in 1..n |-> g[i]]
      OBVIOUS
    <3> QED BY <3>1, <3>2, Zenon
  <2>2. E(it)
    <3> HIDE DEF E
    <3> QED BY <2>1
  <2>3. \A k \in 1..n : it[k] = IF k = 1 THEN ss[k] ELSE it[k - 1] \o ss[k]
    <3> HIDE DEF it, n
    <3> QED BY <2>2
  <2>4. \A k \in 0..n : k \in {i \in 0..n : i = 0 \/ it[i] = g[i]}
    <3> DEFINE R == {i \in 0..n : i = 0 \/ it[i] = g[i]}
    <3>1. 0 \in R
      BY <1>1
    <3>2. ASSUME NEW k \in 1..n, k - 1 \in R
          PROVE  k \in R
      <4> HIDE DEF it
      <4>1. g[k] = IF k = 1 THEN ss[k] ELSE g[k - 1] \o ss[k]
        <5> HIDE DEF g
        <5> QED BY <2>1
      <4> HIDE DEF g
      <4> QED BY <1>1, <2>3, <3>2, <4>1
    <3> HIDE DEF R, n
    <3>3. \A k \in 0..n : k \in R
      BY <1>1, <3>1, <3>2, UpTo
    <3> QED BY <3>3 DEF R
  <2>5. it[n] = h[n]
    <3>1. n \in 0..n /\ n \in 1..n
      BY <1>1, <1>6
    <3> HIDE DEF it
    <3> QED BY <2>4, <3>1, <1>6
  <2>6. FlattenSeq(ss) = it[n]
    BY <1>6, Zenon DEF FlattenSeq
  <2> HIDE DEF it
  <2> QED BY <1>3, <1>4, <2>5, <2>6 DEF FlatStages
<1> QED BY <1>5, <1>6

FlatRule(V) ==
    /\ FlattenSeq(<<>>) = <<>>
    /\ \A ss \in Seq(Seq(V)) : FlattenSeq(ss) \in Seq(V)
    /\ \A ss \in Seq(Seq(V)), u \in Seq(V) : FlattenSeq(Append(ss, u)) = FlattenSeq(ss) \o u

\* FlattenSeq, one list more.
LEMMA FlattenOne ==
    ASSUME NEW V
    PROVE  FlatRule(V)
<1>1. FlattenSeq(<<>>) = <<>>
  BY DEF FlattenSeq
<1>2. ASSUME NEW ss \in Seq(Seq(V))
      PROVE  FlattenSeq(ss) \in Seq(V)
  <2>1. PICK h : FlatStages(h, ss, V)
    BY FlattenStages
  <2>2. Len(ss) \in 0..Len(ss)
    OBVIOUS
  <2> QED BY <2>1, <2>2 DEF FlatStages
<1>3. ASSUME NEW ss \in Seq(Seq(V)), NEW u \in Seq(V)
      PROVE  FlattenSeq(Append(ss, u)) = FlattenSeq(ss) \o u
  <2> DEFINE n == Len(ss)
             t == Append(ss, u)
  <2>1. /\ n \in Nat /\ t \in Seq(Seq(V)) /\ Len(t) = n + 1
        /\ t[n + 1] = u /\ \A i \in 1..n : t[i] = ss[i]
    OBVIOUS
  <2> HIDE DEF t
  <2>2. PICK g : FlatStages(g, ss, V)
    BY FlattenStages
  <2>3. PICK h : FlatStages(h, t, V)
    BY <2>1, FlattenStages
  <2> HIDE DEF n
  <2>4. \A k \in 0..n : k \in {i \in 0..n : h[i] = g[i]}
    <3> DEFINE R == {i \in 0..n : h[i] = g[i]}
    <3>1. 0 \in R
      BY <2>1, <2>2, <2>3 DEF FlatStages
    <3>2. ASSUME NEW k \in 1..n, k - 1 \in R
          PROVE  k \in R
      <4>1. k \in 1..Len(t) /\ t[k] = ss[k] /\ k \in 1..Len(ss) /\ k \in 0..n /\ h[k - 1] = g[k - 1]
        BY <2>1, <3>2 DEF n
      <4>2. g[k] = g[k - 1] \o ss[k] /\ h[k] = h[k - 1] \o t[k]
        BY <2>2, <2>3, <4>1 DEF FlatStages
      <4> QED BY <4>1, <4>2
    <3> HIDE DEF R
    <3>3. \A k \in 0..n : k \in R
      BY <2>1, <3>1, <3>2, UpTo
    <3> QED BY <3>3 DEF R
  <2>5. h[n] = g[n]
    <3>1. n \in 0..n
      BY <2>1
    <3> QED BY <2>4, <3>1
  <2>6. n + 1 \in 1..Len(t) /\ (n + 1) - 1 = n
    BY <2>1
  <2>7. FlattenSeq(ss) = g[n]
    BY <2>2 DEF FlatStages, n
  <2>8. FlattenSeq(t) = h[n + 1] /\ h[n + 1] = h[(n + 1) - 1] \o t[n + 1]
    BY <2>1, <2>3, <2>6 DEF FlatStages
  <2> QED BY <2>1, <2>5, <2>6, <2>7, <2>8 DEF t
<1> QED BY <1>1, <1>2, <1>3 DEF FlatRule

\* Lists with the same elements at the same places are the same.
LEMMA SameList ==
    ASSUME NEW V, NEW s \in Seq(V), NEW t \in Seq(V), Len(s) = Len(t),
           \A i \in 1..Len(s) : s[i] = t[i]
    PROVE  s = t
OBVIOUS

\* The places of a concatenation.
LEMMA ConcatAt ==
    ASSUME NEW V, NEW s \in Seq(V), NEW t \in Seq(V)
    PROVE  /\ s \o t \in Seq(V) /\ Len(s \o t) = Len(s) + Len(t) /\ Len(s) \in Nat /\ Len(t) \in Nat
           /\ \A i \in 1..Len(s) : (s \o t)[i] = s[i]
           /\ \A i \in (Len(s) + 1)..(Len(s) + Len(t)) : (s \o t)[i] = t[i - Len(s)]
<1>1. s \o t \in Seq(V) /\ Len(s \o t) = Len(s) + Len(t) /\ Len(s) \in Nat /\ Len(t) \in Nat
  OBVIOUS
<1>2. \A i \in 1..Len(s) : (s \o t)[i] = s[i]
  OBVIOUS
<1>3. \A i \in (Len(s) + 1)..(Len(s) + Len(t)) : (s \o t)[i] = t[i - Len(s)]
  OBVIOUS
<1> QED BY <1>1, <1>2, <1>3

\* Concatenation and Append.
LEMMA ConcatMore ==
    ASSUME NEW V, NEW s \in Seq(V), NEW t \in Seq(V), NEW u \in V
    PROVE  /\ s \o <<>> = s /\ <<>> \o s = s /\ s \o t \in Seq(V) /\ Len(s \o t) = Len(s) + Len(t)
           /\ s \o Append(t, u) = Append(s \o t, u) /\ Append(s, u) = s \o <<u>>
           /\ \A i \in 1..Len(s) : (s \o t)[i] = s[i]
           /\ \A i \in 1..Len(t) : (s \o t)[Len(s) + i] = t[i]
<1>1. s \o <<>> = s /\ <<>> \o s = s /\ s \o t \in Seq(V) /\ Len(s \o t) = Len(s) + Len(t)
  OBVIOUS
<1>2. \A i \in 1..Len(s) : (s \o t)[i] = s[i]
  OBVIOUS
<1>3. \A i \in 1..Len(t) : (s \o t)[Len(s) + i] = t[i]
  OBVIOUS
<1>4. s \o Append(t, u) = Append(s \o t, u)
  OBVIOUS
<1>5. Append(s, u) = s \o <<u>>
  OBVIOUS
<1> QED BY <1>1, <1>2, <1>3, <1>4, <1>5

\* The elements of a flattened list.
LEMMA FlattenElements ==
    ASSUME NEW V, NEW ss \in Seq(Seq(V))
    PROVE  /\ FlattenSeq(ss) \in Seq(V)
           /\ \A x : x \in ToSet(FlattenSeq(ss)) <=> \E i \in 1..Len(ss) : x \in ToSet(ss[i])
<1> DEFINE Good(q) == \A x : x \in ToSet(FlattenSeq(q)) <=> \E i \in 1..Len(q) : x \in ToSet(q[i])
           P == {q \in Seq(Seq(V)) : Good(q)}
<1>0. FlatRule(V)
  BY FlattenOne
<1>1. <<>> \in P
  <2>1. FlattenSeq(<<>>) = <<>> /\ <<>> \in Seq(Seq(V)) /\ ToSet(<<>>) = {} /\ Len(<<>>) = 0
    BY <1>0, ElementsOf DEF FlatRule
  <2> QED BY <2>1
<1>2. ASSUME NEW q \in Seq(Seq(V)), NEW u \in Seq(V), q \in P
      PROVE  Append(q, u) \in P
  <2> DEFINE f == FlattenSeq(q)
             w == Append(q, u)
  <2>1. f \in Seq(V) /\ FlattenSeq(w) = f \o u
    BY <1>0 DEF FlatRule
  <2>2. Good(q)
    BY <1>2
  <2>3. /\ w \in Seq(Seq(V)) /\ Len(w) = Len(q) + 1 /\ Len(q) \in Nat /\ w[Len(q) + 1] = u
        /\ \A i \in 1..Len(q) : w[i] = q[i]
    OBVIOUS
  <2> HIDE DEF f, w
  <2>4. ASSUME NEW x
        PROVE  x \in ToSet(f \o u) <=> x \in ToSet(f) \/ x \in ToSet(u)
    <3>1. f \o u \in Seq(V) /\ Len(f \o u) = Len(f) + Len(u) /\ Len(f) \in Nat /\ Len(u) \in Nat
      BY <2>1
    <3>2. \A i \in 1..Len(f) : (f \o u)[i] = f[i]
      BY <2>1
    <3>3. \A i \in 1..Len(u) : (f \o u)[Len(f) + i] = u[i]
      BY <2>1
    <3>4. ToSet(f) = RowsIn(f) /\ ToSet(u) = RowsIn(u) /\ ToSet(f \o u) = RowsIn(f \o u)
      BY <2>1, <3>1, ElementsOf
    <3> DEFINE c == f \o u
    <3> HIDE DEF c
    <3>5. ASSUME x \in RowsIn(c)
          PROVE  x \in RowsIn(f) \/ x \in RowsIn(u)
      <4>1. PICK i \in 1..(Len(f) + Len(u)) : c[i] = x
        BY <3>1, <3>5 DEF RowsIn, c
      <4>2. CASE i <= Len(f)
        BY <3>1, <3>2, <4>1, <4>2 DEF RowsIn, c
      <4>3. CASE i > Len(f)
        <5>1. i - Len(f) \in 1..Len(u) /\ Len(f) + (i - Len(f)) = i
          BY <3>1, <4>1, <4>3
        <5> QED BY <3>3, <4>1, <5>1 DEF RowsIn, c
      <4> QED BY <3>1, <4>1, <4>2, <4>3
    <3>6. ASSUME x \in RowsIn(f)
          PROVE  x \in RowsIn(c)
      <4>1. PICK i \in 1..Len(f) : f[i] = x
        BY <3>6 DEF RowsIn
      <4>2. i \in 1..Len(c) /\ c[i] = x
        BY <3>1, <3>2, <4>1 DEF c
      <4> QED BY <4>2 DEF RowsIn
    <3>7. ASSUME x \in RowsIn(u)
          PROVE  x \in RowsIn(c)
      <4>1. PICK i \in 1..Len(u) : u[i] = x
        BY <3>7 DEF RowsIn
      <4>2. Len(f) + i \in 1..Len(c) /\ c[Len(f) + i] = x
        BY <3>1, <3>3, <4>1 DEF c
      <4> QED BY <4>2 DEF RowsIn
    <3> QED BY <3>4, <3>5, <3>6, <3>7 DEF c
  <2>5. Good(w)
    <3>1. \A i \in 1..Len(w) : i \in 1..Len(q) \/ i = Len(q) + 1
      BY <2>3
    <3>2. Len(q) + 1 \in 1..Len(w) /\ \A i \in 1..Len(q) : i \in 1..Len(w)
      BY <2>3
    <3>3. ASSUME NEW x
          PROVE  x \in ToSet(FlattenSeq(w)) <=> \E i \in 1..Len(w) : x \in ToSet(w[i])
      <4>1. x \in ToSet(FlattenSeq(w)) <=> (\E i \in 1..Len(q) : x \in ToSet(q[i])) \/ x \in ToSet(u)
        BY <2>1, <2>2, <2>4 DEF f
      <4> HIDE DEF Good
      <4> QED BY <2>3, <3>1, <3>2, <4>1
    <3> QED BY <3>3
  <2> QED BY <2>3, <2>5 DEF w
<1> HIDE DEF P
<1>3. ss \in P
  BY <1>1, <1>2, ListInduction
<1> QED BY <1>0, <1>3 DEF P, FlatRule

\* What Keep keeps of two lists.
LEMMA KeepConcat ==
    ASSUME NEW V, NEW K, NEW s \in Seq(V), NEW t \in Seq(V)
    PROVE  Keep(s \o t, K) = Keep(s, K) \o Keep(t, K)
<1> DEFINE P == {q \in Seq(V) : Keep(s \o q, K) = Keep(s, K) \o Keep(q, K)}
<1>0. KeepRule(V, K)
  BY KeepOne
<1>1. <<>> \in P
  <2>1. Keep(<<>>, K) = <<>> /\ Keep(s, K) \in Seq(V) /\ <<>> \in Seq(V)
    BY <1>0 DEF KeepRule
  <2>2. s \o <<>> = s /\ Keep(s, K) \o <<>> = Keep(s, K)
    BY <2>1
  <2> QED BY <2>1, <2>2, Zenon
<1>2. ASSUME NEW q \in Seq(V), NEW u \in V, q \in P
      PROVE  Append(q, u) \in P
  <2> DEFINE a == Keep(s, K)
             b == Keep(q, K)
             c == s \o q
  <2>1. a \in Seq(V) /\ b \in Seq(V) /\ c \in Seq(V) /\ Append(q, u) \in Seq(V)
    BY <1>0 DEF KeepRule
  <2>2. Keep(Append(q, u), K) = IF u \in K THEN Append(b, u) ELSE b
    BY <1>0 DEF KeepRule
  <2>3. Keep(Append(c, u), K) = IF u \in K THEN Append(Keep(c, K), u) ELSE Keep(c, K)
    BY <1>0, <2>1 DEF KeepRule
  <2>4. Keep(c, K) = a \o b
    BY <1>2
  <2>5. s \o Append(q, u) = Append(c, u)
    OBVIOUS
  <2> HIDE DEF a, b, c
  <2>6. a \o Append(b, u) = Append(a \o b, u)
    BY <2>1
  <2>7. Keep(s \o Append(q, u), K) = a \o Keep(Append(q, u), K)
    BY <2>2, <2>3, <2>4, <2>5, <2>6, Zenon
  <2> QED BY <2>1, <2>7 DEF a
<1> HIDE DEF P
<1>3. t \in P
  BY <1>1, <1>2, ListInduction
<1> QED BY <1>3 DEF P

\* A full list stays as it is.
LEMMA FirstFull ==
    ASSUME NEW V, NEW m, NEW s \in Seq(V), NEW t \in Seq(V), Len(FirstDistinct(s, m)) >= m
    PROVE  FirstDistinct(s \o t, m) = FirstDistinct(s, m)
<1> DEFINE P == {q \in Seq(V) : FirstDistinct(s \o q, m) = FirstDistinct(s, m)}
<1>0. FirstRule(V, m)
  BY FirstOne
<1>1. <<>> \in P
  BY ConcatMore
<1>2. ASSUME NEW q \in Seq(V), NEW u \in V, q \in P
      PROVE  Append(q, u) \in P
  <2>1. s \o q \in Seq(V) /\ s \o Append(q, u) = Append(s \o q, u) /\ Append(q, u) \in Seq(V)
    OBVIOUS
  <2>2. Len(FirstDistinct(s \o q, m)) >= m
    BY <1>2
  <2>3. FirstDistinct(Append(s \o q, u), m) = FirstDistinct(s \o q, m)
    <3> DEFINE c == s \o q
    <3> HIDE DEF c, P
    <3> QED BY <1>0, <2>1, <2>2 DEF FirstRule, c
  <2> QED BY <1>2, <2>1, <2>3, Zenon
<1> HIDE DEF P
<1>3. t \in P
  BY <1>1, <1>2, ListInduction
<1> QED BY <1>3 DEF P

\* The second column of a list of rows.
Col2(s) == [i \in 1..Len(s) |-> s[i][2]]

Col2Rule(A, B) ==
    /\ Col2(<<>>) = <<>>
    /\ \A s \in Seq(A \X B) : Col2(s) \in Seq(B) /\ Len(Col2(s)) = Len(s)
    /\ \A s \in Seq(A \X B), u \in A \X B : Col2(Append(s, u)) = Append(Col2(s), u[2])
    /\ \A s, t \in Seq(A \X B) : Col2(s \o t) = Col2(s) \o Col2(t)

\* The column of a longer list.
LEMMA Col2Facts ==
    ASSUME NEW A, NEW B
    PROVE  Col2Rule(A, B)
<1>1. Col2(<<>>) = <<>>
  BY DEF Col2
<1>2. ASSUME NEW s \in Seq(A \X B)
      PROVE  Col2(s) \in Seq(B) /\ Len(Col2(s)) = Len(s) /\ \A i \in 1..Len(s) : Col2(s)[i] = s[i][2]
  BY DEF Col2
<1>3. ASSUME NEW s \in Seq(A \X B), NEW u \in A \X B
      PROVE  Col2(Append(s, u)) = Append(Col2(s), u[2])
  <2> DEFINE w == Append(s, u)
             a == Col2(w)
             b == Append(Col2(s), u[2])
  <2>1. /\ w \in Seq(A \X B) /\ Len(w) = Len(s) + 1 /\ w[Len(s) + 1] = u /\ \A i \in 1..Len(s) : w[i] = s[i]
        /\ Len(s) \in Nat /\ u[2] \in B
    OBVIOUS
  <2> HIDE DEF w
  <2>2. a \in Seq(B) /\ Len(a) = Len(s) + 1 /\ \A i \in 1..(Len(s) + 1) : a[i] = w[i][2]
    BY <1>2, <2>1
  <2>3. /\ b \in Seq(B) /\ Len(b) = Len(s) + 1 /\ b[Len(s) + 1] = u[2]
        /\ \A i \in 1..Len(s) : b[i] = s[i][2]
    BY <1>2, <2>1
  <2> HIDE DEF a, b
  <2>4. \A i \in 1..(Len(s) + 1) : a[i] = b[i]
    BY <2>1, <2>2, <2>3
  <2>5. a = b
    BY <2>2, <2>3, <2>4
  <2> QED BY <2>5 DEF a, b, w
<1>4. ASSUME NEW s \in Seq(A \X B), NEW t \in Seq(A \X B)
      PROVE  Col2(s \o t) = Col2(s) \o Col2(t)
  <2> DEFINE w == s \o t
             a == Col2(w)
             b == Col2(s) \o Col2(t)
  <2>1. /\ w \in Seq(A \X B) /\ Len(w) = Len(s) + Len(t) /\ \A i \in 1..Len(s) : w[i] = s[i]
        /\ Len(s) \in Nat /\ Len(t) \in Nat
        /\ \A i \in (Len(s) + 1)..(Len(s) + Len(t)) : w[i] = t[i - Len(s)] /\ i - Len(s) \in 1..Len(t)
    OBVIOUS
  <2> HIDE DEF w
  <2>2. a \in Seq(B) /\ Len(a) = Len(s) + Len(t) /\ \A i \in 1..(Len(s) + Len(t)) : a[i] = w[i][2]
    BY <1>2, <2>1
  <2> DEFINE x == Col2(s)
             y == Col2(t)
  <2>6. /\ x \in Seq(B) /\ Len(x) = Len(s) /\ \A i \in 1..Len(s) : x[i] = s[i][2]
        /\ y \in Seq(B) /\ Len(y) = Len(t) /\ \A i \in 1..Len(t) : y[i] = t[i][2]
    BY <1>2
  <2> HIDE DEF x, y
  <2>3. /\ b \in Seq(B) /\ Len(b) = Len(s) + Len(t)
        /\ \A i \in 1..Len(s) : b[i] = x[i]
        /\ \A i \in (Len(s) + 1)..(Len(s) + Len(t)) : b[i] = y[i - Len(s)]
    <3>1. b = x \o y
      BY DEF x, y
    <3>2. /\ x \o y \in Seq(B) /\ Len(x \o y) = Len(x) + Len(y) /\ \A i \in 1..Len(x) : (x \o y)[i] = x[i]
          /\ \A i \in (Len(x) + 1)..(Len(x) + Len(y)) : (x \o y)[i] = y[i - Len(x)]
      <4>1. x \in Seq(B) /\ y \in Seq(B)
        BY <2>6
      <4> QED BY <4>1, ConcatAt
    <3> HIDE DEF b
    <3> QED BY <2>6, <3>1, <3>2
  <2> HIDE DEF a, b
  <2>4. ASSUME NEW i \in 1..(Len(s) + Len(t))
        PROVE  a[i] = b[i]
    <3>1. CASE i <= Len(s)
      <4>1. i \in 1..Len(s)
        BY <2>1, <3>1
      <4>2. a[i] = s[i][2] /\ b[i] = s[i][2]
        BY <2>1, <2>2, <2>3, <2>6, <4>1
      <4> QED BY <4>2
    <3>2. CASE i > Len(s)
      <4>1. i \in (Len(s) + 1)..(Len(s) + Len(t))
        BY <2>1, <3>2
      <4>2. w[i] = t[i - Len(s)] /\ i - Len(s) \in 1..Len(t)
        BY <2>1, <4>1
      <4>3. b[i] = y[i - Len(s)]
        BY <2>3, <4>1
      <4> QED BY <2>2, <2>6, <4>2, <4>3
    <3> QED BY <2>1, <3>1, <3>2
  <2>5. a = b
    BY <2>2, <2>3, <2>4
  <2> QED BY <2>5 DEF a, b, w
<1> QED BY <1>1, <1>2, <1>3, <1>4 DEF Col2Rule

-----------------------------------------------------------------------------
(* Slices, and the scan that several threads share.                        *)

\* The elements of s after place a, up to place b.
Slice(s, a, b) == SubSeq(s, a + 1, b)

\* The slices of a list.
LEMMA SliceAt ==
    ASSUME NEW V, NEW s \in Seq(V), NEW a \in 0..Len(s), NEW b \in a..Len(s)
    PROVE  /\ Slice(s, a, b) \in Seq(V) /\ Len(Slice(s, a, b)) = b - a
           /\ \A i \in 1..(b - a) : Slice(s, a, b)[i] = s[a + i]
BY DEF Slice

SliceRule(s, V) ==
    /\ Slice(s, 0, Len(s)) = s
    /\ \A a \in 0..Len(s) : Slice(s, a, a) = <<>>
    /\ \A a \in 0..Len(s) : \A b \in a..Len(s) :
          /\ Slice(s, a, b) \in Seq(V) /\ Len(Slice(s, a, b)) = b - a
          /\ b < Len(s) => s[b + 1] \in V /\ Slice(s, a, b + 1) = Append(Slice(s, a, b), s[b + 1])
          /\ \A c \in b..Len(s) : Slice(s, a, b) \o Slice(s, b, c) = Slice(s, a, c)

\* How slices are put together.
LEMMA SliceParts ==
    ASSUME NEW V, NEW s \in Seq(V)
    PROVE  SliceRule(s, V)
<1> DEFINE n == Len(s)
<1>0. n \in Nat
  OBVIOUS
<1>1. Slice(s, 0, n) = s
  BY DEF Slice
<1>2. ASSUME NEW a \in 0..n
      PROVE  Slice(s, a, a) = <<>>
  BY DEF Slice
<1>3. ASSUME NEW a \in 0..n, NEW b \in a..n, b < n
      PROVE  s[b + 1] \in V /\ Slice(s, a, b + 1) = Append(Slice(s, a, b), s[b + 1])
  <2> DEFINE x == Slice(s, a, b + 1)
             y == Slice(s, a, b)
             z == Append(y, s[b + 1])
  <2>0. b + 1 \in a..n /\ b + 1 \in 1..n /\ s[b + 1] \in V /\ a + ((b - a) + 1) = b + 1 /\ b - a \in Nat
    BY <1>0, <1>3
  <2>1. x \in Seq(V) /\ Len(x) = (b + 1) - a /\ \A i \in 1..((b + 1) - a) : x[i] = s[a + i]
    BY <2>0, SliceAt
  <2>2. y \in Seq(V) /\ Len(y) = b - a /\ \A i \in 1..(b - a) : y[i] = s[a + i]
    BY SliceAt
  <2> HIDE DEF x, y
  <2>3. z \in Seq(V) /\ Len(z) = (b - a) + 1 /\ \A i \in 1..((b - a) + 1) : z[i] = s[a + i]
    BY <2>0, <2>2
  <2> HIDE DEF z
  <2>4. x = z
    BY <2>0, <2>1, <2>3
  <2> QED BY <2>0, <2>4 DEF x, y, z
<1>4. ASSUME NEW a \in 0..n, NEW b \in a..n, NEW c \in b..n
      PROVE  Slice(s, a, b) \o Slice(s, b, c) = Slice(s, a, c)
  <2> DEFINE x == Slice(s, a, b)
             y == Slice(s, b, c)
             z == Slice(s, a, c)
             w == x \o y
  <2>0. b \in 0..n /\ c \in a..n /\ a \in Nat /\ b \in Nat /\ c \in Nat /\ b >= a /\ c >= b
    BY <1>0
  <2>1. x \in Seq(V) /\ Len(x) = b - a /\ \A i \in 1..(b - a) : x[i] = s[a + i]
    BY SliceAt
  <2>2. y \in Seq(V) /\ Len(y) = c - b /\ \A i \in 1..(c - b) : y[i] = s[b + i]
    BY <2>0, SliceAt
  <2>3. z \in Seq(V) /\ Len(z) = c - a /\ \A i \in 1..(c - a) : z[i] = s[a + i]
    BY <2>0, SliceAt
  <2> HIDE DEF x, y, z, w
  <2>4. x \in Seq(V) /\ y \in Seq(V)
    BY <2>1, <2>2
  <2>5. /\ w \in Seq(V) /\ Len(w) = Len(x) + Len(y) /\ \A i \in 1..Len(x) : w[i] = x[i]
        /\ \A i \in (Len(x) + 1)..(Len(x) + Len(y)) : w[i] = y[i - Len(x)]
    BY <2>4, ConcatAt DEF w
  <2>6. ASSUME NEW i \in 1..(c - a)
        PROVE  w[i] = z[i]
    <3>1. CASE i <= b - a
      <4>1. i \in 1..(b - a)
        BY <2>0, <3>1
      <4>2. w[i] = x[i]
        BY <2>1, <2>5, <4>1
      <4> QED BY <2>1, <2>3, <4>1, <4>2
    <3>2. CASE i > b - a
      <4>1. i \in ((b - a) + 1)..((b - a) + (c - b)) /\ i - (b - a) \in 1..(c - b) /\ b + (i - (b - a)) = a + i
        BY <2>0, <3>2
      <4>2. w[i] = y[i - (b - a)]
        BY <2>1, <2>2, <2>5, <4>1
      <4> QED BY <2>2, <2>3, <4>1, <4>2
    <3> QED BY <2>0, <3>1, <3>2
  <2>7. w \in Seq(V) /\ Len(w) = c - a /\ z \in Seq(V) /\ Len(z) = c - a
    BY <2>0, <2>1, <2>2, <2>3, <2>5, SMTT(30)
  <2>8. w = z
    BY <2>6, <2>7
  <2> QED BY <2>8 DEF w, x, y, z
<1>5. ASSUME NEW a \in 0..n, NEW b \in a..n
      PROVE  Slice(s, a, b) \in Seq(V) /\ Len(Slice(s, a, b)) = b - a
  BY SliceAt
<1> QED BY <1>1, <1>2, <1>3, <1>4, <1>5 DEF SliceRule

\* Places edge divide the list s of rows into k parts, of which the first
\* at[t] - edge[t - 1] rows of part t were searched.
Division(s, k, edge, at) ==
    /\ k \in Nat
    /\ \A t \in 0..k : edge[t] \in 0..Len(s)
    /\ edge[0] = 0 /\ edge[k] = Len(s)
    /\ \A t \in 1..k : edge[t - 1] <= at[t] /\ at[t] <= edge[t] /\ at[t] \in Nat

PartFound(s, K, edge, at, t) == Col2(Keep(Slice(s, edge[t - 1], at[t]), K))

Together(part, s, K, m, k, edge, at, B) ==
    /\ FlattenSeq(part) \in Seq(B)
    /\ \A x \in ToSet(FlattenSeq(part)) : \E r \in ToSet(Keep(s, K)) : x = r[2]
    /\ /\ \A t \in 1..k : at[t] >= edge[t] \/ Len(part[t]) >= m
       /\ Len(Keep(s, K)) <= m
       => FlattenSeq(part) = Col2(Keep(s, K))

\* What the threads find together.
LEMMA PartsTogether ==
    ASSUME NEW A, NEW B, NEW s \in Seq(A \X B), NEW K, NEW m \in Nat,
           NEW k, NEW edge, NEW at, Division(s, k, edge, at),
           NEW part, part = [t \in 1..k |-> PartFound(s, K, edge, at, t)]
    PROVE  Together(part, s, K, m, k, edge, at, B)
<1> DEFINE V == A \X B
           Kept(a, b) == Keep(Slice(s, a, b), K)
           n == Len(s)
<1>0. /\ k \in Nat /\ n \in Nat /\ edge[0] = 0 /\ edge[k] = n
      /\ \A t \in 0..k : edge[t] \in 0..n
      /\ \A t \in 1..k : /\ at[t] \in edge[t - 1]..edge[t] /\ edge[t - 1] \in 0..n /\ edge[t] \in 0..n
                         /\ edge[t] \in edge[t - 1]..n /\ at[t] \in edge[t - 1]..n /\ at[t] \in 0..n
                         /\ edge[t] \in at[t]..n
  <2>1. \A t \in 1..k : t - 1 \in 0..k /\ t \in 0..k
    BY DEF Division
  <2> QED BY <2>1 DEF Division
<1>1. SliceRule(s, V) /\ KeepRule(V, K) /\ Col2Rule(A, B)
  BY SliceParts, KeepOne, Col2Facts
<1>2. ASSUME NEW a \in 0..n, NEW b \in a..n
      PROVE  /\ Slice(s, a, b) \in Seq(V) /\ Kept(a, b) \in Seq(V) /\ Len(Kept(a, b)) \in Nat
             /\ Col2(Kept(a, b)) \in Seq(B) /\ Len(Col2(Kept(a, b))) = Len(Kept(a, b))
             /\ ToSet(Kept(a, b)) = ToSet(Slice(s, a, b)) \cap K
  <2>1. Slice(s, a, b) \in Seq(V)
    BY <1>1 DEF SliceRule
  <2>2. Kept(a, b) \in Seq(V) /\ ToSet(Kept(a, b)) = ToSet(Slice(s, a, b)) \cap K
    BY <2>1, KeepElements
  <2> DEFINE q == Kept(a, b)
  <2> HIDE DEF q
  <2>3. q \in Seq(V)
    BY <2>2 DEF q
  <2>4. Col2(q) \in Seq(B) /\ Len(Col2(q)) = Len(q) /\ Len(q) \in Nat
    BY <1>1, <2>3 DEF Col2Rule
  <2> QED BY <2>1, <2>2, <2>4 DEF q
<1>3. ASSUME NEW a \in 0..n, NEW b \in a..n, NEW c \in b..n
      PROVE  /\ Kept(a, c) = Kept(a, b) \o Kept(b, c)
             /\ Col2(Kept(a, c)) = Col2(Kept(a, b)) \o Col2(Kept(b, c))
             /\ Len(Kept(a, c)) = Len(Kept(a, b)) + Len(Kept(b, c))
  <2>1. Slice(s, a, c) = Slice(s, a, b) \o Slice(s, b, c)
    BY <1>1 DEF SliceRule
  <2>2. Slice(s, a, b) \in Seq(V) /\ Slice(s, b, c) \in Seq(V) /\ Kept(a, b) \in Seq(V) /\ Kept(b, c) \in Seq(V)
    <3>1. b \in 0..n
      BY <1>0
    <3> QED BY <1>2, <3>1
  <2>3. Kept(a, c) = Kept(a, b) \o Kept(b, c)
    BY <2>1, <2>2, KeepConcat, ZenonT(40)
  <2> DEFINE x == Kept(a, b)
             y == Kept(b, c)
  <2> HIDE DEF x, y
  <2>4. x \in Seq(V) /\ y \in Seq(V)
    BY <2>2 DEF x, y
  <2>5. Col2(x \o y) = Col2(x) \o Col2(y) /\ Len(x \o y) = Len(x) + Len(y)
    <3>1. Col2(x \o y) = Col2(x) \o Col2(y)
      BY <1>1, <2>4, Zenon DEF Col2Rule
    <3> QED BY <2>4, <3>1, ConcatAt
  <2> QED BY <2>3, <2>5 DEF x, y
<1>4. part \in Seq(Seq(B)) /\ Len(part) = k /\ \A t \in 1..k : part[t] = Col2(Kept(edge[t - 1], at[t])) /\ part[t] \in Seq(B)
  <2>1. \A t \in 1..k : PartFound(s, K, edge, at, t) = Col2(Kept(edge[t - 1], at[t]))
    BY DEF PartFound
  <2>2. \A t \in 1..k : PartFound(s, K, edge, at, t) \in Seq(B)
    <3> HIDE DEF Kept
    <3> QED BY <1>0, <1>2, <2>1, ZenonT(40)
  <2> HIDE DEF Kept
  <2> QED BY <1>0, <2>1, <2>2
<1>5. FlattenSeq(part) \in Seq(B)
  BY <1>4, FlattenElements
<1>6. ASSUME NEW x \in ToSet(FlattenSeq(part))
      PROVE  \E r \in ToSet(Keep(s, K)) : x = r[2]
  <2>1. PICK t \in 1..k : x \in ToSet(part[t])
    BY <1>4, FlattenElements
  <2> DEFINE q == Kept(edge[t - 1], at[t])
  <2>2. q \in Seq(V) /\ ToSet(q) = ToSet(Slice(s, edge[t - 1], at[t])) \cap K /\ part[t] = Col2(q) /\ Len(q) \in Nat
    <3> HIDE DEF Kept
    <3> QED BY <1>0, <1>2, <1>4
  <2> HIDE DEF q
  <2>3. PICK i \in 1..Len(q) : x = q[i][2]
    <3>1. ToSet(Col2(q)) = RowsIn(Col2(q)) /\ Len(Col2(q)) = Len(q)
      <4>1. Col2(q) \in Seq(B) /\ Len(Col2(q)) = Len(q)
        BY <1>1, <2>2 DEF Col2Rule
      <4> QED BY <4>1, ElementsOf
    <3>2. PICK i \in 1..Len(q) : Col2(q)[i] = x
      BY <2>1, <2>2, <3>1 DEF RowsIn
    <3> QED BY <3>2 DEF Col2
  <2>4. q[i] \in ToSet(Slice(s, edge[t - 1], at[t])) /\ q[i] \in K
    <3>1. q[i] \in ToSet(q)
      <4>1. ToSet(q) = RowsIn(q)
        BY <2>2, ElementsOf
      <4> QED BY <4>1 DEF RowsIn
    <3> QED BY <2>2, <3>1
  <2>5. q[i] \in ToSet(s)
    <3> DEFINE a == edge[t - 1]
               b == at[t]
               z == Slice(s, a, b)
    <3>1. a \in 0..n /\ b \in a..n
      BY <1>0
    <3> HIDE DEF a, b
    <3>2. z \in Seq(V) /\ Len(z) = b - a /\ \A j \in 1..(b - a) : z[j] = s[a + j]
      BY <3>1, SliceAt
    <3> HIDE DEF z
    <3>3. ToSet(z) = RowsIn(z) /\ ToSet(s) = RowsIn(s)
      BY <3>2, ElementsOf
    <3>4. PICK j \in 1..(b - a) : z[j] = q[i]
      BY <2>4, <3>2, <3>3 DEF RowsIn, z, a, b
    <3>5. a + j \in 1..Len(s) /\ s[a + j] = q[i]
      BY <3>1, <3>2, <3>4
    <3> QED BY <3>3, <3>5 DEF RowsIn
  <2>6. q[i] \in ToSet(Keep(s, K))
    BY <2>4, <2>5, KeepElements
  <2> QED BY <2>3, <2>6
<1>7. ASSUME \A t \in 1..k : at[t] >= edge[t] \/ Len(part[t]) >= m,
             Len(Keep(s, K)) <= m
      PROVE  FlattenSeq(part) = Col2(Keep(s, K))
  <2>1. ASSUME NEW t \in 1..k
        PROVE  part[t] = Col2(Kept(edge[t - 1], edge[t]))
    <3>1. CASE at[t] >= edge[t]
      <4>1. at[t] = edge[t]
        BY <1>0, <3>1
      <4> QED BY <1>4, <4>1
    <3>2. CASE Len(part[t]) >= m
      <4> DEFINE a == edge[t - 1]
                 b == at[t]
                 c == edge[t]
      <4>1. a \in 0..n /\ b \in a..n /\ c \in b..n /\ b \in 0..n /\ c \in a..n /\ c \in 0..n /\ n \in c..n /\ n \in 0..n /\ 0 \in 0..n /\ a \in 0..n /\ n \in a..n
        BY <1>0
      <4> HIDE DEF a, b, c, Kept
      <4>2. Len(Kept(a, b)) >= m
        <5>1. part[t] = Col2(Kept(a, b))
          BY <1>4 DEF a, b
        <5> QED BY <1>2, <3>2, <4>1, <5>1
      <4>3. Len(Kept(0, n)) = Len(Kept(0, a)) + Len(Kept(a, n)) /\ Len(Kept(a, n)) = Len(Kept(a, c)) + Len(Kept(c, n))
        BY <1>3, <4>1
      <4>4. Len(Kept(a, c)) = Len(Kept(a, b)) + Len(Kept(b, c)) /\ Col2(Kept(a, c)) = Col2(Kept(a, b)) \o Col2(Kept(b, c))
        BY <1>3, <4>1
      <4>5. Len(Kept(0, n)) <= m
        <5>1. Slice(s, 0, n) = s
          BY <1>1 DEF SliceRule
        <5> QED BY <1>7, <5>1 DEF Kept
      <4>6. /\ Len(Kept(0, a)) \in Nat /\ Len(Kept(a, b)) \in Nat /\ Len(Kept(b, c)) \in Nat /\ Len(Kept(c, n)) \in Nat
        <5>1. 0 \in 0..n /\ a \in 0..n
          BY <4>1
        <5> QED BY <1>2, <4>1, <5>1
      <4>7. Len(Kept(b, c)) = 0
        BY <4>2, <4>3, <4>4, <4>5, <4>6
      <4>8. Col2(Kept(b, c)) = <<>>
        <5>1. Col2(Kept(b, c)) \in Seq(B) /\ Len(Col2(Kept(b, c))) = 0
          BY <1>2, <4>1, <4>7
        <5> QED BY <5>1
      <4>9. Col2(Kept(a, c)) = Col2(Kept(a, b))
        <5>1. Col2(Kept(a, b)) \in Seq(B)
          BY <1>2, <4>1
        <5> QED BY <4>4, <4>8, <5>1
      <4> QED BY <1>4, <4>9 DEF a, b, c
    <3> QED BY <1>7, <3>1, <3>2
  <2>2. PICK h : FlatStages(h, part, B)
    BY <1>4, FlattenStages
  <2>3. h[0] = <<>> /\ FlattenSeq(part) = h[k] /\ \A t \in 1..k : h[t] = h[t - 1] \o part[t]
    BY <1>4, <2>2 DEF FlatStages
  <2> DEFINE R == {t \in 0..k : h[t] = Col2(Kept(0, edge[t]))}
  <2>4. 0 \in R
    <3>1. Slice(s, 0, 0) = <<>>
      BY <1>0, <1>1 DEF SliceRule
    <3>2. Kept(0, 0) = <<>>
      BY <1>1, <3>1 DEF KeepRule
    <3>3. Col2(<<>>) = <<>>
      BY <1>1 DEF Col2Rule
    <3> QED BY <1>0, <2>3, <3>2, <3>3
  <2>5. ASSUME NEW t \in 1..k, t - 1 \in R
        PROVE  t \in R
    <3> HIDE DEF Kept
    <3>1. h[t] = Col2(Kept(0, edge[t - 1])) \o Col2(Kept(edge[t - 1], edge[t]))
      BY <2>1, <2>3, <2>5
    <3>2. 0 \in 0..n /\ edge[t - 1] \in 0..n /\ edge[t] \in edge[t - 1]..n /\ t \in 0..k
      BY <1>0
    <3>3. Col2(Kept(0, edge[t])) = Col2(Kept(0, edge[t - 1])) \o Col2(Kept(edge[t - 1], edge[t]))
      BY <1>3, <3>2
    <3> QED BY <3>1, <3>2, <3>3
  <2> HIDE DEF R
  <2>6. k \in R
    <3>1. \A t \in 0..k : t \in R
      BY <1>0, <2>4, <2>5, UpTo
    <3>2. k \in 0..k
      BY <1>0
    <3> QED BY <3>1, <3>2
  <2>7. Slice(s, 0, n) = s
    BY <1>1 DEF SliceRule
  <2>8. h[k] = Col2(Kept(0, n))
    <3> HIDE DEF Kept
    <3> QED BY <1>0, <2>6 DEF R
  <2> QED BY <2>3, <2>7, <2>8
<1> QED BY <1>5, <1>6, <1>7, Zenon DEF Together

\* What the search is given.
SearchTyped ==
    /\ names \in Seq(Text \X Int)
    /\ query.limit \in Nat /\ query.needle \in Text

Hits == {r \in ToSet(names) : Matches(r[1])}

Threads == Smaller(Cores, Len(names))
Chunk   == ChunkRows(Len(names), Threads)
Edge(t) == Smaller(t * Chunk, Len(names))

\* Each thread has found what matches in the rows of its chunk it has passed.
ScanInv ==
    pc = "scan" =>
        /\ names # <<>> /\ query.needle # <<>>
        /\ scan = [t \in 1..Threads |->
                      [at |-> scan[t].at, hi |-> Edge(t),
                       local |-> Col2(Keep(Slice(names, Edge(t - 1), scan[t].at), Hits))]]
        /\ \A t \in 1..Threads : scan[t].at \in Edge(t - 1)..Edge(t)

\* The chunks divide the table.
LEMMA Chunks ==
    ASSUME SearchTyped, names # <<>>
    PROVE  /\ Threads \in Nat \ {0} /\ Edge(0) = 0 /\ Edge(Threads) = Len(names)
           /\ \A t \in 0..Threads : Edge(t) \in 0..Len(names)
           /\ \A t \in 1..Threads : /\ Edge(t - 1) \in 0..Len(names) /\ Edge(t) \in Edge(t - 1)..Len(names)
<1> DEFINE n == Len(names)
           c == Chunk
           k == Threads
<1>1. n \in Nat /\ n >= 1
  BY DEF SearchTyped
<1>2. k \in Nat /\ k >= 1
  BY <1>1, SearchAssumption DEF Threads, Smaller
<1>3. c \in Nat /\ k * c >= n
  <2>1. c = (n + k - 1) \div k
    BY DEF Chunk, ChunkRows, div_ceil
  <2> HIDE DEF n, c, k
  <2>2. n + k - 1 \in Nat
    BY <1>1, <1>2
  <2>3. \A x \in Nat, y \in Nat \ {0} : x \div y \in Nat /\ x = y * (x \div y) + (x % y) /\ x % y \in 0..(y - 1)
    OBVIOUS
  <2>4. c \in Nat /\ n + k - 1 = k * c + ((n + k - 1) % k) /\ (n + k - 1) % k \in 0..(k - 1)
    <3> DEFINE x == n + k - 1
    <3>1. x \in Nat /\ k \in Nat \ {0}
      BY <1>2, <2>2
    <3>2. c = x \div k
      BY <2>1
    <3> HIDE DEF x
    <3>3. x \div k \in Nat /\ x = k * (x \div k) + (x % k) /\ x % k \in 0..(k - 1)
      BY <2>3, <3>1
    <3>4. c \in Nat /\ x = k * c + (x % k) /\ x % k \in 0..(k - 1)
      BY <3>2, <3>3, Zenon
    <3> QED BY <3>4 DEF x
  <2>5. k * c \in Nat
    BY <1>2, <2>4
  <2> QED BY <1>1, <1>2, <2>4, <2>5
<1> HIDE DEF n, c, k
<1>4. \A t \in 0..k : Edge(t) = Smaller(t * c, n)
  BY DEF Edge, c, n
<1>5. \A t \in 0..k : t * c \in Nat
  BY <1>2, <1>3
<1>6. \A t \in 1..k : t - 1 \in 0..k /\ t \in 0..k /\ (t - 1) * c <= t * c
  <2>1. \A t \in 1..k : t * c = (t - 1) * c + c
    BY <1>2, <1>3
  <2>2. \A t \in 1..k : t - 1 \in 0..k /\ t \in 0..k
    BY <1>2
  <2> QED BY <1>3, <1>5, <2>1, <2>2
<1>7. 0 * c = 0 /\ 0 \in 0..k /\ k \in 0..k
  BY <1>2, <1>3
<1>8. k \in Nat \ {0} /\ Edge(0) = 0 /\ Edge(k) = n
  BY <1>1, <1>2, <1>3, <1>4, <1>5, <1>7 DEF Smaller
<1>9. \A t \in 0..k : Edge(t) \in 0..n
  BY <1>1, <1>4, <1>5 DEF Smaller
<1>10. \A t \in 1..k : Edge(t - 1) \in 0..n /\ Edge(t) \in Edge(t - 1)..n
  BY <1>1, <1>4, <1>5, <1>6 DEF Smaller
<1> QED BY <1>8, <1>9, <1>10 DEF k, n

\* The threads start with nothing found.
LEMMA ScanStarts ==
    ASSUME SearchTyped, StartLinear
    PROVE  ScanInv' /\ scan' # <<>>
<1>1. /\ query.needle # <<>> /\ names # <<>>
      /\ names' = names /\ query' = query
      /\ scan' = [t \in 1..Threads |->
                    [at |-> Smaller((t - 1) * Chunk, Len(names)), hi |-> Smaller(t * Chunk, Len(names)),
                     local |-> <<>>]]
  BY DEF StartLinear, Threads, Chunk
<1>2. /\ Threads \in Nat \ {0}
      /\ \A t \in 1..Threads : /\ Edge(t - 1) \in 0..Len(names) /\ Edge(t) \in Edge(t - 1)..Len(names)
  BY <1>1, Chunks
<1>3. \A t \in 1..Threads : scan'[t] = [at |-> Edge(t - 1), hi |-> Edge(t), local |-> <<>>]
  BY <1>1 DEF Edge
<1>4. \A t \in 1..Threads : Col2(Keep(Slice(names, Edge(t - 1), Edge(t - 1)), Hits)) = <<>>
  <2>1. SliceRule(names, Text \X Int) /\ KeepRule(Text \X Int, Hits) /\ Col2Rule(Text, Int)
    BY SliceParts, KeepOne, Col2Facts DEF SearchTyped
  <2>2. \A t \in 1..Threads : Slice(names, Edge(t - 1), Edge(t - 1)) = <<>>
    BY <1>2, <2>1 DEF SliceRule
  <2>3. Keep(<<>>, Hits) = <<>> /\ Col2(<<>>) = <<>>
    BY <2>1 DEF KeepRule, Col2Rule
  <2> QED BY <2>2, <2>3
<1>5. Hits' = Hits /\ Threads' = Threads /\ \A t : Edge(t)' = Edge(t)
  BY <1>1 DEF Hits, Matches, Threads, Edge, Chunk
<1>9. ASSUME NEW t \in 1..Threads
      PROVE  scan'[t].at = Edge(t - 1)
  <2>1. scan'[t] = [at |-> Edge(t - 1), hi |-> Edge(t), local |-> <<>>]
    BY <1>3
  <2> DEFINE e == Edge(t - 1)
             f == Edge(t)
  <2>2. scan'[t] = [at |-> e, hi |-> f, local |-> <<>>]
    BY <2>1
  <2> HIDE DEF e, f
  <2>3. scan'[t].at = e
    BY <2>2
  <2> QED BY <2>3 DEF e
<1>6. scan' = [t \in 1..Threads |->
                  [at |-> scan'[t].at, hi |-> Edge(t),
                   local |-> Col2(Keep(Slice(names, Edge(t - 1), scan'[t].at), Hits))]]
  <2>1. \A t \in 1..Threads : scan'[t] = [at |-> scan'[t].at, hi |-> Edge(t),
                   local |-> Col2(Keep(Slice(names, Edge(t - 1), scan'[t].at), Hits))]
    BY <1>3, <1>4, <1>9, Zenon
  <2>2. scan' = [t \in 1..Threads |-> scan'[t]]
    BY <1>1
  <2> QED BY <2>1, <2>2, Zenon
<1>7. \A t \in 1..Threads : scan'[t].at \in Edge(t - 1)..Edge(t)
  <2>2. \A t \in 1..Threads : Edge(t - 1) \in Edge(t - 1)..Edge(t)
    <3>1. \A t \in 1..Threads : Edge(t - 1) \in Nat /\ Edge(t) \in Nat /\ Edge(t - 1) <= Edge(t)
      BY <1>2
    <3> QED BY <3>1
  <2> QED BY <1>9, <2>2, Zenon
<1>8. scan' # <<>>
  <2>1. DOMAIN scan' = 1..Threads /\ 1 \in 1..Threads
    BY <1>1, <1>2
  <2>2. DOMAIN <<>> = {}
    OBVIOUS
  <2> QED BY <2>1, <2>2
<1> QED BY <1>1, <1>5, <1>6, <1>7, <1>8, Zenon DEF ScanInv

\* A row more is passed.
LEMMA ScanGoesOn ==
    ASSUME SearchTyped, ScanInv, NEW i \in 1..Cores, ScanRow(i)
    PROVE  ScanInv'
<1> DEFINE V == Text \X Int
           row == names[scan[i].at + 1]
           new == [at |-> scan[i].at + 1, hi |-> scan[i].hi,
                   local |-> IF Matches(row[1]) THEN Append(scan[i].local, row[2]) ELSE scan[i].local]
           Of(t, a) == [at |-> a, hi |-> Edge(t), local |-> Col2(Keep(Slice(names, Edge(t - 1), a), Hits))]
<1>1. /\ pc = "scan" /\ i \in DOMAIN scan /\ ~ Finished(scan[i])
      /\ names' = names /\ query' = query
      /\ scan' = [scan EXCEPT ![i] = new]
  BY DEF ScanRow
<1>2. /\ names # <<>> /\ query.needle # <<>> /\ DOMAIN scan = 1..Threads
      /\ \A t \in 1..Threads : scan[t] = Of(t, scan[t].at)
      /\ \A t \in 1..Threads : scan[t].at \in Edge(t - 1)..Edge(t)
      /\ scan = [t \in 1..Threads |-> Of(t, scan[t].at)]
  <2>1. scan = [t \in 1..Threads |-> Of(t, scan[t].at)]
    BY <1>1 DEF ScanInv
  <2>2. DOMAIN scan = 1..Threads /\ \A t \in 1..Threads : scan[t] = Of(t, scan[t].at)
    <3> HIDE DEF Of
    <3> QED BY <2>1
  <2> QED BY <1>1, <2>1, <2>2 DEF ScanInv
<1>3. /\ Threads \in Nat \ {0}
      /\ \A t \in 1..Threads : /\ Edge(t - 1) \in 0..Len(names) /\ Edge(t) \in Edge(t - 1)..Len(names)
  BY <1>2, Chunks
<1> DEFINE a == scan[i].at
           lo == Edge(i - 1)
           hi == Edge(i)
           old == Slice(names, lo, a)
<1>4. scan[i].hi = hi /\ scan[i].local = Col2(Keep(old, Hits)) /\ i \in 1..Threads
  BY <1>1, <1>2
<1>5. /\ lo \in 0..Len(names) /\ hi \in lo..Len(names) /\ a \in lo..hi /\ a < hi
      /\ a \in lo..Len(names) /\ a < Len(names) /\ Len(names) \in Nat
  <2>1. lo \in 0..Len(names) /\ hi \in lo..Len(names) /\ a \in lo..hi /\ Len(names) \in Nat
    BY <1>2, <1>3, <1>4 DEF SearchTyped
  <2>2. ~ (a >= hi)
    BY <1>1, <1>4 DEF Finished
  <2> HIDE DEF a, lo, hi
  <2> QED BY <2>1, <2>2
<1>6. SliceRule(names, V) /\ KeepRule(V, Hits) /\ Col2Rule(Text, Int)
  BY SliceParts, KeepOne, Col2Facts DEF SearchTyped
<1>7. names[a + 1] \in V /\ old \in Seq(V) /\ Slice(names, lo, a + 1) = Append(old, names[a + 1])
  <2> HIDE DEF a, lo, hi
  <2> QED BY <1>5, <1>6 DEF SliceRule
<1>8. names[a + 1] \in Hits <=> Matches(names[a + 1][1])
  <2>1. names[a + 1] \in ToSet(names)
    <3>1. a + 1 \in 1..Len(names) /\ ToSet(names) = RowsIn(names)
      <4>1. ToSet(names) = RowsIn(names)
        BY ElementsOf DEF SearchTyped
      <4> HIDE DEF a, lo, hi
      <4> QED BY <1>5, <4>1
    <3> QED BY <3>1 DEF RowsIn
  <2> QED BY <2>1 DEF Hits
<1>9. new = Of(i, a + 1)
  <2> DEFINE r == names[a + 1]
             q == Keep(old, Hits)
  <2>1. Keep(Append(old, r), Hits) = IF r \in Hits THEN Append(q, r) ELSE q
    <3> HIDE DEF r, old
    <3> QED BY <1>6, <1>7 DEF KeepRule, r
  <2>2. q \in Seq(V)
    BY <1>6, <1>7 DEF KeepRule
  <2>3. Col2(Append(q, r)) = Append(Col2(q), r[2])
    <3> HIDE DEF q, r
    <3> QED BY <1>6, <1>7, <2>2 DEF Col2Rule, r
  <2>4. new.local = Col2(Keep(Slice(names, lo, a + 1), Hits))
    <3>1. new.local = IF Matches(r[1]) THEN Append(Col2(q), r[2]) ELSE Col2(q)
      BY <1>4
    <3>2. Keep(Slice(names, lo, a + 1), Hits) = IF r \in Hits THEN Append(q, r) ELSE q
      BY <1>7, <2>1, Zenon
    <3> HIDE DEF q, r, new
    <3>3. CASE Matches(r[1])
      BY <1>8, <2>3, <3>1, <3>2, <3>3, Zenon DEF r
    <3>4. CASE ~ Matches(r[1])
      BY <1>8, <3>1, <3>2, <3>4, Zenon DEF r
    <3> QED BY <3>3, <3>4
  <2>5. new = [at |-> a + 1, hi |-> hi, local |-> new.local]
    BY <1>4
  <2> HIDE DEF new, a, hi, lo
  <2>6. new = [at |-> a + 1, hi |-> hi, local |-> Col2(Keep(Slice(names, lo, a + 1), Hits))]
    BY <2>4, <2>5, Zenon
  <2> QED BY <2>6 DEF hi, lo
<1>10. Hits' = Hits /\ Threads' = Threads /\ \A t : Edge(t)' = Edge(t)
  BY <1>1 DEF Hits, Matches, Threads, Edge, Chunk
<1>11. new.at = a + 1 /\ a + 1 \in lo..hi
  <2>1. new.at = a + 1
    OBVIOUS
  <2>2. a + 1 \in lo..hi
    <3> HIDE DEF a, lo, hi
    <3> QED BY <1>5
  <2> QED BY <2>1, <2>2
<1>12. DOMAIN scan' = 1..Threads /\ scan'[i] = new /\ \A t \in 1..Threads : t # i => scan'[t] = scan[t]
  <2> HIDE DEF new
  <2> QED BY <1>1, <1>2
<1>13. \A t \in 1..Threads : scan'[t] = Of(t, scan'[t].at) /\ scan'[t].at \in Edge(t - 1)..Edge(t)
  <2>1. scan'[i] = Of(i, scan'[i].at) /\ scan'[i].at \in Edge(i - 1)..Edge(i)
    <3> HIDE DEF Of, new
    <3> QED BY <1>9, <1>11, <1>12
  <2>2. ASSUME NEW t \in 1..Threads, t # i
        PROVE  scan'[t] = Of(t, scan'[t].at) /\ scan'[t].at \in Edge(t - 1)..Edge(t)
    <3> HIDE DEF Of, new
    <3> QED BY <1>2, <1>12, <2>2
  <2> QED BY <2>1, <2>2
<1>14. scan' = [t \in 1..Threads |-> Of(t, scan'[t].at)]
  <2>1. scan' = [t \in 1..Threads |-> scan'[t]]
    <3>1. scan' = [t \in DOMAIN scan |-> scan'[t]]
      BY <1>1
    <3> QED BY <1>2, <3>1
  <2> HIDE DEF Of
  <2> QED BY <1>13, <2>1, Zenon
<1> QED BY <1>1, <1>2, <1>10, <1>13, <1>14, Zenon DEF ScanInv

\* The symbols found: distinct symbols of matching rows, and what a serial
\* scan finds unless the threads may have stopped too early.
OutFound ==
    /\ out \in Seq(Int) /\ Distinct(out)
    /\ ToSet(out) \in SUBSET {r[2] : r \in ToSet(MatchingRows)}
    /\ scan = <<>> \/ Len(MatchingRows) <= query.limit => out = SerialScan

\* The serial scan.
LEMMA SerialFound ==
    ASSUME SearchTyped
    PROVE  /\ MatchingRows = Keep(names, Hits) /\ MatchingRows \in Seq(Text \X Int)
           /\ SerialScan = FirstDistinct(Col2(MatchingRows), query.limit)
           /\ Col2(MatchingRows) \in Seq(Int)
           /\ SerialScan \in Seq(Int) /\ Distinct(SerialScan)
           /\ ToSet(SerialScan) \in SUBSET {r[2] : r \in ToSet(MatchingRows)}
           /\ Len(SerialScan) <= query.limit
<1> DEFINE m == MatchingRows
<1>1. m = Keep(names, Hits)
  BY DEF MatchingRows, Hits
<1>2. m \in Seq(Text \X Int)
  <2>1. names \in Seq(Text \X Int)
    BY DEF SearchTyped
  <2> QED BY <1>1, <2>1, KeepElements
<1> HIDE DEF m
<1>3. DOMAIN m = 1..Len(m) /\ Col2(m) \in Seq(Int) /\ Len(Col2(m)) = Len(m)
  <2>1. Col2Rule(Text, Int)
    BY Col2Facts
  <2> QED BY <1>2, <2>1 DEF Col2Rule
<1>4. SerialScan = FirstDistinct(Col2(m), query.limit)
  <2>1. SerialScan = FirstDistinct([i \in DOMAIN m |-> m[i][2]], query.limit)
    BY DEF SerialScan, m
  <2>2. [i \in DOMAIN m |-> m[i][2]] = Col2(m)
    BY <1>3 DEF Col2
  <2> QED BY <2>1, <2>2, Zenon
<1>5. query.limit \in Nat
  BY DEF SearchTyped
<1>6. /\ SerialScan \in Seq(Int) /\ Distinct(SerialScan) /\ ToSet(SerialScan) \in SUBSET ToSet(Col2(m))
      /\ Len(SerialScan) <= query.limit
  <2> DEFINE c == Col2(m)
             l == query.limit
  <2> HIDE DEF c, l
  <2>1. c \in Seq(Int) /\ l \in Nat /\ SerialScan = FirstDistinct(c, l)
    BY <1>3, <1>4, <1>5 DEF c, l
  <2>2. /\ SerialScan \in Seq(Int) /\ Distinct(SerialScan) /\ ToSet(SerialScan) \in SUBSET ToSet(c)
        /\ Len(SerialScan) <= l
    BY <2>1, FirstElements
  <2> QED BY <2>2 DEF c, l
<1>7. \A x \in ToSet(Col2(m)) : \E r \in ToSet(m) : x = r[2]
  <2>1. ToSet(m) = RowsIn(m) /\ ToSet(Col2(m)) = RowsIn(Col2(m))
    BY <1>2, <1>3, ElementsOf
  <2>2. \A i \in 1..Len(m) : Col2(m)[i] = m[i][2]
    BY DEF Col2
  <2> QED BY <1>3, <2>1, <2>2 DEF RowsIn
<1> QED BY <1>1, <1>2, <1>3, <1>4, <1>6, <1>7 DEF m

\* The parts the threads found are put together.
LEMMA ScanJoins ==
    ASSUME SearchTyped, ScanInv, Join
    PROVE  OutFound' /\ query.needle # <<>> /\ scan # <<>>
<1> DEFINE part == [t \in DOMAIN scan |-> scan[t].local]
           at == [t \in 1..Threads |-> scan[t].at]
           edge == [t \in 0..Threads |-> Edge(t)]
           m == query.limit
           flat == FlattenSeq(part)
           rows == Keep(names, Hits)
<1>1. /\ pc = "scan" /\ names' = names /\ query' = query /\ scan' = scan
      /\ \A t \in DOMAIN scan : Finished(scan[t])
      /\ out' = FirstDistinct(flat, m)
  BY DEF Join
<1>2. /\ names # <<>> /\ query.needle # <<>> /\ DOMAIN scan = 1..Threads
      /\ \A t \in 1..Threads : /\ scan[t].hi = Edge(t)
                               /\ scan[t].local = Col2(Keep(Slice(names, Edge(t - 1), scan[t].at), Hits))
                               /\ scan[t].at \in Edge(t - 1)..Edge(t)
  <2> DEFINE Of(t) == [at |-> scan[t].at, hi |-> Edge(t),
                       local |-> Col2(Keep(Slice(names, Edge(t - 1), scan[t].at), Hits))]
  <2>1. scan = [t \in 1..Threads |-> Of(t)]
    BY <1>1 DEF ScanInv
  <2>2. \A t : Of(t).hi = Edge(t) /\ Of(t).local = Col2(Keep(Slice(names, Edge(t - 1), scan[t].at), Hits))
    OBVIOUS
  <2>3. DOMAIN scan = 1..Threads /\ \A t \in 1..Threads : scan[t] = Of(t)
    <3> HIDE DEF Of
    <3> QED BY <2>1
  <2>4. names # <<>> /\ query.needle # <<>> /\ \A t \in 1..Threads : scan[t].at \in Edge(t - 1)..Edge(t)
    BY <1>1 DEF ScanInv
  <2> HIDE DEF Of
  <2> QED BY <2>2, <2>3, <2>4
<1>3. /\ Threads \in Nat \ {0} /\ Edge(0) = 0 /\ Edge(Threads) = Len(names)
      /\ \A t \in 0..Threads : Edge(t) \in 0..Len(names)
      /\ \A t \in 1..Threads : /\ Edge(t - 1) \in 0..Len(names) /\ Edge(t) \in Edge(t - 1)..Len(names)
  BY <1>2, Chunks
<1>4. Division(names, Threads, edge, at)
  <2>1. \A t \in 1..Threads : t - 1 \in 0..Threads /\ t \in 0..Threads
    BY <1>3
  <2>2. \A t \in 1..Threads : /\ edge[t - 1] = Edge(t - 1) /\ edge[t] = Edge(t) /\ at[t] = scan[t].at
                              /\ Edge(t - 1) <= scan[t].at /\ scan[t].at <= Edge(t) /\ scan[t].at \in Nat
    <3>1. \A t \in 1..Threads : /\ Edge(t - 1) <= scan[t].at /\ scan[t].at <= Edge(t) /\ scan[t].at \in Nat
      BY <1>2, <1>3
    <3> QED BY <2>1, <3>1
  <2>3. 0 \in 0..Threads /\ Threads \in 0..Threads
    BY <1>3
  <2>4. edge[0] = 0 /\ edge[Threads] = Len(names) /\ \A t \in 0..Threads : edge[t] \in 0..Len(names)
    BY <1>3, <2>3
  <2> HIDE DEF edge, at
  <2> QED BY <1>3, <2>2, <2>4 DEF Division
<1>5. part = [t \in 1..Threads |-> PartFound(names, Hits, edge, at, t)]
  <2>1. \A t \in 1..Threads : t - 1 \in 0..Threads
    BY <1>3
  <2>2. \A t \in 1..Threads : PartFound(names, Hits, edge, at, t) = scan[t].local
    BY <1>2, <2>1 DEF PartFound
  <2> QED BY <1>2, <2>2
<1>6. names \in Seq(Text \X Int) /\ m \in Nat
  BY DEF SearchTyped
<1>7. \A t \in 1..Threads : at[t] >= edge[t] \/ Len(part[t]) >= m
  <2>1. \A t \in 1..Threads : t \in 0..Threads
    BY <1>3
  <2>2. \A t \in 1..Threads : at[t] = scan[t].at /\ edge[t] = Edge(t) /\ part[t] = scan[t].local
    BY <1>2, <2>1
  <2>3. \A t \in 1..Threads : scan[t].at >= Edge(t) \/ Len(scan[t].local) >= query.limit
    <3>1. \A t \in 1..Threads : scan[t].at >= scan[t].hi \/ Len(scan[t].local) >= query.limit
      BY <1>1, <1>2 DEF Finished
    <3> QED BY <1>2, <3>1
  <2> HIDE DEF at, edge, part
  <2> QED BY <2>2, <2>3
<1> HIDE DEF part, at, edge
<1>8. /\ flat \in Seq(Int)
      /\ \A x \in ToSet(flat) : \E r \in ToSet(rows) : x = r[2]
      /\ Len(rows) <= m => flat = Col2(rows)
  <2> HIDE DEF m
  <2>1. Together(part, names, Hits, m, Threads, edge, at, Int)
    BY <1>4, <1>5, <1>6, PartsTogether
  <2> QED BY <1>7, <2>1, Zenon DEF Together
<1>9. MatchingRows' = rows /\ SerialScan' = FirstDistinct(Col2(rows), m)
  <2>1. MatchingRows = rows /\ SerialScan = FirstDistinct(Col2(rows), m)
    BY SerialFound
  <2>2. MatchingRows' = MatchingRows
    BY <1>1 DEF MatchingRows, Matches
  <2>3. SerialScan' = SerialScan
    BY <1>1, <2>2 DEF SerialScan
  <2> QED BY <2>1, <2>2, <2>3
<1> HIDE DEF flat, m, rows
<1>10. out' \in Seq(Int) /\ ToSet(out') \in SUBSET ToSet(flat) /\ Distinct(out')
  BY <1>1, <1>6, <1>8, FirstElements
<1>11. scan # <<>>
  <2>1. DOMAIN scan = 1..Threads /\ 1 \in 1..Threads
    BY <1>2, <1>3
  <2>2. DOMAIN <<>> = {}
    OBVIOUS
  <2> QED BY <2>1, <2>2
<1>12. ToSet(out') \in SUBSET {r[2] : r \in ToSet(rows)}
  BY <1>8, <1>10
<1>13. Len(rows) <= m => out' = FirstDistinct(Col2(rows), m)
  BY <1>1, <1>8
<1>14. query' = query /\ scan' # <<>>
  BY <1>1, <1>11
<1> QED BY <1>2, <1>9, <1>10, <1>11, <1>12, <1>13, <1>14, Zenon DEF OutFound, m

-----------------------------------------------------------------------------
(* Strings and their windows.                                              *)

\* Lowering a string.
LEMMA Lowered ==
    ASSUME NEW s \in Text
    PROVE  /\ Lower(s) \in Text /\ Len(Lower(s)) = Len(s)
           /\ \A i \in 1..Len(s) : Lower(s)[i] = IF s[i] \in 65..90 THEN s[i] + 32 ELSE s[i]
BY DEF Lower, Text

\* The place of a substring.
LEMMA SubstringAt ==
    ASSUME NEW s \in Text, NEW t \in Text
    PROVE  HasSubstring(s, t) <=>
             \E i \in 0..(Len(s) - Len(t)) : \A j \in 1..Len(t) : s[i + j] = t[j]
<1>1. Len(s) \in Nat /\ Len(t) \in Nat
  BY DEF Text
<1>2. ASSUME NEW i \in 0..(Len(s) - Len(t))
      PROVE  SubSeq(s, i + 1, i + Len(t)) = t <=> \A j \in 1..Len(t) : s[i + j] = t[j]
  <2> DEFINE x == SubSeq(s, i + 1, i + Len(t))
  <2>1. i \in 0..Len(s) /\ i + Len(t) \in i..Len(s) /\ (i + Len(t)) - i = Len(t)
    BY <1>1
  <2>2. x \in Seq(Int) /\ Len(x) = Len(t) /\ \A j \in 1..Len(t) : x[j] = s[i + j]
    <3>1. s \in Seq(Int)
      BY DEF Text
    <3> DEFINE b == i + Len(t)
    <3>2. Slice(s, i, b) \in Seq(Int) /\ Len(Slice(s, i, b)) = b - i /\ \A j \in 1..(b - i) : Slice(s, i, b)[j] = s[i + j]
      BY <2>1, <3>1, SliceAt
    <3>3. x = Slice(s, i, b)
      BY DEF Slice
    <3> HIDE DEF x
    <3> QED BY <2>1, <3>2, <3>3
  <2>3. t \in Seq(Int) /\ Len(t) = Len(t)
    BY DEF Text
  <2> HIDE DEF x
  <2>4. x = t <=> \A j \in 1..Len(t) : x[j] = t[j]
    <3>1. ASSUME \A j \in 1..Len(t) : x[j] = t[j]
          PROVE  x = t
      BY <2>2, <2>3, <3>1, SameList
    <3> QED BY <3>1, Zenon
  <2> QED BY <2>2, <2>4 DEF x
<1> QED BY <1>2 DEF HasSubstring

\* A string that occurs also occurs when both are lowered.
LEMMA LowerSubstring ==
    ASSUME NEW s \in Text, NEW t \in Text, HasSubstring(s, t)
    PROVE  HasSubstring(Lower(s), Lower(t))
<1>1. PICK i \in 0..(Len(s) - Len(t)) : \A j \in 1..Len(t) : s[i + j] = t[j]
  BY SubstringAt
<1> DEFINE a == Lower(s)
           b == Lower(t)
<1>2. /\ a \in Text /\ Len(a) = Len(s)
      /\ \A k \in 1..Len(s) : a[k] = IF s[k] \in 65..90 THEN s[k] + 32 ELSE s[k]
  BY Lowered
<1>3. /\ b \in Text /\ Len(b) = Len(t)
      /\ \A k \in 1..Len(t) : b[k] = IF t[k] \in 65..90 THEN t[k] + 32 ELSE t[k]
  BY Lowered
<1>4. Len(s) \in Nat /\ Len(t) \in Nat
  BY DEF Text
<1> HIDE DEF a, b
<1>5. \A j \in 1..Len(t) : i + j \in 1..Len(s) /\ a[i + j] = b[j]
  BY <1>1, <1>2, <1>3, <1>4
<1>6. \E k \in 0..(Len(a) - Len(b)) : \A j \in 1..Len(b) : a[k + j] = b[j]
  BY <1>2, <1>3, <1>5
<1>7. HasSubstring(a, b)
  BY <1>2, <1>3, <1>6, SubstringAt
<1> QED BY <1>7 DEF a, b

Trigram == {t \in Text : Len(t) = 3}

\* The windows of a string.
LEMMA WindowsOf ==
    ASSUME NEW s \in Text
    PROVE  /\ Windows(s) \in Seq(Trigram)
           /\ \A t \in Trigram : t \in ToSet(Windows(s)) <=> HasSubstring(s, t)
           /\ Len(s) >= 3 => ToSet(Windows(s)) # {}
<1> DEFINE n == IF Len(s) >= 2 THEN Len(s) - 2 ELSE 0
           w == Windows(s)
<1>1. Len(s) \in Nat /\ n \in Nat /\ 1..(Len(s) - 2) = 1..n /\ s \in Seq(Int)
  BY DEF Text
<1>2. ASSUME NEW i \in 1..n
      PROVE  /\ SubSeq(s, i, i + 2) \in Text /\ Len(SubSeq(s, i, i + 2)) = 3
             /\ \A j \in 1..3 : SubSeq(s, i, i + 2)[j] = s[(i - 1) + j]
  <2>1. i - 1 \in 0..Len(s) /\ i + 2 \in (i - 1)..Len(s) /\ (i + 2) - (i - 1) = 3 /\ (i - 1) + 1 = i
    BY <1>1
  <2> DEFINE a == i - 1
             b == i + 2
  <2>2. Slice(s, a, b) \in Seq(Int) /\ Len(Slice(s, a, b)) = b - a /\ \A j \in 1..(b - a) : Slice(s, a, b)[j] = s[a + j]
    BY <1>1, <2>1, SliceAt, ZenonT(40)
  <2>3. Slice(s, a, b) = SubSeq(s, i, i + 2) /\ b - a = 3
    BY <2>1 DEF Slice
  <2> QED BY <2>2, <2>3 DEF Text
<1>3. w = [i \in 1..n |-> SubSeq(s, i, i + 2)]
  BY <1>1 DEF Windows
<1>4. w \in Seq(Trigram) /\ Len(w) = n /\ \A i \in 1..n : w[i] = SubSeq(s, i, i + 2)
  <2>1. \A i \in 1..n : SubSeq(s, i, i + 2) \in Trigram
    BY <1>2 DEF Trigram
  <2> HIDE DEF n, w
  <2> QED BY <1>1, <1>3, <2>1
<1>5. ToSet(w) = RowsIn(w)
  BY <1>4, ElementsOf
<1>6. ASSUME NEW t \in Trigram
      PROVE  t \in ToSet(w) <=> HasSubstring(s, t)
  <2>1. t \in Text /\ Len(t) = 3
    BY DEF Trigram
  <2>2. HasSubstring(s, t) <=> \E i \in 0..(Len(s) - Len(t)) : \A j \in 1..Len(t) : s[i + j] = t[j]
    BY <2>1, SubstringAt
  <2>3. ASSUME NEW i \in 1..n
        PROVE  w[i] = t <=> \A j \in 1..3 : s[(i - 1) + j] = t[j]
    <3> DEFINE x == SubSeq(s, i, i + 2)
    <3>1. w[i] = x /\ x \in Seq(Int) /\ Len(x) = 3 /\ \A j \in 1..3 : x[j] = s[(i - 1) + j]
      BY <1>2, <1>4 DEF Text
    <3>2. t \in Seq(Int) /\ Len(t) = 3
      BY <2>1 DEF Text
    <3> HIDE DEF x
    <3>3. x = t <=> \A j \in 1..3 : x[j] = t[j]
      <4>1. ASSUME \A j \in 1..3 : x[j] = t[j]
            PROVE  x = t
        BY <3>1, <3>2, <4>1, SameList
      <4> QED BY <4>1, Zenon
    <3> QED BY <3>1, <3>3
  <2>4. ASSUME t \in ToSet(w)
        PROVE  \E i \in 0..(Len(s) - Len(t)) : \A j \in 1..Len(t) : s[i + j] = t[j]
    <3>1. PICK i \in 1..n : w[i] = t
      BY <1>4, <1>5, <2>4 DEF RowsIn
    <3>2. i - 1 \in 0..(Len(s) - 3) /\ \A j \in 1..3 : s[(i - 1) + j] = t[j]
      BY <1>1, <2>3, <3>1
    <3> QED BY <2>1, <3>2
  <2>5. ASSUME NEW i \in 0..(Len(s) - 3), \A j \in 1..3 : s[i + j] = t[j]
        PROVE  t \in ToSet(w)
    <3>1. i + 1 \in 1..n /\ (i + 1) - 1 = i
      BY <1>1
    <3>2. w[i + 1] = t
      BY <2>3, <2>5, <3>1, SMTT(30)
    <3> QED BY <1>4, <1>5, <3>1, <3>2 DEF RowsIn
  <2> QED BY <2>1, <2>2, <2>4, <2>5
<1>7. ASSUME Len(s) >= 3
      PROVE  ToSet(w) # {}
  <2>1. 1 \in 1..n
    BY <1>1, <1>7
  <2>2. w[1] \in RowsIn(w)
    BY <1>4, <2>1 DEF RowsIn
  <2> QED BY <1>5, <2>2
<1> QED BY <1>4, <1>6, <1>7

\* A string that occurs in another one brings its trigrams along.
LEMMA SubstringWindows ==
    ASSUME NEW s \in Text, NEW t \in Text, HasSubstring(s, t), NEW w \in Trigram, HasSubstring(t, w)
    PROVE  HasSubstring(s, w)
<1>1. PICK i \in 0..(Len(s) - Len(t)) : \A j \in 1..Len(t) : s[i + j] = t[j]
  BY SubstringAt
<1>2. w \in Text /\ Len(w) = 3 /\ Len(s) \in Nat /\ Len(t) \in Nat
  BY DEF Trigram, Text
<1>3. PICK k \in 0..(Len(t) - Len(w)) : \A j \in 1..Len(w) : t[k + j] = w[j]
  BY <1>2, SubstringAt
<1>4. i + k \in 0..(Len(s) - Len(w)) /\ \A j \in 1..Len(w) : k + j \in 1..Len(t) /\ (i + k) + j = i + (k + j)
  BY <1>2
<1>5. \A j \in 1..Len(w) : s[(i + k) + j] = w[j]
  BY <1>1, <1>3, <1>4
<1> QED BY <1>2, <1>4, <1>5, SubstringAt

DropSteps(n, q, S, z) ==
    /\ n \in Nat /\ DOMAIN q = 1..n /\ z \in S
    /\ \A x \in S, i \in 1..n : (IF x # <<>> /\ Last(x) = q[i] THEN x ELSE Append(x, q[i])) \in S

DropStages(h, n, q, S, z) ==
    /\ h \in [0..n -> S] /\ h[0] = z
    /\ \A k \in 1..n : h[k - 1] \in S /\ h[k] = (IF h[k - 1] # <<>> /\ Last(h[k - 1]) = q[k] THEN h[k - 1] ELSE Append(h[k - 1], q[k]))
    /\ FoldLeft(LAMBDA acc, x : IF acc # <<>> /\ Last(acc) = x THEN acc ELSE Append(acc, x), z, q) = h[n]

\* Dropping repetitions has stages.
LEMMA DropFold ==
    ASSUME NEW n, NEW q, NEW S, NEW z, DropSteps(n, q, S, z)
    PROVE  \E h : DropStages(h, n, q, S, z)
<1> DEFINE Body(f, s) == IF s = {} THEN z ELSE (IF f[s \ {Max(s)}] # <<>> /\ Last(f[s \ {Max(s)}]) = q[Max(s)] THEN f[s \ {Max(s)}] ELSE Append(f[s \ {Max(s)}], q[Max(s)]))
           E(f) == f = [s \in SUBSET (DOMAIN q) |-> Body(f, s)]
           it == CHOOSE f : E(f)
           U == [p \in S \X (1..n) |-> (IF p[1] # <<>> /\ Last(p[1]) = q[p[2]] THEN p[1] ELSE Append(p[1], q[p[2]]))]
<1>1. FoldLeft(LAMBDA acc, x : IF acc # <<>> /\ Last(acc) = x THEN acc ELSE Append(acc, x), z, q) = it[DOMAIN q]
  BY Zenon DEF FoldLeft, MapThenFoldSet
<1>2. /\ n \in Nat /\ DOMAIN q = 1..n /\ z \in S
      /\ U \in [S \X (1..n) -> S] /\ \A x \in S, i \in 1..n : U[<<x, i>>] = (IF x # <<>> /\ Last(x) = q[i] THEN x ELSE Append(x, q[i]))
  BY DEF DropSteps
<1> HIDE DEF U
<1>3. PICK f : /\ f = [s \in SUBSET (1..n) |-> f[s]] /\ FoldsBy(f, n, S, z, U)
               /\ \A s \in SUBSET (1..n) : s # {} => f[s \ {Max(s)}] \in S /\ Max(s) \in 1..n
  <2>1. n \in Nat /\ z \in S /\ U \in [S \X (1..n) -> S]
    BY <1>2
  <2> QED BY <2>1, FoldTable, Zenon
<1>4. E(f)
  <2>1. \A s \in SUBSET (1..n) : f[s] = Body(f, s)
    BY <1>2, <1>3 DEF FoldsBy
  <2> HIDE DEF Body
  <2> QED BY <1>2, <1>3, <2>1
<1>5. E(it)
  <2> HIDE DEF E
  <2> QED BY <1>4
<1> HIDE DEF it
<1>6. FoldsBy(it, n, S, z, U)
  <2>1. \A s \in SUBSET (1..n) : it[s] = Body(it, s)
    <3> HIDE DEF Body
    <3> QED BY <1>2, <1>5
  <2>2. {} \in SUBSET (1..n) /\ \A s \in SUBSET (1..n) : s # {} => Max(s) \in 1..n
    BY <1>3
  <2> QED BY <1>2, <2>1, <2>2 DEF FoldsBy
<1>7. PICK h : StagesOf(h, it, n, S, z, U)
  BY <1>6, FoldStages
<1>8. ASSUME NEW k \in 1..n
      PROVE  h[k - 1] \in S /\ h[k] = (IF h[k - 1] # <<>> /\ Last(h[k - 1]) = q[k] THEN h[k - 1] ELSE Append(h[k - 1], q[k]))
  BY <1>2, <1>7 DEF StagesOf
<1>9. h \in [0..n -> S] /\ h[0] = z /\ it[DOMAIN q] = h[n]
  BY <1>2, <1>7 DEF StagesOf
<1> QED BY <1>1, <1>8, <1>9, Zenon DEF DropStages

DropClosed(V, S) == \A a \in S, v \in V : (IF a # <<>> /\ Last(a) = v THEN a ELSE Append(a, v)) \in S

\* One element more.
LEMMA DropLast ==
    ASSUME NEW V, NEW S, <<>> \in S, DropClosed(V, S)
    PROVE  /\ DropRepeats(<<>>) = <<>>
           /\ \A s \in Seq(V) : DropRepeats(s) \in S
           /\ \A s \in Seq(V), u \in V : DropRepeats(Append(s, u)) = (IF DropRepeats(s) # <<>> /\ Last(DropRepeats(s)) = u THEN DropRepeats(s) ELSE Append(DropRepeats(s), u))
<1>1. ASSUME NEW n \in Nat, NEW q, DOMAIN q = 1..n, \A i \in 1..n : q[i] \in V
      PROVE  \E h : DropStages(h, n, q, S, <<>>)
  <2>1. DropSteps(n, q, S, <<>>)
    BY <1>1 DEF DropSteps, DropClosed
  <2> QED BY <2>1, DropFold
<1>2. DropRepeats(<<>>) = <<>>
  <2>1. PICK e : DropStages(e, 0, <<>>, S, <<>>)
    <3>1. 0 \in Nat /\ DOMAIN <<>> = 1..0 /\ \A i \in 1..0 : <<>>[i] \in V
      OBVIOUS
    <3> QED BY <1>1, <3>1
  <2> QED BY <2>1, Zenon DEF DropStages, DropRepeats
<1>3. ASSUME NEW s \in Seq(V)
      PROVE  DropRepeats(s) \in S
  <2>1. Len(s) \in Nat /\ DOMAIN s = 1..Len(s) /\ \A i \in 1..Len(s) : s[i] \in V /\ Len(s) \in 0..Len(s)
    OBVIOUS
  <2>2. PICK g : DropStages(g, Len(s), s, S, <<>>)
    BY <1>1, <2>1
  <2>3. DropRepeats(s) = g[Len(s)]
    BY <2>2, Zenon DEF DropStages, DropRepeats
  <2>4. g \in [0..Len(s) -> S]
    BY <2>2 DEF DropStages
  <2> QED BY <2>1, <2>3, <2>4
<1>4. ASSUME NEW s \in Seq(V), NEW u \in V
      PROVE  DropRepeats(Append(s, u)) = (IF DropRepeats(s) # <<>> /\ Last(DropRepeats(s)) = u THEN DropRepeats(s) ELSE Append(DropRepeats(s), u))
  <2> DEFINE n == Len(s)
             t == Append(s, u)
  <2>1. /\ n \in Nat /\ DOMAIN s = 1..n /\ \A i \in 1..n : s[i] \in V
        /\ DOMAIN t = 1..(n + 1) /\ t[n + 1] = u /\ \A i \in 1..n : t[i] = s[i]
        /\ \A i \in 1..(n + 1) : t[i] \in V
    OBVIOUS
  <2> HIDE DEF n, t
  <2>2. PICK g : DropStages(g, n, s, S, <<>>)
    BY <1>1, <2>1
  <2>3. PICK h : DropStages(h, n + 1, t, S, <<>>)
    BY <1>1, <2>1
  <2>4. \A k \in 0..n : k \in {i \in 0..n : h[i] = g[i]}
    <3> DEFINE R == {i \in 0..n : h[i] = g[i]}
    <3>1. 0 \in R
      <4>1. g[0] = <<>>
        BY <2>2 DEF DropStages
      <4>2. h[0] = <<>>
        BY <2>3 DEF DropStages
      <4> QED BY <2>1, <4>1, <4>2
    <3>2. ASSUME NEW k \in 1..n, k - 1 \in R
          PROVE  k \in R
      <4>1. k \in 1..(n + 1) /\ t[k] = s[k] /\ h[k - 1] = g[k - 1] /\ k \in 0..n
        BY <2>1, <3>2
      <4>2. g[k] = (IF g[k - 1] # <<>> /\ Last(g[k - 1]) = s[k] THEN g[k - 1] ELSE Append(g[k - 1], s[k]))
        BY <2>2 DEF DropStages
      <4>3. h[k] = (IF h[k - 1] # <<>> /\ Last(h[k - 1]) = t[k] THEN h[k - 1] ELSE Append(h[k - 1], t[k]))
        BY <2>3, <4>1 DEF DropStages
      <4>4. h[k] = g[k]
        BY <4>1, <4>2, <4>3
      <4> QED BY <4>1, <4>4
    <3> HIDE DEF R
    <3>3. \A k \in 0..n : k \in R
      BY <2>1, <3>1, <3>2, UpTo
    <3> QED BY <3>3 DEF R
  <2>5. DropRepeats(s) = g[n] /\ h[n] = g[n]
    <3>1. n \in 0..n
      BY <2>1
    <3>2. DropRepeats(s) = g[n]
      BY <2>2, Zenon DEF DropStages, DropRepeats
    <3> QED BY <2>4, <3>1, <3>2
  <2>6. DropRepeats(t) = h[n + 1]
    BY <2>3, Zenon DEF DropStages, DropRepeats
  <2>7. h[n + 1] = (IF h[n] # <<>> /\ Last(h[n]) = u THEN h[n] ELSE Append(h[n], u))
    <3>1. n + 1 \in 1..(n + 1) /\ (n + 1) - 1 = n
      BY <2>1
    <3>2. h[n + 1] = (IF h[(n + 1) - 1] # <<>> /\ Last(h[(n + 1) - 1]) = t[n + 1] THEN h[(n + 1) - 1] ELSE Append(h[(n + 1) - 1], t[n + 1]))
      BY <2>3, <3>1 DEF DropStages
    <3> QED BY <2>1, <3>1, <3>2, Zenon
  <2> QED BY <2>5, <2>6, <2>7, Zenon DEF t
<1> QED BY <1>2, <1>3, <1>4

\* Dropping repetitions keeps the elements.
LEMMA DropElements ==
    ASSUME NEW V, NEW s \in Seq(V)
    PROVE  DropRepeats(s) \in Seq(V) /\ ToSet(DropRepeats(s)) = ToSet(s)
<1> DEFINE P == {q \in Seq(V) : ToSet(DropRepeats(q)) = ToSet(q)}
<1>0. /\ DropRepeats(<<>>) = <<>>
      /\ \A q \in Seq(V) : DropRepeats(q) \in Seq(V)
      /\ \A q \in Seq(V), u \in V : DropRepeats(Append(q, u))
            = (IF DropRepeats(q) # <<>> /\ Last(DropRepeats(q)) = u THEN DropRepeats(q) ELSE Append(DropRepeats(q), u))
  <2>1. <<>> \in Seq(V) /\ DropClosed(V, Seq(V))
    BY DEF DropClosed
  <2> QED BY <2>1, DropLast
<1>1. <<>> \in P
  <2>1. DropRepeats(<<>>) = <<>> /\ <<>> \in Seq(V)
    BY <1>0
  <2> QED BY <2>1, Zenon
<1>2. ASSUME NEW q \in Seq(V), NEW u \in V, q \in P
      PROVE  Append(q, u) \in P
  <2> DEFINE a == DropRepeats(q)
             w == Append(q, u)
  <2>1. a \in Seq(V) /\ w \in Seq(V) /\ ToSet(a) = ToSet(q)
    BY <1>0, <1>2
  <2>2. DropRepeats(w) = (IF a # <<>> /\ Last(a) = u THEN a ELSE Append(a, u))
    BY <1>0
  <2> HIDE DEF a, w, P
  <2>3. ToSet(w) = ToSet(q) \cup {u} /\ ToSet(Append(a, u)) = ToSet(a) \cup {u} /\ ToSet(a) = RowsIn(a)
    BY <2>1, ElementsOf DEF w
  <2>4. CASE a # <<>> /\ Last(a) = u
    <3>1. Len(a) \in 1..Len(a) /\ a[Len(a)] = u
      <4>1. Len(a) \in Nat /\ Len(a) # 0
        BY <2>1, <2>4
      <4> QED BY <2>4, <4>1 DEF Last
    <3>2. u \in ToSet(a)
      BY <2>3, <3>1 DEF RowsIn
    <3> QED BY <2>1, <2>2, <2>3, <2>4, <3>2 DEF P, w
  <2>5. CASE ~ (a # <<>> /\ Last(a) = u)
    BY <2>1, <2>2, <2>3, <2>5 DEF P, w
  <2> QED BY <2>4, <2>5
<1> HIDE DEF P
<1>3. s \in P
  BY <1>1, <1>2, ListInduction
<1> QED BY <1>0, <1>3 DEF P

-----------------------------------------------------------------------------
(* The pairs both passes of the builder see.                               *)

Event == Trigram \X Nat

\* The pairs of one row.
PairsOf(row, id) ==
    LET w == DropRepeats(Windows(Lower(row[1]))) IN [i \in DOMAIN w |-> <<w[i], id>>]

\* The pairs of one row are its trigrams.
LEMMA RowPairs ==
    ASSUME NEW row \in Text \X Int, NEW id \in Nat
    PROVE  /\ PairsOf(row, id) \in Seq(Event)
           /\ \A i \in 1..Len(PairsOf(row, id)) : PairsOf(row, id)[i][2] = id
           /\ \A t \in Trigram, d \in Nat :
                 <<t, d>> \in ToSet(PairsOf(row, id)) <=> d = id /\ HasSubstring(Lower(row[1]), t)
<1> DEFINE s == Lower(row[1])
           w == DropRepeats(Windows(s))
           p == PairsOf(row, id)
<1>1. row[1] \in Text
  OBVIOUS
<1>2. s \in Text
  BY <1>1, Lowered
<1> HIDE DEF s
<1>3. Windows(s) \in Seq(Trigram) /\ \A t \in Trigram : t \in ToSet(Windows(s)) <=> HasSubstring(s, t)
  BY <1>2, WindowsOf
<1>4. w \in Seq(Trigram) /\ ToSet(w) = ToSet(Windows(s))
  BY <1>3, DropElements
<1>5. p = [i \in DOMAIN w |-> <<w[i], id>>]
  BY DEF PairsOf, s
<1> HIDE DEF w, p
<1>6. /\ p \in Seq(Event) /\ Len(p) = Len(w) /\ Len(w) \in Nat /\ \A i \in 1..Len(w) : p[i] = <<w[i], id>>
  <2>1. DOMAIN w = 1..Len(w) /\ Len(w) \in Nat /\ \A i \in 1..Len(w) : <<w[i], id>> \in Event
    BY <1>4 DEF Event
  <2> QED BY <1>5, <2>1
<1>7. ToSet(w) = RowsIn(w) /\ ToSet(p) = RowsIn(p)
  BY <1>4, <1>6, ElementsOf
<1>8. ASSUME NEW t \in Trigram, NEW d \in Nat
      PROVE  <<t, d>> \in ToSet(p) <=> d = id /\ HasSubstring(s, t)
  <2>1. HasSubstring(s, t) <=> \E i \in 1..Len(w) : w[i] = t
    BY <1>3, <1>4, <1>7 DEF RowsIn
  <2>2. <<t, d>> \in ToSet(p) <=> \E i \in 1..Len(w) : <<w[i], id>> = <<t, d>>
    BY <1>6, <1>7 DEF RowsIn
  <2> QED BY <2>1, <2>2
<1>9. \A i \in 1..Len(p) : p[i][2] = id
  BY <1>6
<1> QED BY <1>6, <1>8, <1>9 DEF p, s

EventsOf(E, table) ==
    /\ E \in Seq(Event)
    /\ \A i, j \in 1..Len(E) : i < j => E[i][2] <= E[j][2]
    /\ \A t \in Trigram, d \in Nat :
          <<t, d>> \in ToSet(E) <=> d + 1 \in 1..Len(table) /\ HasSubstring(Lower(table[d + 1][1]), t)

\* The pairs come in the order of the rows, and are those of the rows.
LEMMA Visited ==
    ASSUME NEW table \in Seq(Text \X Int)
    PROVE  EventsOf(visit(table), table)
<1> DEFINE n == Len(table)
           ss == [r \in 1..n |-> PairsOf(table[r], r - 1)]
           E == visit(table)
<1>1. n \in Nat /\ DOMAIN table = 1..n /\ \A r \in 1..n : table[r] \in Text \X Int /\ r - 1 \in Nat
  OBVIOUS
<1>2. E = FlattenSeq(ss)
  BY <1>1, Zenon DEF visit, PairsOf
<1>3. \A r \in 1..n : /\ PairsOf(table[r], r - 1) \in Seq(Event)
                      /\ \A i \in 1..Len(PairsOf(table[r], r - 1)) : PairsOf(table[r], r - 1)[i][2] = r - 1
                      /\ \A t \in Trigram, d \in Nat : <<t, d>> \in ToSet(PairsOf(table[r], r - 1))
                             <=> d = r - 1 /\ HasSubstring(Lower(table[r][1]), t)
  <2> HIDE DEF n
  <2> QED BY <1>1, RowPairs
<1>4. ss \in Seq(Seq(Event)) /\ Len(ss) = n /\ \A r \in 1..n : ss[r] = PairsOf(table[r], r - 1)
  <2> HIDE DEF n
  <2> QED BY <1>1, <1>3
<1> HIDE DEF ss, n
<1>5. E \in Seq(Event) /\ \A x : x \in ToSet(E) <=> \E r \in 1..n : x \in ToSet(ss[r])
  BY <1>2, <1>4, FlattenElements
<1>6. ASSUME NEW t \in Trigram, NEW d \in Nat
      PROVE  <<t, d>> \in ToSet(E) <=> d + 1 \in 1..n /\ HasSubstring(Lower(table[d + 1][1]), t)
  <2>1. <<t, d>> \in ToSet(E) <=> \E r \in 1..n : d = r - 1 /\ HasSubstring(Lower(table[r][1]), t)
    BY <1>3, <1>4, <1>5
  <2>2. \A r \in 1..n : d = r - 1 <=> r = d + 1
    BY <1>1
  <2> QED BY <2>1, <2>2
<1>7. PICK h : FlatStages(h, ss, Event)
  BY <1>4, FlattenStages
<1>8. h[0] = <<>> /\ h[n] = E /\ \A k \in 1..n : h[k] = h[k - 1] \o ss[k] /\ h[k - 1] \in Seq(Event) /\ ss[k] \in Seq(Event)
  <2>1. \A k \in 1..n : k - 1 \in 0..n
    BY <1>1
  <2> QED BY <1>2, <1>3, <1>4, <1>7, <2>1 DEF FlatStages
<1> DEFINE Up_(q, k) == /\ \A i \in 1..Len(q) : q[i][2] < k
                        /\ \A i, j \in 1..Len(q) : i < j => q[i][2] <= q[j][2]
           R == {k \in 0..n : Up_(h[k], k)}
<1>9. 0 \in R
  BY <1>1, <1>8
<1>10. ASSUME NEW k \in 1..n, k - 1 \in R
       PROVE  k \in R
  <2> DEFINE q == h[k - 1]
             u == ss[k]
             c == q \o u
  <2>1. Up_(q, k - 1)
    BY <1>10
  <2>2. h[k] = c /\ q \in Seq(Event) /\ u \in Seq(Event)
    BY <1>8
  <2>3. \A i \in 1..Len(u) : u[i][2] = k - 1
    BY <1>3, <1>4
  <2> HIDE DEF q, u, c, R
  <2>4. /\ Len(c) = Len(q) + Len(u) /\ Len(q) \in Nat /\ Len(u) \in Nat
        /\ \A i \in 1..Len(q) : c[i] = q[i]
        /\ \A i \in (Len(q) + 1)..(Len(q) + Len(u)) : c[i] = u[i - Len(q)]
    BY <2>2, ConcatAt DEF c
  <2>5. \A i \in 1..Len(q) : q[i][2] \in Nat /\ q[i][2] < k - 1
    BY <2>1, <2>2 DEF Event
  <2>6. ASSUME NEW i \in 1..Len(c)
        PROVE  c[i][2] \in Nat /\ c[i][2] < k /\ (i <= Len(q) => c[i][2] = q[i][2]) /\ (i > Len(q) => c[i][2] = k - 1)
    <3>1. CASE i <= Len(q)
      BY <1>1, <2>4, <2>5, <3>1
    <3>2. CASE i > Len(q)
      <4>1. i \in (Len(q) + 1)..(Len(q) + Len(u)) /\ i - Len(q) \in 1..Len(u)
        BY <2>4, <3>2
      <4>2. c[i][2] = k - 1
        BY <2>3, <2>4, <4>1
      <4> QED BY <1>1, <3>2, <4>2
    <3> QED BY <2>4, <3>1, <3>2
  <2>7. ASSUME NEW i \in 1..Len(c), NEW j \in 1..Len(c), i < j
        PROVE  c[i][2] <= c[j][2]
    <3>1. CASE j <= Len(q)
      <4>1. i \in 1..Len(q) /\ j \in 1..Len(q)
        BY <2>4, <2>7, <3>1
      <4> QED BY <2>1, <2>4, <2>7, <4>1
    <3>2. CASE j > Len(q)
      <4>1. c[j][2] = k - 1 /\ c[i][2] < k /\ c[i][2] \in Nat
        BY <2>6, <3>2
      <4> QED BY <4>1
    <3> QED BY <2>4, <3>1, <3>2
  <2>8. Up_(c, k)
    BY <2>6, <2>7
  <2>9. k \in 0..n
    BY <1>1
  <2> QED BY <2>2, <2>8, <2>9 DEF R
<1>11. n \in R
  <2> HIDE DEF R
  <2>1. \A k \in 0..n : k \in R
    BY <1>1, <1>9, <1>10, UpTo
  <2>2. n \in 0..n
    BY <1>1
  <2> QED BY <2>1, <2>2
<1> HIDE DEF E
<1>12. \A i, j \in 1..Len(E) : i < j => E[i][2] <= E[j][2]
  BY <1>8, <1>11
<1>13. EventsOf(E, table)
  BY <1>5, <1>6, <1>12 DEF EventsOf, n
<1> QED BY <1>13 DEF E

-----------------------------------------------------------------------------
(* Variable-length numbers.                                                *)

\* The quotient by the base gets smaller.
LEMMA Quotient ==
    ASSUME NEW x \in Nat
    PROVE  /\ x \div VARINT_BASE \in Nat /\ x % VARINT_BASE \in 0..(VARINT_BASE - 1)
           /\ x = VARINT_BASE * (x \div VARINT_BASE) + (x % VARINT_BASE)
           /\ x >= VARINT_BASE => x \div VARINT_BASE < x
           /\ (VARINT_BASE + (x % VARINT_BASE)) % VARINT_BASE = x % VARINT_BASE
           /\ x < VARINT_BASE => x % VARINT_BASE = x
<1> DEFINE y == VARINT_BASE
           d == x \div y
           r == x % y
<1>1. y \in Nat /\ y >= 2
  BY SearchAssumption
<1>2. d \in Nat /\ r \in 0..(y - 1) /\ x = y * d + r
  BY <1>1
<1> HIDE DEF y, d, r
<1>3. ASSUME x >= y
      PROVE  d < x
  <2>1. d # 0
    BY <1>1, <1>2, <1>3
  <2>2. y * d >= 2 * d
    BY <1>1, <1>2
  <2> QED BY <1>1, <1>2, <2>1, <2>2
<1>4. (y + r) % y = r
  BY <1>1, <1>2
<1>5. x < y => x % y = x
  BY <1>1
<1> QED BY <1>2, <1>3, <1>4, <1>5 DEF y, d, r

VarRule(e, v) ==
    /\ e \in [0..v -> Seq(Nat)]
    /\ \A x \in 0..v : e[x] = IF x < VARINT_BASE THEN <<x>>
                              ELSE <<VARINT_BASE + (x % VARINT_BASE)>> \o e[x \div VARINT_BASE]

\* The encodings have a table.
LEMMA VarintTable ==
    ASSUME NEW v \in Nat
    PROVE  \E e : VarRule(e, v) /\ write_varint(v) = e[v]
<1> DEFINE y == VARINT_BASE
           D == 0..v
           S == Seq(Nat)
           rank == [x \in D |-> x]
           N == v + 1
           Body(f, x) == IF x < y THEN <<x>> ELSE <<y + (x % y)>> \o f[x \div y]
           T == [q \in D \X [D -> S] |-> Body(q[2], q[1])]
           E(f) == f = [x \in 0..v |-> IF x < y THEN <<x>> ELSE <<y + (x % y)>> \o f[x \div y]]
           it == CHOOSE f : E(f)
<1>0. y \in Nat /\ y >= 2
  BY SearchAssumption
<1>1. \A x \in D : /\ x \in Nat /\ y + (x % y) \in Nat
                   /\ x >= y => x \div y \in D /\ x \div y < x
  <2>1. ASSUME NEW x \in D
        PROVE  x \in Nat /\ y + (x % y) \in Nat /\ (x >= y => x \div y \in D /\ x \div y < x)
    <3>1. x \in Nat /\ x <= v
      OBVIOUS
    <3>2. x \div y \in Nat /\ x % y \in 0..(y - 1) /\ (x >= y => x \div y < x)
      BY <3>1, Quotient
    <3> DEFINE d == x \div y
               r == x % y
    <3> HIDE DEF d, r
    <3>3. d \in Nat /\ r \in 0..(y - 1) /\ (x >= y => d < x)
      BY <3>2 DEF d, r
    <3>4. y + r \in Nat /\ (x >= y => d \in 0..v /\ d < x)
      BY <1>0, <3>1, <3>3
    <3> QED BY <3>1, <3>4 DEF d, r
  <2> QED BY <2>1
<1>2. \A x \in D, f \in [D -> S] : Body(f, x) \in S
  <2>1. ASSUME NEW x \in D, NEW f \in [D -> S]
        PROVE  Body(f, x) \in S
    <3>1. CASE x < y
      BY <1>1, <3>1
    <3>2. CASE ~ (x < y)
      <4>1. x >= y
        BY <1>0, <3>2
      <4>2. f[x \div y] \in Seq(Nat) /\ y + (x % y) \in Nat
        <5> HIDE DEF D
        <5> QED BY <1>1, <4>1
      <4> DEFINE a == f[x \div y]
                 b == y + (x % y)
      <4>3. Body(f, x) = <<b>> \o a
        BY <3>2
      <4> HIDE DEF a, b
      <4>4. <<b>> \o a \in Seq(Nat)
        BY <4>2 DEF a, b
      <4> QED BY <4>3, <4>4
    <3> QED BY <3>1, <3>2
  <2> QED BY <2>1
<1>3. \A x \in D, f \in [D -> S] : T[<<x, f>>] = Body(f, x)
  <2> HIDE DEF D, S, Body
  <2> QED OBVIOUS
<1>4. T \in [D \X [D -> S] -> S]
  <2>1. \A q \in D \X [D -> S] : Body(q[2], q[1]) \in S
    <3> HIDE DEF D, S, Body
    <3> QED BY <1>2
  <2> HIDE DEF D, S, Body
  <2> QED BY <2>1
<1>5. ASSUME NEW x \in D, NEW f \in [D -> S], NEW g \in [D -> S],
             \A z \in D : rank[z] < rank[x] => f[z] = g[z]
      PROVE  Body(f, x) = Body(g, x)
  <2>1. CASE x < y
    BY <2>1
  <2>2. CASE ~ (x < y)
    <3>1. x \div y \in D /\ x \div y < x
      <4>1. x >= y
        <5>1. x \in Nat
          OBVIOUS
        <5> HIDE DEF y
        <5> QED BY <1>0, <2>2, <5>1
      <4> HIDE DEF D, y
      <4> QED BY <1>1, <4>1
    <3>2. rank[x \div y] = x \div y /\ rank[x] = x
      <4> HIDE DEF D
      <4> QED BY <3>1
    <3>3. f[x \div y] = g[x \div y]
      <4> HIDE DEF D, rank
      <4> QED BY <1>5, <3>1, <3>2
    <3> QED BY <2>2, <3>3
  <2> QED BY <2>1, <2>2
<1>6. LowerOnly(D, S, rank, N, T)
  <2>1. S # {} /\ N \in Nat
    <3>1. <<>> \in S
      OBVIOUS
    <3>2. N \in Nat
      OBVIOUS
    <3> HIDE DEF S, N
    <3> QED BY <3>1, <3>2
  <2>2. rank \in [D -> Nat] /\ \A x \in D : rank[x] < N
    OBVIOUS
  <2>3. \A x \in D : \A f, g \in [D -> S] :
          (\A z \in D : rank[z] < rank[x] => f[z] = g[z]) => T[<<x, f>>] = T[<<x, g>>]
    <3> HIDE DEF D, S, rank, T, Body
    <3> QED BY <1>3, <1>5
  <2> HIDE DEF D, S, rank, T, N
  <2> QED BY <1>4, <2>1, <2>2, <2>3 DEF LowerOnly
<1>7. PICK f \in [D -> S] : \A x \in D : f[x] = T[<<x, f>>]
  <2> HIDE DEF D, S, rank, T, N
  <2> QED BY <1>6, Recursion
<1>8. \A x \in D : f[x] = Body(f, x)
  <2> HIDE DEF D, S, T, Body
  <2> QED BY <1>3, <1>7
<1>9. E(f)
  <2>1. f = [x \in D |-> f[x]]
    <3> HIDE DEF D, S
    <3> QED BY <1>7
  <2> QED BY <1>8, <2>1, Zenon
<1>10. E(it)
  <2> HIDE DEF E
  <2> QED BY <1>9
<1>11. write_varint(v) = it[v]
  BY Zenon DEF write_varint
<1> HIDE DEF it
<1>12. \A x \in D : it[x] = Body(it, x)
  <2>1. it = [x \in D |-> Body(it, x)]
    BY <1>10
  <2> HIDE DEF D, Body
  <2> QED BY <2>1
<1>13. \A x \in D : it[x] \in S
  <2> DEFINE Q == {m \in Nat : \A x \in D : x < m => it[x] \in S}
  <2>1. 0 \in Q
    OBVIOUS
  <2>2. ASSUME NEW m \in Nat, m \in Q
        PROVE  m + 1 \in Q
    <3>1. ASSUME NEW x \in D, x < m + 1
          PROVE  it[x] \in S
      <4>1. CASE x < y
        <5>1. it[x] = <<x>>
          BY <1>12, <4>1
        <5> QED BY <1>1, <5>1
      <4>2. CASE ~ (x < y)
        <5>1. x \div y \in D /\ x \div y < x /\ y + (x % y) \in Nat
          <6>1. x >= y
            <7>1. x \in Nat
              OBVIOUS
            <7> HIDE DEF y
            <7> QED BY <1>0, <4>2, <7>1
          <6> HIDE DEF D, y
          <6> QED BY <1>1, <6>1
        <5>2. x \div y < m
          <6> DEFINE d == x \div y
          <6>1. d \in D /\ d < x
            BY <5>1
          <6> HIDE DEF d
          <6>2. d < m
            BY <3>1, <6>1
          <6> QED BY <6>2 DEF d
        <5>3. it[x \div y] \in S
          BY <2>2, <5>1, <5>2
        <5>4. it[x] = <<y + (x % y)>> \o it[x \div y]
          BY <1>12, <4>2
        <5> DEFINE a == it[x \div y]
                   b == y + (x % y)
        <5> HIDE DEF a, b
        <5>5. a \in Seq(Nat) /\ b \in Nat /\ it[x] = <<b>> \o a
          BY <5>1, <5>3, <5>4 DEF a, b
        <5> QED BY <5>5
      <4> QED BY <4>1, <4>2
    <3> QED BY <3>1
  <2>3. \A m \in Nat : m \in Q
    <3> HIDE DEF Q
    <3> QED BY <2>1, <2>2, NatSetInduction
  <2>4. \A x \in D : x + 1 \in Nat /\ x < x + 1
    OBVIOUS
  <2> HIDE DEF D, S
  <2> QED BY <2>3, <2>4
<1>14. it \in [0..v -> Seq(Nat)]
  <2>1. it = [x \in D |-> Body(it, x)]
    BY <1>10
  <2>2. it = [x \in D |-> it[x]]
    <3> HIDE DEF D, Body
    <3> QED BY <2>1
  <2> QED BY <1>13, <2>2
<1>15. VarRule(it, v)
  BY <1>12, <1>14 DEF VarRule
<1> QED BY <1>11, <1>15

\* The bytes s stand for the number x: the last one is below the base, the
\* others are not, and u gives the values of the rests.
EncodedBy(s, x, u) ==
    /\ s \in Seq(Nat) /\ Len(s) >= 1 /\ s[Len(s)] < VARINT_BASE
    /\ \A j \in 1..(Len(s) - 1) : s[j] >= VARINT_BASE
    /\ u \in [0..Len(s) -> Nat] /\ u[0] = x /\ u[Len(s)] = 0
    /\ \A k \in 0..(Len(s) - 1) : u[k] = (s[k + 1] % VARINT_BASE) + VARINT_BASE * u[k + 1]

Encoded(s, x) == \E u : EncodedBy(s, x, u)

\* Induction over all smaller numbers.
LEMMA StrongInduction ==
    ASSUME NEW S, \A n \in Nat : (\A m \in Nat : m < n => m \in S) => n \in S
    PROVE  \A n \in Nat : n \in S
<1> DEFINE C == {n \in Nat : n \notin S}
<1>1. C \in SUBSET Nat
  OBVIOUS
<1>2. ASSUME C # {}
      PROVE  FALSE
  <2> HIDE DEF C
  <2>1. PICK m \in C : \A n \in C : m <= n
    BY <1>1, <1>2, LeastNat
  <2>2. m \in Nat
    BY <1>1, <2>1
  <2>3. \A k \in Nat : k < m => k \notin C
    BY <2>1, <2>2
  <2>4. \A k \in Nat : k < m => k \in S
    BY <2>3 DEF C
  <2>5. m \in S
    BY <2>2, <2>4
  <2> QED BY <2>1, <2>5 DEF C
<1> QED BY <1>2

\* One byte.
LEMMA OneByte ==
    ASSUME NEW x \in Nat, x < VARINT_BASE
    PROVE  Encoded(<<x>>, x)
<1> DEFINE s == <<x>>
           u == [k \in 0..1 |-> IF k = 0 THEN x ELSE 0]
           b == VARINT_BASE
<1>1. b \in Nat /\ b >= 2 /\ x % b = x
  BY SearchAssumption, Quotient
<1>2. s \in Seq(Nat) /\ Len(s) = 1 /\ s[1] = x
  OBVIOUS
<1>3. u \in [0..1 -> Nat] /\ u[0] = x /\ u[1] = 0
  OBVIOUS
<1> HIDE DEF s, u, b
<1>4. \A k \in 0..0 : u[k] = (s[k + 1] % b) + b * u[k + 1]
  <2>1. u[0] = (s[0 + 1] % b) + b * u[0 + 1]
    <3>1. b * 0 = 0
      BY <1>1
    <3>2. s[0 + 1] = x /\ u[0 + 1] = 0
      BY <1>2, <1>3
    <3> QED BY <1>1, <1>3, <3>1, <3>2
  <2>2. \A k \in 0..0 : k = 0
    OBVIOUS
  <2> QED BY <2>1, <2>2, Zenon
<1>5. x < b
  BY DEF b
<1>6. EncodedBy(s, x, u)
  <2>1. \A j \in 1..(Len(s) - 1) : s[j] >= b
    BY <1>2
  <2>2. /\ s \in Seq(Nat) /\ Len(s) >= 1 /\ s[Len(s)] < b
        /\ u \in [0..Len(s) -> Nat] /\ u[0] = x /\ u[Len(s)] = 0
    BY <1>2, <1>3, <1>5
  <2>3. \A k \in 0..(Len(s) - 1) : u[k] = (s[k + 1] % b) + b * u[k + 1]
    BY <1>2, <1>4
  <2> QED BY <2>1, <2>2, <2>3 DEF EncodedBy, b
<1> QED BY <1>6 DEF Encoded, s

\* One byte more.
LEMMA MoreBytes ==
    ASSUME NEW x \in Nat, x >= VARINT_BASE, NEW t, Encoded(t, x \div VARINT_BASE)
    PROVE  Encoded(<<VARINT_BASE + (x % VARINT_BASE)>> \o t, x)
<1> DEFINE b == VARINT_BASE
           y == x \div b
           d == b + (x % b)
           s == <<d>> \o t
<1>1. b \in Nat /\ b >= 2 /\ y \in Nat /\ x = b * y + (x % b) /\ d % b = x % b /\ d \in Nat /\ d >= b /\ x % b \in Nat
  <2>1. b \in Nat /\ b >= 2
    BY SearchAssumption
  <2>2. y \in Nat /\ x = b * y + (x % b) /\ d % b = x % b /\ x % b \in 0..(b - 1)
    BY Quotient
  <2> DEFINE r == x % b
  <2>3. r \in Nat
    <3>1. r \in 0..(b - 1)
      BY <2>2
    <3> HIDE DEF r, b
    <3> QED BY <2>1, <3>1
  <2>4. d = b + r
    OBVIOUS
  <2> HIDE DEF r, b, d
  <2>5. d \in Nat /\ d >= b
    BY <2>1, <2>3, <2>4
  <2> QED BY <2>1, <2>2, <2>3, <2>5 DEF r
<1>2. PICK w : EncodedBy(t, y, w)
  BY DEF Encoded
<1>3. /\ t \in Seq(Nat) /\ Len(t) >= 1 /\ t[Len(t)] < b
      /\ \A j \in 1..(Len(t) - 1) : t[j] >= b
      /\ w \in [0..Len(t) -> Nat] /\ w[0] = y /\ w[Len(t)] = 0
      /\ \A k \in 0..(Len(t) - 1) : w[k] = (t[k + 1] % b) + b * w[k + 1]
  BY <1>2 DEF EncodedBy
<1> DEFINE n == Len(t)
<1>4. n \in Nat /\ n >= 1
  BY <1>3
<1> HIDE DEF b, y, d
<1>5. s \in Seq(Nat) /\ Len(s) = n + 1 /\ s[1] = d /\ \A i \in 1..n : s[i + 1] = t[i]
  BY <1>1, <1>3, ConsSeq
<1> DEFINE u == [k \in 0..(n + 1) |-> IF k = 0 THEN x ELSE w[k - 1]]
<1>6. u \in [0..(n + 1) -> Nat] /\ u[0] = x /\ u[1] = y /\ \A k \in 1..(n + 1) : u[k] = w[k - 1]
  BY <1>3, <1>4
<1> HIDE DEF s, n, u
<1>7. ASSUME NEW k \in 0..n
      PROVE  u[k] = (s[k + 1] % b) + b * u[k + 1]
  <2>1. CASE k = 0
    <3>1. s[k + 1] = d /\ u[k + 1] = y /\ u[k] = x
      BY <1>5, <1>6, <2>1
    <3>2. x = (d % b) + b * y
      <4> DEFINE r == x % b
                 p == b * y
      <4>1. d % b = r /\ x = p + r /\ r \in Nat /\ p \in Nat
        BY <1>1
      <4> HIDE DEF r, p
      <4>2. x = (d % b) + p
        BY <4>1
      <4> QED BY <4>2 DEF p
    <3> QED BY <3>1, <3>2
  <2>2. CASE k # 0
    <3>1. k - 1 \in 0..(n - 1) /\ (k - 1) + 1 = k /\ k \in 1..n /\ k + 1 \in 1..(n + 1) /\ (k + 1) - 1 = k /\ k \in 1..(n + 1)
      BY <1>4, <2>2
    <3>2. w[k - 1] = (t[k] % b) + b * w[k]
      BY <1>3, <3>1 DEF n
    <3>3. u[k] = w[k - 1] /\ u[k + 1] = w[k] /\ s[k + 1] = t[k]
      BY <1>5, <1>6, <3>1
    <3> QED BY <3>2, <3>3
  <2> QED BY <2>1, <2>2
<1>8. /\ Len(s) >= 1 /\ s[Len(s)] < b
      /\ \A j \in 1..(Len(s) - 1) : s[j] >= b
      /\ u[Len(s)] = 0
  <2>1. s[n + 1] = t[n] /\ u[n + 1] = w[n]
    BY <1>4, <1>5, <1>6
  <2>2. ASSUME NEW j \in 1..n
        PROVE  s[j] >= b
    <3>1. CASE j = 1
      BY <1>1, <1>5, <3>1
    <3>2. CASE j # 1
      <4>1. j - 1 \in 1..(n - 1) /\ j - 1 \in 1..n /\ (j - 1) + 1 = j
        BY <1>4, <3>2
      <4>2. s[j] = t[j - 1]
        BY <1>5, <4>1
      <4> QED BY <1>3, <4>1, <4>2 DEF n
    <3> QED BY <3>1, <3>2
  <2>3. (n + 1) - 1 = n /\ Len(s) - 1 = n
    BY <1>4, <1>5
  <2> QED BY <1>3, <1>4, <1>5, <2>1, <2>2, <2>3 DEF n
<1>9. EncodedBy(s, x, u)
  <2>1. Len(s) - 1 = n
    BY <1>4, <1>5
  <2>2. \A k \in 0..(Len(s) - 1) : u[k] = (s[k + 1] % b) + b * u[k + 1]
    BY <1>7, <2>1
  <2>3. u \in [0..Len(s) -> Nat] /\ u[0] = x /\ s \in Seq(Nat)
    BY <1>5, <1>6
  <2> QED BY <1>8, <2>2, <2>3 DEF EncodedBy, b
<1>10. Encoded(s, x)
  BY <1>9 DEF Encoded
<1> QED BY <1>10 DEF s, d, b

\* Every number is written as bytes that stand for it.
LEMMA VarintWritten ==
    ASSUME NEW v \in Nat
    PROVE  Encoded(write_varint(v), v)
<1>1. PICK e : VarRule(e, v) /\ write_varint(v) = e[v]
  BY VarintTable
<1> DEFINE S == {x \in Nat : x <= v => Encoded(e[x], x)}
<1>2. ASSUME NEW x \in Nat, \A m \in Nat : m < x => m \in S
      PROVE  x \in S
  <2> SUFFICES ASSUME x <= v PROVE Encoded(e[x], x)
    OBVIOUS
  <2>1. x \in 0..v
    OBVIOUS
  <2>2. CASE x < VARINT_BASE
    <3>1. e[x] = <<x>>
      BY <1>1, <2>1, <2>2 DEF VarRule
    <3> QED BY <2>2, <3>1, OneByte
  <2>3. CASE ~ (x < VARINT_BASE)
    <3>1. e[x] = <<VARINT_BASE + (x % VARINT_BASE)>> \o e[x \div VARINT_BASE]
      BY <1>1, <2>1, <2>3 DEF VarRule
    <3>2. x >= VARINT_BASE
      BY <2>3, SearchAssumption
    <3> DEFINE y == x \div VARINT_BASE
    <3>3. y \in Nat /\ y < x
      BY <3>2, Quotient
    <3> HIDE DEF y
    <3>4. y <= v
      BY <3>3
    <3>5. Encoded(e[y], y)
      BY <1>2, <3>3, <3>4
    <3> QED BY <3>1, <3>2, <3>5, MoreBytes DEF y
  <2> QED BY <2>2, <2>3
<1> HIDE DEF S
<1>3. v \in S
  BY <1>2, StrongInduction
<1>4. v <= v
  OBVIOUS
<1> QED BY <1>1, <1>3, <1>4 DEF S

\* The sizing counts the bytes that are written.
LEMMA VarintSized ==
    ASSUME NEW v \in Nat
    PROVE  varint_len(v) = Len(write_varint(v))
<1>1. PICK e : VarRule(e, v) /\ write_varint(v) = e[v]
  BY VarintTable
<1> DEFINE D == 0..v
           Body(f, x) == IF x < VARINT_BASE THEN 1 ELSE 1 + f[x \div VARINT_BASE]
           E(f) == f = [x \in D |-> Body(f, x)]
           it == CHOOSE f : E(f)
           w == [x \in D |-> Len(e[x])]
<1>2. ASSUME NEW x \in D
      PROVE  /\ x < VARINT_BASE => Len(e[x]) = 1
             /\ ~ (x < VARINT_BASE) => x \div VARINT_BASE \in D /\ x \div VARINT_BASE < x /\ Len(e[x]) = 1 + Len(e[x \div VARINT_BASE])
  <2>1. CASE x < VARINT_BASE
    <3>1. e[x] = <<x>>
      BY <1>1, <2>1 DEF VarRule
    <3> QED BY <2>1, <3>1
  <2>2. CASE ~ (x < VARINT_BASE)
    <3> DEFINE y == x \div VARINT_BASE
               d == VARINT_BASE + (x % VARINT_BASE)
    <3>1. e[x] = <<d>> \o e[y]
      BY <1>1, <2>2 DEF VarRule
    <3>2. x \in Nat /\ x >= VARINT_BASE /\ x <= v
      BY <2>2, SearchAssumption
    <3>3. y \in Nat /\ y < x
      BY <3>2, Quotient
    <3>4. d \in Nat
      <4>1. x % VARINT_BASE \in 0..(VARINT_BASE - 1)
        BY <3>2, Quotient
      <4> DEFINE r == x % VARINT_BASE
      <4> HIDE DEF r
      <4>2. r \in Nat
        BY <4>1, SearchAssumption DEF r
      <4>3. VARINT_BASE + r \in Nat
        BY <4>2, SearchAssumption
      <4> QED BY <4>3 DEF r
    <3> HIDE DEF y, d
    <3>5. y \in D
      BY <3>2, <3>3
    <3>6. e[y] \in Seq(Nat)
      BY <1>1, <3>5 DEF VarRule
    <3>7. Len(<<d>> \o e[y]) = Len(e[y]) + 1 /\ Len(e[y]) \in Nat
      BY <3>4, <3>6, ConsSeq
    <3>8. Len(e[x]) = 1 + Len(e[y])
      BY <3>1, <3>7
    <3> QED BY <2>2, <3>3, <3>5, <3>8 DEF y
  <2> QED BY <2>1, <2>2
<1>3. E(w)
  <2>1. ASSUME NEW x \in D
        PROVE  Len(e[x]) = Body(w, x)
    <3>1. CASE x < VARINT_BASE
      BY <1>2, <3>1
    <3>2. CASE ~ (x < VARINT_BASE)
      <4> DEFINE y == x \div VARINT_BASE
      <4>1. y \in D /\ Len(e[x]) = 1 + Len(e[y])
        BY <1>2, <3>2
      <4> HIDE DEF y, D
      <4>2. w[y] = Len(e[y])
        BY <4>1
      <4>3. Body(w, x) = 1 + w[y]
        BY <3>2 DEF y
      <4> QED BY <4>1, <4>2, <4>3
    <3> QED BY <3>1, <3>2
  <2>2. w = [x \in D |-> Body(w, x)]
    <3>1. \A x \in D : Len(e[x]) = Body(w, x)
      BY <2>1
    <3> HIDE DEF D, Body
    <3> QED BY <3>1
  <2> QED BY <2>2, Zenon
<1>4. E(it)
  <2> HIDE DEF E
  <2> QED BY <1>3
<1>5. varint_len(v) = it[v]
  BY Zenon DEF varint_len
<1> HIDE DEF it
<1>6. \A x \in D : it[x] = Body(it, x)
  <2>1. it = [x \in D |-> Body(it, x)]
    BY <1>4
  <2> HIDE DEF D, Body
  <2> QED BY <2>1
<1> DEFINE S == {x \in Nat : x <= v => it[x] = Len(e[x])}
<1>7. ASSUME NEW x \in Nat, \A m \in Nat : m < x => m \in S
      PROVE  x \in S
  <2> SUFFICES ASSUME x <= v PROVE it[x] = Len(e[x])
    OBVIOUS
  <2>1. x \in D
    OBVIOUS
  <2>2. CASE x < VARINT_BASE
    BY <1>2, <1>6, <2>1, <2>2
  <2>3. CASE ~ (x < VARINT_BASE)
    <3> DEFINE y == x \div VARINT_BASE
    <3>1. y \in D /\ y < x /\ Len(e[x]) = 1 + Len(e[y])
      BY <1>2, <2>1, <2>3
    <3>2. it[x] = 1 + it[y]
      BY <1>6, <2>1, <2>3
    <3> HIDE DEF y
    <3>3. y \in Nat /\ y <= v
      BY <3>1
    <3>4. it[y] = Len(e[y])
      BY <1>7, <3>1, <3>3
    <3> QED BY <3>1, <3>2, <3>4
  <2> QED BY <2>2, <2>3
<1> HIDE DEF S
<1>8. v \in S
  BY <1>7, StrongInduction
<1>9. v <= v
  OBVIOUS
<1> QED BY <1>1, <1>5, <1>8, <1>9 DEF S

\* The cells of post from offset pos on begin with s.
HoldsAt(post, pos, s) ==
    /\ pos \in Nat /\ Len(post) \in Nat /\ pos + Len(s) <= Len(post)
    /\ \A i \in 1..Len(s) : post[pos + i] = s[i]

\* Reading gives back the number written.
LEMMA VarintRead ==
    ASSUME NEW post, NEW pos, NEW s, NEW x, Encoded(s, x), HoldsAt(post, pos, s)
    PROVE  read_varint(post, pos) = <<x, Len(s)>>
<1> DEFINE b == VARINT_BASE
           m == Len(s)
           P(k) == post[pos + k] < b /\ \A j \in 1..(k - 1) : post[pos + j] >= b
           n == CHOOSE k \in 1..(Len(post) - pos) : P(k)
           Body(f, k) == IF k = n THEN 0 ELSE (post[pos + k + 1] % b) + b * f[k + 1]
           E(f) == f = [k \in 0..n |-> Body(f, k)]
           it == CHOOSE f : E(f)
<1>1. PICK u : EncodedBy(s, x, u)
  BY DEF Encoded
<1>2. /\ s \in Seq(Nat) /\ m \in Nat /\ m >= 1 /\ s[m] < b
      /\ \A j \in 1..(m - 1) : s[j] >= b
      /\ u \in [0..m -> Nat] /\ u[0] = x /\ u[m] = 0
      /\ \A k \in 0..(m - 1) : u[k] = (s[k + 1] % b) + b * u[k + 1]
  BY <1>1 DEF EncodedBy
<1>3. pos \in Nat /\ Len(post) \in Nat /\ pos + m <= Len(post) /\ \A i \in 1..m : post[pos + i] = s[i]
  BY DEF HoldsAt
<1>4. b \in Nat /\ b >= 2
  BY SearchAssumption
<1>5. n = m
  <2>1. m \in 1..(Len(post) - pos) /\ P(m)
    <3>1. m \in 1..(Len(post) - pos) /\ m \in 1..m
      BY <1>2, <1>3
    <3>2. post[pos + m] = s[m]
      BY <1>3, <3>1
    <3>3. ASSUME NEW j \in 1..(m - 1)
          PROVE  post[pos + j] >= b
      <4>1. j \in 1..m
        BY <1>2
      <4>2. post[pos + j] = s[j] /\ s[j] >= b
        BY <1>2, <1>3, <4>1
      <4> QED BY <4>2
    <3> QED BY <1>2, <3>1, <3>2, <3>3
  <2>2. ASSUME NEW k \in 1..(Len(post) - pos), P(k)
        PROVE  k = m
    <3>1. CASE k < m
      <4>1. k \in 1..(m - 1) /\ k \in 1..m
        BY <1>2, <3>1
      <4>2. post[pos + k] = s[k] /\ s[k] >= b /\ s[k] \in Nat
        BY <1>2, <1>3, <4>1, SMTT(30)
      <4>3. s[k] < b
        BY <2>2, <4>2
      <4> QED BY <1>4, <4>2, <4>3
    <3>2. CASE m < k
      <4>1. m \in 1..(k - 1) /\ m \in 1..m
        BY <1>2, <3>2
      <4>2. post[pos + m] >= b
        BY <2>2, <4>1
      <4>3. post[pos + m] = s[m] /\ s[m] \in Nat
        BY <1>2, <1>3, <4>1
      <4> QED BY <1>2, <1>4, <4>2, <4>3
    <3> QED BY <1>2, <3>1, <3>2
  <2> HIDE DEF P
  <2>3. n \in 1..(Len(post) - pos) /\ P(n)
    BY <2>1
  <2> HIDE DEF n
  <2> QED BY <2>2, <2>3
<1> HIDE DEF n
<1>6. ASSUME NEW k \in 0..m
      PROVE  u[k] = Body(u, k)
  <2>1. CASE k = m
    BY <1>2, <1>5, <2>1
  <2>2. CASE k # m
    <3>1. k \in 0..(m - 1) /\ k + 1 \in 1..m /\ pos + k + 1 = pos + (k + 1)
      BY <1>2, <1>3, <2>2
    <3>2. post[pos + k + 1] = s[k + 1]
      BY <1>3, <3>1
    <3>3. u[k] = (s[k + 1] % b) + b * u[k + 1]
      BY <1>2, <3>1
    <3> QED BY <1>5, <2>2, <3>2, <3>3
  <2> QED BY <2>1, <2>2
<1>7. E(u)
  <2>1. u = [k \in 0..m |-> u[k]]
    BY <1>2
  <2> HIDE DEF Body, m
  <2>2. u = [k \in 0..n |-> Body(u, k)]
    BY <1>5, <1>6, <2>1
  <2> QED BY <2>2, Zenon
<1>8. E(it)
  <2> HIDE DEF E
  <2> QED BY <1>7
<1>9. read_varint(post, pos) = <<it[0], n>>
  BY Zenon DEF read_varint, n
<1> HIDE DEF it
<1>10. \A k \in 0..m : it[k] = Body(it, k)
  <2>1. it = [k \in 0..n |-> Body(it, k)]
    BY <1>8
  <2> HIDE DEF Body, m
  <2> QED BY <1>5, <2>1
<1> DEFINE S == {j \in Nat : j <= m => it[m - j] = u[m - j]}
<1>11. 0 \in S
  <2>1. m \in 0..m /\ m - 0 = m
    BY <1>2
  <2>2. it[m] = 0
    BY <1>5, <1>10, <2>1
  <2> QED BY <1>2, <2>1, <2>2
<1>12. ASSUME NEW j \in Nat, j \in S
       PROVE  j + 1 \in S
  <2> SUFFICES ASSUME j + 1 <= m PROVE it[m - (j + 1)] = u[m - (j + 1)]
    OBVIOUS
  <2> DEFINE k == m - (j + 1)
  <2>1. k \in 0..m /\ k # m /\ k + 1 = m - j /\ j <= m
    BY <1>2
  <2>2. it[k + 1] = u[k + 1]
    BY <1>12, <2>1
  <2>3. u[k] = Body(u, k) /\ it[k] = Body(it, k)
    BY <1>6, <1>10, <2>1
  <2> HIDE DEF k
  <2>4. Body(u, k) = Body(it, k)
    BY <2>2
  <2>5. it[k] = u[k]
    <3> HIDE DEF Body
    <3> QED BY <2>3, <2>4
  <2> QED BY <2>5 DEF k
<1> HIDE DEF S
<1>13. m \in S
  BY <1>2, <1>11, <1>12, NatSetInduction
<1>14. it[0] = u[0]
  <2>1. m - m = 0 /\ m <= m
    BY <1>2
  <2> QED BY <1>13, <2>1 DEF S
<1> QED BY <1>2, <1>5, <1>9, <1>14

-----------------------------------------------------------------------------
(* The two passes of the builder and the dictionary are folds; h[k] is the *)
(* state after k elements.                                                 *)

\* The largest of a set of numbers up to x that has x.
LEMMA MaxTop ==
    ASSUME NEW x \in Nat
    PROVE  \A s \in SUBSET (1..x) : x \in s => Max(s) = x
<1> SUFFICES ASSUME NEW s \in SUBSET (1..x), x \in s PROVE Max(s) = x
  OBVIOUS
<1>1. x \in s /\ \A y \in s : x >= y
  OBVIOUS
<1>2. \A m \in s : (\A y \in s : m >= y) => m = x
  <2>1. \A m \in s : m \in Nat /\ m <= x
    OBVIOUS
  <2> QED BY <2>1
<1> QED BY <1>1, <1>2 DEF Max

SizeRuns(h, n, q, z) ==
    /\ h[0] = z
    /\ \A k \in 1..n : h[k] = SizeOne(h[k - 1], q[k])
    /\ FoldLeft(SizeOne, z, q) = h[n]

\* The first pass, pair by pair.
LEMMA SizeRun ==
    ASSUME NEW n \in Nat, NEW q, DOMAIN q = 1..n, NEW z
    PROVE  \E h : SizeRuns(h, n, q, z)
<1> DEFINE Body(f, s) == IF s = {} THEN z ELSE SizeOne(f[s \ {Max(s)}], q[Max(s)])
           E(f) == f = [s \in SUBSET (DOMAIN q) |-> Body(f, s)]
           it == CHOOSE f : E(f)
           Ok(f, k) == /\ f = [s \in SUBSET (1..k) |-> f[s]] /\ f[{}] = z
                       /\ \A s \in SUBSET (1..k) : s # {} => f[s] = SizeOne(f[s \ {Max(s)}], q[Max(s)])
           Q == {k \in Nat : \E f : Ok(f, k)}
<1>1. FoldLeft(SizeOne, z, q) = it[DOMAIN q]
  BY Zenon DEF FoldLeft, MapThenFoldSet
<1>2. 0 \in Q
  <2> DEFINE f == [s \in SUBSET (1..0) |-> z]
  <2>1. {} \in SUBSET (1..0) /\ \A s \in SUBSET (1..0) : s = {}
    OBVIOUS
  <2>2. Ok(f, 0)
    <3>1. f[{}] = z
      BY <2>1
    <3>2. f = [s \in SUBSET (1..0) |-> f[s]]
      OBVIOUS
    <3> HIDE DEF f
    <3> QED BY <2>1, <3>1, <3>2, Zenon
  <2> HIDE DEF Ok, f
  <2> QED BY <2>2
<1>3. ASSUME NEW k \in Nat, k \in Q
      PROVE  k + 1 \in Q
  <2>1. PICK f : Ok(f, k)
    <3> HIDE DEF Ok
    <3> QED BY <1>3
  <2> DEFINE D == SUBSET (1..(k + 1))
             x == k + 1
             g == [s \in D |-> IF x \in s THEN SizeOne(f[s \ {x}], q[x]) ELSE f[s]]
  <2>2. /\ {} \in D /\ x \notin {}
        /\ \A s \in D : x \notin s => s \in SUBSET (1..k)
        /\ \A s \in D : s \ {x} \in SUBSET (1..k) /\ s \ {x} \in D /\ x \notin s \ {x}
        /\ \A s \in SUBSET (1..k) : s \in D /\ x \notin s
        /\ \A s \in SUBSET (1..k) : \A y : s \ {y} \in SUBSET (1..k)
    <3>1. 1..x = (1..k) \cup {x} /\ x \notin 1..k
      OBVIOUS
    <3>2. D = SUBSET ((1..k) \cup {x})
      BY <3>1
    <3> HIDE DEF x, D
    <3> QED BY <3>1, <3>2, Zenon
  <2>3. \A s \in D : x \in s => Max(s) = x
    <3>1. \A s \in D : x \in s => s \in SUBSET (1..x) /\ x \in s
      OBVIOUS
    <3>2. x \in Nat
      OBVIOUS
    <3> HIDE DEF D, x
    <3> QED BY <3>1, <3>2, MaxTop
  <2> HIDE DEF D, x
  <2>4. /\ \A s \in D : x \in s => g[s] = SizeOne(f[s \ {x}], q[x])
        /\ \A s \in D : x \notin s => g[s] = f[s]
    OBVIOUS
  <2>5. g = [s \in D |-> g[s]]
    OBVIOUS
  <2> HIDE DEF g
  <2>6. ASSUME NEW s \in D, s # {}
        PROVE  g[s] = SizeOne(g[s \ {Max(s)}], q[Max(s)])
    <3>1. CASE x \in s
      <4>1. Max(s) = x
        BY <2>3, <3>1
      <4>2. g[s \ {x}] = f[s \ {x}]
        BY <2>2, <2>4
      <4>3. g[s] = SizeOne(f[s \ {x}], q[x])
        BY <2>4, <3>1
      <4> QED BY <4>1, <4>2, <4>3, Zenon
    <3>2. CASE x \notin s
      <4>1. s \in SUBSET (1..k) /\ s \ {Max(s)} \in SUBSET (1..k)
        BY <2>2, <3>2
      <4>2. f[s] = SizeOne(f[s \ {Max(s)}], q[Max(s)])
        BY <2>1, <2>6, <4>1
      <4>3. g[s] = f[s] /\ g[s \ {Max(s)}] = f[s \ {Max(s)}]
        BY <2>2, <2>4, <3>2, <4>1
      <4> QED BY <4>2, <4>3, Zenon
    <3> QED BY <3>1, <3>2
  <2>7. g[{}] = z
    <3>1. g[{}] = f[{}]
      BY <2>2, <2>4
    <3> QED BY <2>1, <3>1
  <2>8. Ok(g, k + 1)
    BY <2>5, <2>6, <2>7, Zenon DEF D
  <2> HIDE DEF Ok
  <2> QED BY <2>8
<1>4. PICK f : Ok(f, n)
  <2> HIDE DEF Ok
  <2>1. n \in Q
    <3> HIDE DEF Q
    <3> QED BY <1>2, <1>3, NatSetInduction
  <2> QED BY <2>1
<1>5. E(f)
  <2>1. \A s \in SUBSET (1..n) : f[s] = Body(f, s)
    BY <1>4, Zenon
  <2>2. f = [s \in SUBSET (1..n) |-> f[s]]
    BY <1>4
  <2> HIDE DEF Body
  <2> QED BY <2>1, <2>2
<1>6. E(it)
  <2> HIDE DEF E
  <2> QED BY <1>5
<1> HIDE DEF it
<1>7. \A s \in SUBSET (1..n) : it[s] = Body(it, s)
  <2> HIDE DEF Body
  <2> QED BY <1>6
<1> DEFINE h == [k \in 0..n |-> it[1..k]]
<1>8. \A k \in 0..n : h[k] = it[1..k] /\ 1..k \in SUBSET (1..n)
  OBVIOUS
<1>9. h[0] = z
  <2>1. 0 \in 0..n /\ 1..0 = {} /\ {} \in SUBSET (1..n)
    OBVIOUS
  <2>2. h[0] = it[{}]
    <3> HIDE DEF h
    <3> QED BY <1>8, <2>1
  <2>3. it[{}] = Body(it, {})
    BY <1>7, <2>1
  <2> QED BY <2>2, <2>3, Zenon
<1>10. ASSUME NEW k \in 1..n
       PROVE  h[k] = SizeOne(h[k - 1], q[k])
  <2>1. k \in 0..n /\ k - 1 \in 0..n
    OBVIOUS
  <2>2. 1..k \in SUBSET (1..n) /\ 1..k # {} /\ Max(1..k) = k /\ (1..k) \ {k} = 1..(k - 1)
    BY MaxIndex
  <2>3. it[1..k] = Body(it, 1..k)
    BY <1>7, <2>2
  <2>4. h[k] = it[1..k] /\ h[k - 1] = it[1..(k - 1)]
    <3> HIDE DEF h
    <3> QED BY <1>8, <2>1
  <2> HIDE DEF h
  <2> QED BY <2>2, <2>3, <2>4, Zenon
<1>11. h[n] = it[DOMAIN q]
  <2>1. n \in 0..n
    OBVIOUS
  <2> HIDE DEF h
  <2> QED BY <1>8, <2>1
<1> HIDE DEF h
<1>12. SizeRuns(h, n, q, z)
  BY <1>1, <1>9, <1>10, <1>11, Zenon DEF SizeRuns
<1> QED BY <1>12

EmitRuns(h, n, q, z, acc) ==
    /\ h[0] = z
    /\ \A k \in 1..n : h[k] = EmitOne(acc, h[k - 1], q[k])
    /\ FoldLeft(LAMBDA d, t : EmitOne(acc, d, t), z, q) = h[n]

\* The dictionary, descriptor by descriptor.
LEMMA EmitRun ==
    ASSUME NEW n \in Nat, NEW q, DOMAIN q = 1..n, NEW z, NEW acc
    PROVE  \E h : EmitRuns(h, n, q, z, acc)
<1> DEFINE Body(f, s) == IF s = {} THEN z ELSE EmitOne(acc, f[s \ {Max(s)}], q[Max(s)])
           E(f) == f = [s \in SUBSET (DOMAIN q) |-> Body(f, s)]
           it == CHOOSE f : E(f)
           Ok(f, k) == /\ f = [s \in SUBSET (1..k) |-> f[s]] /\ f[{}] = z
                       /\ \A s \in SUBSET (1..k) : s # {} => f[s] = EmitOne(acc, f[s \ {Max(s)}], q[Max(s)])
           Q == {k \in Nat : \E f : Ok(f, k)}
<1>1. FoldLeft(LAMBDA d, t : EmitOne(acc, d, t), z, q) = it[DOMAIN q]
  BY Zenon DEF FoldLeft, MapThenFoldSet
<1>2. 0 \in Q
  <2> DEFINE f == [s \in SUBSET (1..0) |-> z]
  <2>1. {} \in SUBSET (1..0) /\ \A s \in SUBSET (1..0) : s = {}
    OBVIOUS
  <2>2. Ok(f, 0)
    <3>1. f[{}] = z
      BY <2>1
    <3>2. f = [s \in SUBSET (1..0) |-> f[s]]
      OBVIOUS
    <3> HIDE DEF f
    <3> QED BY <2>1, <3>1, <3>2, Zenon
  <2> HIDE DEF Ok, f
  <2> QED BY <2>2
<1>3. ASSUME NEW k \in Nat, k \in Q
      PROVE  k + 1 \in Q
  <2>1. PICK f : Ok(f, k)
    <3> HIDE DEF Ok
    <3> QED BY <1>3
  <2> DEFINE D == SUBSET (1..(k + 1))
             x == k + 1
             g == [s \in D |-> IF x \in s THEN EmitOne(acc, f[s \ {x}], q[x]) ELSE f[s]]
  <2>2. /\ {} \in D /\ x \notin {}
        /\ \A s \in D : x \notin s => s \in SUBSET (1..k)
        /\ \A s \in D : s \ {x} \in SUBSET (1..k) /\ s \ {x} \in D /\ x \notin s \ {x}
        /\ \A s \in SUBSET (1..k) : s \in D /\ x \notin s
        /\ \A s \in SUBSET (1..k) : \A y : s \ {y} \in SUBSET (1..k)
    <3>1. 1..x = (1..k) \cup {x} /\ x \notin 1..k
      OBVIOUS
    <3>2. D = SUBSET ((1..k) \cup {x})
      BY <3>1
    <3> HIDE DEF x, D
    <3> QED BY <3>1, <3>2, Zenon
  <2>3. \A s \in D : x \in s => Max(s) = x
    <3>1. \A s \in D : x \in s => s \in SUBSET (1..x) /\ x \in s
      OBVIOUS
    <3>2. x \in Nat
      OBVIOUS
    <3> HIDE DEF D, x
    <3> QED BY <3>1, <3>2, MaxTop
  <2> HIDE DEF D, x
  <2>4. /\ \A s \in D : x \in s => g[s] = EmitOne(acc, f[s \ {x}], q[x])
        /\ \A s \in D : x \notin s => g[s] = f[s]
    OBVIOUS
  <2>5. g = [s \in D |-> g[s]]
    OBVIOUS
  <2> HIDE DEF g
  <2>6. ASSUME NEW s \in D, s # {}
        PROVE  g[s] = EmitOne(acc, g[s \ {Max(s)}], q[Max(s)])
    <3>1. CASE x \in s
      <4>1. Max(s) = x
        BY <2>3, <3>1
      <4>2. g[s \ {x}] = f[s \ {x}]
        BY <2>2, <2>4
      <4>3. g[s] = EmitOne(acc, f[s \ {x}], q[x])
        BY <2>4, <3>1
      <4> QED BY <4>1, <4>2, <4>3, Zenon
    <3>2. CASE x \notin s
      <4>1. s \in SUBSET (1..k) /\ s \ {Max(s)} \in SUBSET (1..k)
        BY <2>2, <3>2
      <4>2. f[s] = EmitOne(acc, f[s \ {Max(s)}], q[Max(s)])
        BY <2>1, <2>6, <4>1
      <4>3. g[s] = f[s] /\ g[s \ {Max(s)}] = f[s \ {Max(s)}]
        BY <2>2, <2>4, <3>2, <4>1
      <4> QED BY <4>2, <4>3, Zenon
    <3> QED BY <3>1, <3>2
  <2>7. g[{}] = z
    <3>1. g[{}] = f[{}]
      BY <2>2, <2>4
    <3> QED BY <2>1, <3>1
  <2>8. Ok(g, k + 1)
    BY <2>5, <2>6, <2>7, Zenon DEF D
  <2> HIDE DEF Ok
  <2> QED BY <2>8
<1>4. PICK f : Ok(f, n)
  <2> HIDE DEF Ok
  <2>1. n \in Q
    <3> HIDE DEF Q
    <3> QED BY <1>2, <1>3, NatSetInduction
  <2> QED BY <2>1
<1>5. E(f)
  <2>1. \A s \in SUBSET (1..n) : f[s] = Body(f, s)
    BY <1>4, Zenon
  <2>2. f = [s \in SUBSET (1..n) |-> f[s]]
    BY <1>4
  <2> HIDE DEF Body
  <2> QED BY <2>1, <2>2
<1>6. E(it)
  <2> HIDE DEF E
  <2> QED BY <1>5
<1> HIDE DEF it
<1>7. \A s \in SUBSET (1..n) : it[s] = Body(it, s)
  <2> HIDE DEF Body
  <2> QED BY <1>6
<1> DEFINE h == [k \in 0..n |-> it[1..k]]
<1>8. \A k \in 0..n : h[k] = it[1..k] /\ 1..k \in SUBSET (1..n)
  OBVIOUS
<1>9. h[0] = z
  <2>1. 0 \in 0..n /\ 1..0 = {} /\ {} \in SUBSET (1..n)
    OBVIOUS
  <2>2. h[0] = it[{}]
    <3> HIDE DEF h
    <3> QED BY <1>8, <2>1
  <2>3. it[{}] = Body(it, {})
    BY <1>7, <2>1
  <2> QED BY <2>2, <2>3, Zenon
<1>10. ASSUME NEW k \in 1..n
       PROVE  h[k] = EmitOne(acc, h[k - 1], q[k])
  <2>1. k \in 0..n /\ k - 1 \in 0..n
    OBVIOUS
  <2>2. 1..k \in SUBSET (1..n) /\ 1..k # {} /\ Max(1..k) = k /\ (1..k) \ {k} = 1..(k - 1)
    BY MaxIndex
  <2>3. it[1..k] = Body(it, 1..k)
    BY <1>7, <2>2
  <2>4. h[k] = it[1..k] /\ h[k - 1] = it[1..(k - 1)]
    <3> HIDE DEF h
    <3> QED BY <1>8, <2>1
  <2> HIDE DEF h
  <2> QED BY <2>2, <2>3, <2>4, Zenon
<1>11. h[n] = it[DOMAIN q]
  <2>1. n \in 0..n
    OBVIOUS
  <2> HIDE DEF h
  <2> QED BY <1>8, <2>1
<1> HIDE DEF h
<1>12. EmitRuns(h, n, q, z, acc)
  BY <1>1, <1>9, <1>10, <1>11, Zenon DEF EmitRuns
<1> QED BY <1>12

WriteRuns(h, n, q, z, dict) ==
    /\ h[0] = z
    /\ \A k \in 1..n : h[k] = WriteOne(dict, h[k - 1], q[k])
    /\ FoldLeft(LAMBDA s, e : WriteOne(dict, s, e), z, q) = h[n]

\* The second pass, pair by pair.
LEMMA WriteRun ==
    ASSUME NEW n \in Nat, NEW q, DOMAIN q = 1..n, NEW z, NEW dict
    PROVE  \E h : WriteRuns(h, n, q, z, dict)
<1> DEFINE Body(f, s) == IF s = {} THEN z ELSE WriteOne(dict, f[s \ {Max(s)}], q[Max(s)])
           E(f) == f = [s \in SUBSET (DOMAIN q) |-> Body(f, s)]
           it == CHOOSE f : E(f)
           Ok(f, k) == /\ f = [s \in SUBSET (1..k) |-> f[s]] /\ f[{}] = z
                       /\ \A s \in SUBSET (1..k) : s # {} => f[s] = WriteOne(dict, f[s \ {Max(s)}], q[Max(s)])
           Q == {k \in Nat : \E f : Ok(f, k)}
<1>1. FoldLeft(LAMBDA s, e : WriteOne(dict, s, e), z, q) = it[DOMAIN q]
  BY Zenon DEF FoldLeft, MapThenFoldSet
<1>2. 0 \in Q
  <2> DEFINE f == [s \in SUBSET (1..0) |-> z]
  <2>1. {} \in SUBSET (1..0) /\ \A s \in SUBSET (1..0) : s = {}
    OBVIOUS
  <2>2. Ok(f, 0)
    <3>1. f[{}] = z
      BY <2>1
    <3>2. f = [s \in SUBSET (1..0) |-> f[s]]
      OBVIOUS
    <3> HIDE DEF f
    <3> QED BY <2>1, <3>1, <3>2, Zenon
  <2> HIDE DEF Ok, f
  <2> QED BY <2>2
<1>3. ASSUME NEW k \in Nat, k \in Q
      PROVE  k + 1 \in Q
  <2>1. PICK f : Ok(f, k)
    <3> HIDE DEF Ok
    <3> QED BY <1>3
  <2> DEFINE D == SUBSET (1..(k + 1))
             x == k + 1
             g == [s \in D |-> IF x \in s THEN WriteOne(dict, f[s \ {x}], q[x]) ELSE f[s]]
  <2>2. /\ {} \in D /\ x \notin {}
        /\ \A s \in D : x \notin s => s \in SUBSET (1..k)
        /\ \A s \in D : s \ {x} \in SUBSET (1..k) /\ s \ {x} \in D /\ x \notin s \ {x}
        /\ \A s \in SUBSET (1..k) : s \in D /\ x \notin s
        /\ \A s \in SUBSET (1..k) : \A y : s \ {y} \in SUBSET (1..k)
    <3>1. 1..x = (1..k) \cup {x} /\ x \notin 1..k
      OBVIOUS
    <3>2. D = SUBSET ((1..k) \cup {x})
      BY <3>1
    <3> HIDE DEF x, D
    <3> QED BY <3>1, <3>2, Zenon
  <2>3. \A s \in D : x \in s => Max(s) = x
    <3>1. \A s \in D : x \in s => s \in SUBSET (1..x) /\ x \in s
      OBVIOUS
    <3>2. x \in Nat
      OBVIOUS
    <3> HIDE DEF D, x
    <3> QED BY <3>1, <3>2, MaxTop
  <2> HIDE DEF D, x
  <2>4. /\ \A s \in D : x \in s => g[s] = WriteOne(dict, f[s \ {x}], q[x])
        /\ \A s \in D : x \notin s => g[s] = f[s]
    OBVIOUS
  <2>5. g = [s \in D |-> g[s]]
    OBVIOUS
  <2> HIDE DEF g
  <2>6. ASSUME NEW s \in D, s # {}
        PROVE  g[s] = WriteOne(dict, g[s \ {Max(s)}], q[Max(s)])
    <3>1. CASE x \in s
      <4>1. Max(s) = x
        BY <2>3, <3>1
      <4>2. g[s \ {x}] = f[s \ {x}]
        BY <2>2, <2>4
      <4>3. g[s] = WriteOne(dict, f[s \ {x}], q[x])
        BY <2>4, <3>1
      <4> QED BY <4>1, <4>2, <4>3, Zenon
    <3>2. CASE x \notin s
      <4>1. s \in SUBSET (1..k) /\ s \ {Max(s)} \in SUBSET (1..k)
        BY <2>2, <3>2
      <4>2. f[s] = WriteOne(dict, f[s \ {Max(s)}], q[Max(s)])
        BY <2>1, <2>6, <4>1
      <4>3. g[s] = f[s] /\ g[s \ {Max(s)}] = f[s \ {Max(s)}]
        BY <2>2, <2>4, <3>2, <4>1
      <4> QED BY <4>2, <4>3, Zenon
    <3> QED BY <3>1, <3>2
  <2>7. g[{}] = z
    <3>1. g[{}] = f[{}]
      BY <2>2, <2>4
    <3> QED BY <2>1, <3>1
  <2>8. Ok(g, k + 1)
    BY <2>5, <2>6, <2>7, Zenon DEF D
  <2> HIDE DEF Ok
  <2> QED BY <2>8
<1>4. PICK f : Ok(f, n)
  <2> HIDE DEF Ok
  <2>1. n \in Q
    <3> HIDE DEF Q
    <3> QED BY <1>2, <1>3, NatSetInduction
  <2> QED BY <2>1
<1>5. E(f)
  <2>1. \A s \in SUBSET (1..n) : f[s] = Body(f, s)
    BY <1>4, Zenon
  <2>2. f = [s \in SUBSET (1..n) |-> f[s]]
    BY <1>4
  <2> HIDE DEF Body
  <2> QED BY <2>1, <2>2
<1>6. E(it)
  <2> HIDE DEF E
  <2> QED BY <1>5
<1> HIDE DEF it
<1>7. \A s \in SUBSET (1..n) : it[s] = Body(it, s)
  <2> HIDE DEF Body
  <2> QED BY <1>6
<1> DEFINE h == [k \in 0..n |-> it[1..k]]
<1>8. \A k \in 0..n : h[k] = it[1..k] /\ 1..k \in SUBSET (1..n)
  OBVIOUS
<1>9. h[0] = z
  <2>1. 0 \in 0..n /\ 1..0 = {} /\ {} \in SUBSET (1..n)
    OBVIOUS
  <2>2. h[0] = it[{}]
    <3> HIDE DEF h
    <3> QED BY <1>8, <2>1
  <2>3. it[{}] = Body(it, {})
    BY <1>7, <2>1
  <2> QED BY <2>2, <2>3, Zenon
<1>10. ASSUME NEW k \in 1..n
       PROVE  h[k] = WriteOne(dict, h[k - 1], q[k])
  <2>1. k \in 0..n /\ k - 1 \in 0..n
    OBVIOUS
  <2>2. 1..k \in SUBSET (1..n) /\ 1..k # {} /\ Max(1..k) = k /\ (1..k) \ {k} = 1..(k - 1)
    BY MaxIndex
  <2>3. it[1..k] = Body(it, 1..k)
    BY <1>7, <2>2
  <2>4. h[k] = it[1..k] /\ h[k - 1] = it[1..(k - 1)]
    <3> HIDE DEF h
    <3> QED BY <1>8, <2>1
  <2> HIDE DEF h
  <2> QED BY <2>2, <2>3, <2>4, Zenon
<1>11. h[n] = it[DOMAIN q]
  <2>1. n \in 0..n
    OBVIOUS
  <2> HIDE DEF h
  <2> QED BY <1>8, <2>1
<1> HIDE DEF h
<1>12. WriteRuns(h, n, q, z, dict)
  BY <1>1, <1>9, <1>10, <1>11, Zenon DEF WriteRuns
<1> QED BY <1>12

-----------------------------------------------------------------------------
(* The ids of a trigram, how far a pass has come, and the packed blocks.   *)

Tris(E)      == {E[i][1] : i \in 1..Len(E)}
Ids(E, t)    == {d \in Nat : <<t, d>> \in ToSet(E)}
ListOf(E, t) == InOrder(Ids(E, t), <)

UpList(s) == s \in Seq(Nat) /\ \A i, j \in 1..Len(s) : i < j => s[i] < s[j]

Ordered(E) == \A i, j \in 1..Len(E) : i < j => E[i][2] <= E[j][2]

ListFacts(E, t) ==
    /\ UpList(ListOf(E, t)) /\ Len(ListOf(E, t)) \in Nat /\ Len(ListOf(E, t)) >= 1
    /\ \A d \in Nat : <<t, d>> \in ToSet(E) <=> \E i \in 1..Len(ListOf(E, t)) : ListOf(E, t)[i] = d
    /\ Len(ListOf(E, t)) = Cardinality(Ids(E, t))

\* The ids of a trigram make an ascending list.
LEMMA IdLists ==
    ASSUME NEW E \in Seq(Event), NEW t \in Tris(E)
    PROVE  ListFacts(E, t)
<1> DEFINE S == Ids(E, t)
           s == ListOf(E, t)
<1>1. Len(E) \in Nat /\ \A i \in 1..Len(E) : E[i] \in Trigram \X Nat
  BY DEF Event
<1>2. ToSet(E) = RowsIn(E)
  BY ElementsOf
<1>3. S \in SUBSET Int /\ S \in SUBSET Nat
  BY DEF Ids
<1>4. IsFiniteSet(S)
  <2> DEFINE f == [i \in 1..Len(E) |-> E[i][2]]
             R == {f[i] : i \in 1..Len(E)}
  <2>1. IsFiniteSet(1..Len(E))
    BY <1>1, FS_Interval
  <2>2. IsFiniteSet(R)
    <3>1. f \in Surjection(1..Len(E), R)
      BY DEF Surjection
    <3> HIDE DEF f, R
    <3> QED BY <2>1, <3>1, FS_Surjection
  <2>3. S \subseteq R
    <3>1. ASSUME NEW d \in S
          PROVE  d \in R
      <4>1. PICK i \in 1..Len(E) : E[i] = <<t, d>>
        BY <1>2 DEF Ids, RowsIn
      <4> QED BY <4>1
    <3> QED BY <3>1
  <2> QED BY <2>2, <2>3, FS_Subset
<1>5. Listed(s, S, NumberOrder) /\ \A x, y \in Int : <<x, y>> \in NumberOrder <=> x < y
  BY <1>3, <1>4, NumbersListed DEF ListOf
<1> HIDE DEF s
<1>6. s \in Seq(Nat) /\ Len(s) \in Nat /\ RowsIn(s) = S /\ Len(s) = Cardinality(S)
  BY <1>3, <1>5 DEF Listed
<1>7. ASSUME NEW i \in 1..Len(s), NEW j \in 1..Len(s), i < j
      PROVE  s[i] < s[j]
  <2>1. s[i] \in Int /\ s[j] \in Int
    BY <1>6
  <2>2. <<s[i], s[j]>> \in NumberOrder
    BY <1>5, <1>7 DEF Listed
  <2> QED BY <1>5, <2>1, <2>2
<1>8. UpList(s)
  BY <1>6, <1>7 DEF UpList
<1>9. \A d \in Nat : <<t, d>> \in ToSet(E) <=> \E i \in 1..Len(s) : s[i] = d
  <2>1. \A d \in Nat : <<t, d>> \in ToSet(E) <=> d \in S
    BY DEF Ids
  <2>2. \A d : d \in RowsIn(s) <=> \E i \in 1..Len(s) : s[i] = d
    BY DEF RowsIn
  <2> HIDE DEF S
  <2> QED BY <1>6, <2>1, <2>2
<1>10. Len(s) >= 1
  <2>1. PICK i \in 1..Len(E) : E[i][1] = t
    BY DEF Tris
  <2>2. E[i] \in Trigram \X Nat
    BY <1>1
  <2> DEFINE d == E[i][2]
  <2>3. d \in Nat /\ E[i] = <<t, d>>
    BY <2>1, <2>2
  <2> HIDE DEF d
  <2>4. <<t, d>> \in ToSet(E)
    BY <1>2, <2>3 DEF RowsIn
  <2>5. PICK k \in 1..Len(s) : s[k] = d
    BY <1>9, <2>3, <2>4
  <2> QED BY <1>6, <2>5
<1> QED BY <1>6, <1>8, <1>9, <1>10 DEF ListFacts, s

\* After k pairs c[t] ids of the trigram t were seen, the first of its list.
Progress(E, k, c) ==
    /\ c \in [Tris(E) -> Nat]
    /\ \A t \in Tris(E) :
          /\ c[t] \in 0..Len(ListOf(E, t))
          /\ \A i \in 1..Len(ListOf(E, t)) :
                i <= c[t] <=> \E j \in 1..k : E[j] = <<t, ListOf(E, t)[i]>>

\* Nothing was seen before the first pair.
LEMMA ProgressStart ==
    ASSUME NEW E \in Seq(Event)
    PROVE  Progress(E, 0, [t \in Tris(E) |-> 0])
<1> DEFINE c == [t \in Tris(E) |-> 0]
<1>1. c \in [Tris(E) -> Nat] /\ \A t \in Tris(E) : c[t] = 0
  OBVIOUS
<1> HIDE DEF c
<1>2. ASSUME NEW t \in Tris(E)
      PROVE  /\ c[t] \in 0..Len(ListOf(E, t))
             /\ \A i \in 1..Len(ListOf(E, t)) : i <= c[t] <=> \E j \in 1..0 : E[j] = <<t, ListOf(E, t)[i]>>
  <2>1. Len(ListOf(E, t)) \in Nat
    BY IdLists DEF ListFacts
  <2> QED BY <1>1, <2>1
<1>3. Progress(E, 0, c)
  BY <1>1, <1>2 DEF Progress
<1> QED BY <1>3 DEF c

\* In the end every list was seen in full.
LEMMA ProgressEnd ==
    ASSUME NEW E \in Seq(Event), NEW c, Progress(E, Len(E), c)
    PROVE  \A t \in Tris(E) : c[t] = Len(ListOf(E, t))
<1> SUFFICES ASSUME NEW t \in Tris(E) PROVE c[t] = Len(ListOf(E, t))
  OBVIOUS
<1> DEFINE s == ListOf(E, t)
<1>1. ListFacts(E, t)
  BY IdLists
<1>2. Len(s) \in Nat /\ Len(s) >= 1 /\ s \in Seq(Nat)
  BY <1>1 DEF ListFacts, UpList
<1>3. c[t] \in 0..Len(s) /\ (Len(s) <= c[t] <=> \E j \in 1..Len(E) : E[j] = <<t, s[Len(s)]>>)
  <2> DEFINE n == Len(s)
  <2>1. c[t] \in 0..n /\ \A i \in 1..n : i <= c[t] <=> \E j \in 1..Len(E) : E[j] = <<t, s[i]>>
    BY DEF Progress
  <2>2. n \in 1..n
    BY <1>2
  <2> HIDE DEF n, s
  <2>3. n <= c[t] <=> \E j \in 1..Len(E) : E[j] = <<t, s[n]>>
    BY <2>1, <2>2
  <2> QED BY <2>1, <2>3 DEF n
<1>4. <<t, s[Len(s)]>> \in ToSet(E)
  <2>1. Len(s) \in 1..Len(s) /\ s[Len(s)] \in Nat
    BY <1>2
  <2> QED BY <1>1, <2>1 DEF ListFacts
<1>5. \E j \in 1..Len(E) : E[j] = <<t, s[Len(s)]>>
  <2>1. ToSet(E) = RowsIn(E)
    BY ElementsOf
  <2> QED BY <1>4, <2>1 DEF RowsIn
<1> HIDE DEF s
<1>6. c[t] = Len(s)
  BY <1>2, <1>3, <1>5
<1> QED BY <1>6 DEF s

\* What a pair finds: its id is the last one seen, or the next of the list.
Seen(E, k, c, t, d) == c[t] # 0 /\ ListOf(E, t)[c[t]] = d

\* One pair more.
LEMMA ProgressStep ==
    ASSUME NEW E \in Seq(Event), Ordered(E), NEW k \in Nat, k < Len(E), NEW c, Progress(E, k, c),
           NEW t, NEW d, E[k + 1] = <<t, d>>
    PROVE  /\ t \in Tris(E) /\ d \in Nat
           /\ Seen(E, k, c, t, d) => Progress(E, k + 1, c)
           /\ ~ Seen(E, k, c, t, d) =>
                 /\ c[t] + 1 <= Len(ListOf(E, t)) /\ ListOf(E, t)[c[t] + 1] = d
                 /\ Progress(E, k + 1, [c EXCEPT ![t] = c[t] + 1])
<1> DEFINE s == ListOf(E, t)
           n == Len(s)
           m == c[t]
<1>1. Len(E) \in Nat /\ k + 1 \in 1..Len(E) /\ E[k + 1] \in Trigram \X Nat
  BY DEF Event
<1>2. t \in Tris(E) /\ d \in Nat
  BY <1>1 DEF Tris
<1>3. ListFacts(E, t)
  BY <1>2, IdLists
<1>4. s \in Seq(Nat) /\ n \in Nat /\ \A i, j \in 1..n : i < j => s[i] < s[j]
  BY <1>3 DEF ListFacts, UpList
<1>5. /\ c \in [Tris(E) -> Nat] /\ m \in 0..n
      /\ \A i \in 1..n : i <= m <=> \E j \in 1..k : E[j] = <<t, s[i]>>
  BY <1>2 DEF Progress
<1>6. ToSet(E) = RowsIn(E)
  BY ElementsOf
<1>7. PICK q \in 1..n : s[q] = d
  <2>1. <<t, d>> \in ToSet(E)
    BY <1>1, <1>6 DEF RowsIn
  <2> QED BY <1>2, <1>3, <2>1 DEF ListFacts
<1>8. 1..(k + 1) = (1..k) \cup {k + 1}
  OBVIOUS
<1>9. ASSUME NEW x \in Tris(E), x # t, NEW i
      PROVE  (\E j \in 1..(k + 1) : E[j] = <<x, ListOf(E, x)[i]>>) <=> (\E j \in 1..k : E[j] = <<x, ListOf(E, x)[i]>>)
  <2> DEFINE y == ListOf(E, x)[i]
  <2> HIDE DEF y
  <2>1. E[k + 1] # <<x, y>>
    BY <1>9
  <2>2. (\E j \in 1..(k + 1) : E[j] = <<x, y>>) <=> (\E j \in 1..k : E[j] = <<x, y>>)
    BY <1>8, <2>1
  <2> QED BY <2>2 DEF y
<1> HIDE DEF s, n, m
<1>10. \A i \in 1..n : s[i] = d <=> i = q
  <2>1. \A i \in 1..n : s[i] \in Nat
    BY <1>4 DEF n
  <2> QED BY <1>4, <1>7, <2>1
<1>11. \A i \in 1..n : (\E j \in 1..(k + 1) : E[j] = <<t, s[i]>>) <=> (i = q \/ i <= m)
  <2> SUFFICES ASSUME NEW i \in 1..n
               PROVE  (\E j \in 1..(k + 1) : E[j] = <<t, s[i]>>) <=> (i = q \/ i <= m)
    OBVIOUS
  <2> DEFINE z == s[i]
  <2>1. E[k + 1] = <<t, z>> <=> z = d
    OBVIOUS
  <2>2. z = d <=> i = q
    BY <1>10
  <2>3. i <= m <=> \E j \in 1..k : E[j] = <<t, z>>
    BY <1>5
  <2> HIDE DEF z
  <2>4. (\E j \in 1..(k + 1) : E[j] = <<t, z>>) <=> (i = q \/ i <= m)
    BY <1>8, <2>1, <2>2, <2>3
  <2> QED BY <2>4 DEF z
<1>12. q <= m => q = m
  <2> SUFFICES ASSUME q <= m, q # m PROVE FALSE
    OBVIOUS
  <2>1. m \in 1..n /\ q < m /\ s[q] < s[m] /\ s[m] \in Nat
    BY <1>4, <1>5, <1>7, SMTT(30) DEF n
  <2>2. PICK j \in 1..k : E[j] = <<t, s[m]>>
    <3>1. m <= m
      BY <1>5
    <3>2. \E j \in 1..k : E[j] = <<t, s[m]>>
      BY <1>5, <2>1, <3>1
    <3> QED BY <3>2
  <2>3. j \in 1..Len(E) /\ j < k + 1
    BY <1>1
  <2>4. E[j][2] <= E[k + 1][2]
    BY <1>1, <2>3 DEF Ordered
  <2>5. E[j][2] = s[m] /\ E[k + 1][2] = d
    BY <2>2
  <2> QED BY <1>2, <1>7, <2>1, <2>4, <2>5
<1>13. m < q => q = m + 1
  <2> SUFFICES ASSUME m < q, q # m + 1 PROVE FALSE
    BY <1>5, <1>7
  <2> DEFINE i == m + 1
  <2>1. i \in 1..n /\ i < q /\ i # q /\ ~ (i <= m)
    BY <1>4, <1>5, <1>7
  <2>2. s[i] < s[q] /\ s[i] \in Nat
    BY <1>4, <1>7, <2>1 DEF n
  <2>3. <<t, s[i]>> \in ToSet(E)
    BY <1>3, <2>1, <2>2 DEF ListFacts, s, n
  <2>4. PICK j \in 1..Len(E) : E[j] = <<t, s[i]>>
    BY <1>6, <2>3 DEF RowsIn
  <2>5. ~ (j \in 1..(k + 1))
    BY <1>11, <2>1, <2>4
  <2>6. k + 1 < j
    BY <1>1, <2>5
  <2>7. E[k + 1][2] <= E[j][2]
    BY <1>1, <2>6 DEF Ordered
  <2>8. E[k + 1][2] = d /\ E[j][2] = s[i]
    BY <2>4
  <2> HIDE DEF i
  <2> QED BY <1>2, <1>7, <2>2, <2>7, <2>8
<1>14. Seen(E, k, c, t, d) <=> m # 0 /\ s[m] = d
  BY DEF Seen, s, m
<1>15. ASSUME Seen(E, k, c, t, d)
       PROVE  Progress(E, k + 1, c)
  <2>1. m = q
    BY <1>5, <1>10, <1>14, <1>15
  <2>2. \A i \in 1..n : i <= m <=> \E j \in 1..(k + 1) : E[j] = <<t, s[i]>>
    <3>1. \A i \in 1..n : i <= m <=> (i = q \/ i <= m)
      BY <1>4, <1>7, <2>1
    <3> QED BY <1>11, <3>1, Zenon
  <2>3. \A x \in Tris(E) : /\ c[x] \in 0..Len(ListOf(E, x))
                           /\ \A i \in 1..Len(ListOf(E, x)) :
                                 i <= c[x] <=> \E j \in 1..(k + 1) : E[j] = <<x, ListOf(E, x)[i]>>
    <3> SUFFICES ASSUME NEW x \in Tris(E)
                 PROVE  /\ c[x] \in 0..Len(ListOf(E, x))
                        /\ \A i \in 1..Len(ListOf(E, x)) :
                              i <= c[x] <=> \E j \in 1..(k + 1) : E[j] = <<x, ListOf(E, x)[i]>>
      OBVIOUS
    <3>1. CASE x = t
      BY <1>5, <2>2, <3>1 DEF s, n, m
    <3>2. CASE x # t
      BY <1>9, <3>2 DEF Progress
    <3> QED BY <3>1, <3>2
  <2> QED BY <1>5, <2>3 DEF Progress
<1>16. ASSUME ~ Seen(E, k, c, t, d)
       PROVE  /\ c[t] + 1 <= Len(ListOf(E, t)) /\ ListOf(E, t)[c[t] + 1] = d
              /\ Progress(E, k + 1, [c EXCEPT ![t] = c[t] + 1])
  <2> DEFINE g == [c EXCEPT ![t] = c[t] + 1]
  <2>1. q = m + 1
    <3>1. ~ (q <= m)
      BY <1>5, <1>7, <1>12, <1>14, <1>16
    <3> QED BY <1>5, <1>7, <1>13, <3>1
  <2>2. g \in [Tris(E) -> Nat] /\ g[t] = m + 1 /\ \A x \in Tris(E) : x # t => g[x] = c[x]
    BY <1>2, <1>5 DEF m
  <2> HIDE DEF g
  <2>3. \A i \in 1..n : i <= g[t] <=> \E j \in 1..(k + 1) : E[j] = <<t, s[i]>>
    <3>1. \A i \in 1..n : i <= g[t] <=> (i = q \/ i <= m)
      BY <1>4, <1>5, <1>7, <2>1, <2>2
    <3> QED BY <1>11, <3>1, Zenon
  <2>4. g[t] \in 0..n
    BY <1>4, <1>5, <1>7, <2>1, <2>2
  <2>5. \A x \in Tris(E) : /\ g[x] \in 0..Len(ListOf(E, x))
                           /\ \A i \in 1..Len(ListOf(E, x)) :
                                 i <= g[x] <=> \E j \in 1..(k + 1) : E[j] = <<x, ListOf(E, x)[i]>>
    <3> SUFFICES ASSUME NEW x \in Tris(E)
                 PROVE  /\ g[x] \in 0..Len(ListOf(E, x))
                        /\ \A i \in 1..Len(ListOf(E, x)) :
                              i <= g[x] <=> \E j \in 1..(k + 1) : E[j] = <<x, ListOf(E, x)[i]>>
      OBVIOUS
    <3>1. CASE x = t
      BY <2>3, <2>4, <3>1 DEF s, n
    <3>2. CASE x # t
      <4>1. g[x] = c[x]
        BY <2>2, <3>2
      <4> QED BY <1>9, <3>2, <4>1 DEF Progress
    <3> QED BY <3>1, <3>2
  <2>6. Progress(E, k + 1, g)
    BY <2>2, <2>5 DEF Progress
  <2>7. m + 1 <= n /\ s[m + 1] = d
    BY <1>4, <1>5, <1>7, <2>1
  <2> QED BY <2>6, <2>7 DEF g, s, n, m
<1> QED BY <1>2, <1>15, <1>16

\* Blocks of a list of m ids, and the one that takes the next id.
NB(m) == div_ceil(m, TRIGRAM_BLOCK)

\* Which blocks a list has.
LEMMA BlockCount ==
    ASSUME NEW m \in Nat
    PROVE  /\ NB(m) \in Nat
           /\ \A b \in Nat : b < NB(m) <=> b * TRIGRAM_BLOCK < m
<1> DEFINE B == TRIGRAM_BLOCK
           q == (m + B - 1) \div B
           r == (m + B - 1) % B
<1>1. B \in Nat /\ B >= 1
  BY SearchAssumption
<1>2. q \in Nat /\ r \in Nat /\ r < B /\ m + B - 1 = B * q + r
  <2> HIDE DEF B
  <2> DEFINE y == m + B - 1
  <2>1. y \in Nat
    BY <1>1
  <2> HIDE DEF y
  <2>2. y \div B \in Nat /\ y % B \in Nat /\ y % B < B /\ y = B * (y \div B) + (y % B)
    BY <1>1, <2>1
  <2> QED BY <2>2 DEF y
<1>3. NB(m) = q
  BY DEF NB, div_ceil
<1> HIDE DEF B, q, r
<1>4. ASSUME NEW b \in Nat
      PROVE  b < q <=> b * B < m
  <2>1. ASSUME b < q
        PROVE  b * B < m
    <3>1. PICK e \in Nat : q = b + 1 + e
      <4>1. q - b - 1 \in Nat /\ q = b + 1 + (q - b - 1)
        BY <1>2, <2>1
      <4> QED BY <4>1
    <3>2. B * q = b * B + B + B * e /\ B * e \in Nat /\ b * B \in Nat
      BY <1>1, <3>1
    <3> DEFINE x == b * B
               z == B * e
               w == B * q
    <3>3. x \in Nat /\ z \in Nat /\ w = x + B + z /\ m + B - 1 = w + r
      BY <1>2, <3>2
    <3> HIDE DEF x, z, w
    <3>4. x < m
      BY <1>1, <1>2, <3>3
    <3> QED BY <3>4 DEF x
  <2>2. ASSUME ~ (b < q)
        PROVE  ~ (b * B < m)
    <3>1. PICK e \in Nat : b = q + e
      <4>1. b - q \in Nat /\ b = q + (b - q)
        BY <1>2, <2>2
      <4> QED BY <4>1
    <3>2. b * B = B * q + B * e /\ B * e \in Nat /\ B * q \in Nat
      BY <1>1, <1>2, <3>1
    <3> DEFINE x == b * B
               z == B * e
               w == B * q
    <3>3. x = w + z /\ z \in Nat /\ w \in Nat /\ m + B - 1 = w + r
      BY <1>2, <3>2
    <3> HIDE DEF x, z, w
    <3>4. ~ (x < m)
      BY <1>1, <1>2, <3>3
    <3> QED BY <3>4 DEF x
  <2> QED BY <2>1, <2>2
<1> QED BY <1>2, <1>3, <1>4 DEF B

BlockRule(c) ==
    /\ c \div TRIGRAM_BLOCK \in Nat
    /\ \A b \in Nat : b <= c \div TRIGRAM_BLOCK <=> b * TRIGRAM_BLOCK <= c
    /\ c % TRIGRAM_BLOCK = 0 <=> (c \div TRIGRAM_BLOCK) * TRIGRAM_BLOCK = c

\* The block of the next id.
LEMMA BlockOf ==
    ASSUME NEW c \in Nat
    PROVE  BlockRule(c)
<1> DEFINE B == TRIGRAM_BLOCK
           q == c \div B
           r == c % B
<1>1. B \in Nat /\ B >= 1
  BY SearchAssumption
<1>2. q \in Nat /\ r \in Nat /\ r < B /\ c = B * q + r
  <2> HIDE DEF B
  <2> QED BY <1>1
<1> HIDE DEF B, q, r
<1>3. ASSUME NEW b \in Nat
      PROVE  b <= q <=> b * B <= c
  <2>1. ASSUME b <= q
        PROVE  b * B <= c
    <3>1. PICK e \in Nat : q = b + e
      <4>1. q - b \in Nat /\ q = b + (q - b)
        BY <1>2, <2>1
      <4> QED BY <4>1
    <3>2. B * q = b * B + B * e /\ B * e \in Nat /\ b * B \in Nat
      BY <1>1, <3>1
    <3> DEFINE x == b * B
               z == B * e
               w == B * q
    <3>3. x \in Nat /\ z \in Nat /\ w = x + z /\ c = w + r
      BY <1>2, <3>2
    <3> HIDE DEF x, z, w
    <3>4. x <= c
      BY <1>1, <1>2, <3>3
    <3> QED BY <3>4 DEF x
  <2>2. ASSUME ~ (b <= q)
        PROVE  ~ (b * B <= c)
    <3>1. PICK e \in Nat : b = q + 1 + e
      <4>1. b - q - 1 \in Nat /\ b = q + 1 + (b - q - 1)
        BY <1>2, <2>2
      <4> QED BY <4>1
    <3>2. b * B = B * q + B + B * e /\ B * e \in Nat /\ B * q \in Nat
      BY <1>1, <1>2, <3>1
    <3> DEFINE x == b * B
               z == B * e
               w == B * q
    <3>3. x = w + B + z /\ z \in Nat /\ w \in Nat /\ c = w + r
      BY <1>2, <3>2
    <3> HIDE DEF x, z, w
    <3>4. ~ (x <= c)
      BY <1>1, <1>2, <3>3
    <3> QED BY <3>4 DEF x
  <2> QED BY <2>1, <2>2
<1>4. r = 0 <=> q * B = c
  <2>1. q * B = B * q /\ B * q \in Nat
    BY <1>1, <1>2
  <2> DEFINE w == B * q
  <2>2. w \in Nat /\ q * B = w /\ c = w + r
    BY <1>2, <2>1
  <2> HIDE DEF w
  <2> QED BY <1>2, <2>2
<1> QED BY <1>2, <1>3, <1>4 DEF BlockRule, B, q, r

Gap(s, k)   == IF (k - 1) % TRIGRAM_BLOCK = 0 THEN s[k] ELSE s[k] - s[k - 1]
Bytes(s, k) == write_varint(Gap(s, k))

\* The offset at which the bytes of the first k ids end.
EndsOf(h, s) ==
    /\ h \in [0..Len(s) -> Nat] /\ h[0] = 0
    /\ \A k \in 1..Len(s) : h[k] = h[k - 1] + Len(Bytes(s, k))
Ends(s) == CHOOSE h : EndsOf(h, s)

\* A gap is a number, its bytes stand for it, and they are as many as sized.
LEMMA GapBytes ==
    ASSUME NEW s, UpList(s), NEW k \in 1..Len(s)
    PROVE  /\ Gap(s, k) \in Nat /\ Bytes(s, k) \in Seq(Nat) /\ Len(Bytes(s, k)) \in Nat /\ Len(Bytes(s, k)) >= 1
           /\ Encoded(Bytes(s, k), Gap(s, k)) /\ varint_len(Gap(s, k)) = Len(Bytes(s, k))
<1>1. s \in Seq(Nat) /\ Len(s) \in Nat /\ \A i, j \in 1..Len(s) : i < j => s[i] < s[j]
  BY DEF UpList
<1>2. Gap(s, k) \in Nat
  <2>1. s[k] \in Nat
    BY <1>1
  <2>2. CASE (k - 1) % TRIGRAM_BLOCK = 0
    BY <2>1, <2>2 DEF Gap
  <2>3. CASE (k - 1) % TRIGRAM_BLOCK # 0
    <3>1. k # 1
      <4>1. TRIGRAM_BLOCK \in Nat /\ TRIGRAM_BLOCK >= 1
        BY SearchAssumption
      <4>2. 0 % TRIGRAM_BLOCK = 0
        BY <4>1
      <4>3. k = 1 => k - 1 = 0
        OBVIOUS
      <4> QED BY <2>3, <4>2, <4>3
    <3>2. k - 1 \in 1..Len(s) /\ k - 1 < k
      BY <1>1, <3>1
    <3>3. s[k - 1] \in Nat /\ s[k - 1] < s[k]
      BY <1>1, <3>2
    <3>4. s[k] - s[k - 1] \in Nat
      BY <2>1, <3>3
    <3> QED BY <2>3, <3>4 DEF Gap
  <2> QED BY <2>2, <2>3
<1> DEFINE g == Gap(s, k)
           y == write_varint(g)
<1> HIDE DEF g
<1>3. g \in Nat
  BY <1>2 DEF g
<1>4. Encoded(y, g) /\ varint_len(g) = Len(y)
  BY <1>3, VarintWritten, VarintSized
<1>5. y \in Seq(Nat) /\ Len(y) \in Nat /\ Len(y) >= 1
  <2> HIDE DEF y
  <2>1. PICK u : EncodedBy(y, g, u)
    BY <1>4 DEF Encoded
  <2> QED BY <2>1 DEF EncodedBy
<1> QED BY <1>2, <1>4, <1>5 DEF Bytes, g

EndsRule(s) ==
    /\ \A k \in 0..Len(s) : Ends(s)[k] \in Nat
    /\ Ends(s)[0] = 0
    /\ \A k \in 1..Len(s) : Ends(s)[k] = Ends(s)[k - 1] + Len(Bytes(s, k))
    /\ \A k \in 0..Len(s) : \A j \in 0..k : Ends(s)[j] <= Ends(s)[k]
    /\ \A k \in 0..Len(s) : \A j \in 0..k : j < k => Ends(s)[j] < Ends(s)[k]

\* The offsets ascend.
LEMMA EndsFound ==
    ASSUME NEW s, UpList(s)
    PROVE  EndsRule(s)
<1> DEFINE n == Len(s)
           U == [p \in Nat \X (1..n) |-> p[1] + Len(Bytes(s, p[2]))]
<1>1. n \in Nat /\ s \in Seq(Nat)
  BY DEF UpList
<1>2. \A k \in 1..n : Len(Bytes(s, k)) \in Nat /\ Len(Bytes(s, k)) >= 1
  BY GapBytes
<1>3. U \in [Nat \X (1..n) -> Nat] /\ \A x \in Nat, k \in 1..n : U[<<x, k>>] = x + Len(Bytes(s, k))
  <2> DEFINE L(k) == Len(Bytes(s, k))
  <2>1. \A k \in 1..n : L(k) \in Nat
    BY <1>2
  <2> HIDE DEF L, n
  <2>2. [p \in Nat \X (1..n) |-> p[1] + L(p[2])] \in [Nat \X (1..n) -> Nat]
    BY <2>1
  <2> QED BY <2>2 DEF L
<1> HIDE DEF U
<1>4. StepsOn(n, Nat, 0, U)
  BY <1>1, <1>3 DEF StepsOn
<1>5. PICK h : StepsOf(h, n, Nat, 0, U)
  BY <1>4, StepTable
<1>6. h \in [0..n -> Nat] /\ h[0] = 0 /\ \A k \in 1..n : h[k] = U[<<h[k - 1], k>>]
  BY <1>5 DEF StepsOf
<1>0. \A k \in 1..n : k - 1 \in 0..n /\ k \in 0..n
  BY <1>1
<1>7. \A k \in 1..n : h[k - 1] \in Nat
  <2> HIDE DEF n
  <2> QED BY <1>0, <1>6
<1>8. EndsOf(h, s)
  <2>1. \A k \in 1..n : h[k] = h[k - 1] + Len(Bytes(s, k))
    BY <1>3, <1>6, <1>7
  <2> QED BY <1>6, <2>1 DEF EndsOf
<1>9. EndsOf(Ends(s), s)
  BY <1>8 DEF Ends
<1> DEFINE e == Ends(s)
<1> HIDE DEF e
<1>10. e \in [0..n -> Nat] /\ e[0] = 0 /\ \A k \in 1..n : e[k] = e[k - 1] + Len(Bytes(s, k))
  BY <1>9 DEF EndsOf, e
<1>11. \A k \in 1..n : e[k - 1] \in Nat /\ e[k] \in Nat /\ e[k - 1] < e[k]
  <2> SUFFICES ASSUME NEW k \in 1..n PROVE e[k - 1] \in Nat /\ e[k] \in Nat /\ e[k - 1] < e[k]
    OBVIOUS
  <2>1. e[k - 1] \in Nat /\ e[k] \in Nat
    <3> HIDE DEF n
    <3> QED BY <1>0, <1>10
  <2>2. e[k] = e[k - 1] + Len(Bytes(s, k)) /\ Len(Bytes(s, k)) \in Nat /\ Len(Bytes(s, k)) >= 1
    BY <1>2, <1>10
  <2> DEFINE l == Len(Bytes(s, k))
  <2> HIDE DEF l
  <2>3. e[k] = e[k - 1] + l /\ l \in Nat /\ l >= 1
    BY <2>2 DEF l
  <2> QED BY <2>1, <2>3
<1> DEFINE P == {k \in 0..n : \A j \in 0..k : e[j] \in Nat /\ e[j] <= e[k] /\ (j < k => e[j] < e[k])}
<1>12. 0 \in P
  BY <1>1, <1>10
<1>13. ASSUME NEW k \in 1..n, k - 1 \in P
       PROVE  k \in P
  <2>1. \A j \in 0..(k - 1) : e[j] \in Nat /\ e[j] <= e[k - 1]
    BY <1>13
  <2>2. \A j \in 0..k : j = k \/ j \in 0..(k - 1)
    OBVIOUS
  <2> QED BY <1>11, <2>1, <2>2
<1> HIDE DEF P
<1>14. \A k \in 0..n : k \in P
  BY <1>1, <1>12, <1>13, UpTo
<1>15. \A k \in 0..n : \A j \in 0..k : e[j] <= e[k] /\ (j < k => e[j] < e[k])
  BY <1>14 DEF P
<1> QED BY <1>10, <1>15 DEF EndsRule, e

-----------------------------------------------------------------------------
(* The first pass.                                                         *)

SizedRec(L, m) == [count |-> m, bytes |-> Ends(L)[m], last |-> L[m]]
Counted(E, c)  == {t \in Tris(E) : c[t] # 0}
SizedBy(E, c)  == [t \in Counted(E, c) |-> SizedRec(ListOf(E, t), c[t])]

\* The bytes of the next gap are counted on top of the ones before.
LEMMA NextGap ==
    ASSUME NEW L, UpList(L), NEW m \in Nat, m + 1 <= Len(L)
    PROVE  /\ Gap(L, m + 1) = IF m % TRIGRAM_BLOCK = 0 THEN L[m + 1] ELSE L[m + 1] - L[m]
           /\ Ends(L)[m + 1] = Ends(L)[m] + Len(Bytes(L, m + 1))
           /\ Ends(L)[m] \in Nat /\ Ends(L)[m + 1] \in Nat /\ Ends(L)[0] = 0
           /\ varint_len(Gap(L, m + 1)) = Len(Bytes(L, m + 1))
           /\ 0 % TRIGRAM_BLOCK = 0
<1>1. Len(L) \in Nat /\ m + 1 \in 1..Len(L) /\ m \in 0..Len(L) /\ m + 1 \in 0..Len(L) /\ (m + 1) - 1 = m /\ 0 \in 0..Len(L)
  BY DEF UpList
<1>2. EndsRule(L)
  BY EndsFound
<1>3. Ends(L)[m + 1] = Ends(L)[(m + 1) - 1] + Len(Bytes(L, m + 1))
  BY <1>1, <1>2 DEF EndsRule
<1>4. Ends(L)[m] \in Nat /\ Ends(L)[m + 1] \in Nat /\ Ends(L)[0] = 0
  BY <1>1, <1>2 DEF EndsRule
<1>5. varint_len(Gap(L, m + 1)) = Len(Bytes(L, m + 1))
  BY <1>1, GapBytes
<1>6. Gap(L, m + 1) = IF m % TRIGRAM_BLOCK = 0 THEN L[m + 1] ELSE L[m + 1] - L[m]
  BY <1>1, Zenon DEF Gap
<1>7. 0 % TRIGRAM_BLOCK = 0
  <2>1. TRIGRAM_BLOCK \in Nat /\ TRIGRAM_BLOCK >= 1
    BY SearchAssumption
  <2> QED BY <2>1
<1> QED BY <1>1, <1>3, <1>4, <1>5, <1>6, <1>7, Zenon

\* One pair of the first pass.
LEMMA SizeStep ==
    ASSUME NEW E \in Seq(Event), Ordered(E), NEW k \in Nat, k < Len(E), NEW c, Progress(E, k, c)
    PROVE  \E g : Progress(E, k + 1, g) /\ SizeOne(SizedBy(E, c), E[k + 1]) = SizedBy(E, g)
<1>1. E[k + 1] \in Trigram \X Nat
  <2>1. k + 1 \in 1..Len(E)
    OBVIOUS
  <2> QED BY <2>1 DEF Event
<1>2. PICK t, d : E[k + 1] = <<t, d>>
  BY <1>1
<1>3. /\ t \in Tris(E) /\ d \in Nat
      /\ Seen(E, k, c, t, d) => Progress(E, k + 1, c)
      /\ ~ Seen(E, k, c, t, d) =>
            /\ c[t] + 1 <= Len(ListOf(E, t)) /\ ListOf(E, t)[c[t] + 1] = d
            /\ Progress(E, k + 1, [c EXCEPT ![t] = c[t] + 1])
  BY <1>2, ProgressStep
<1> DEFINE L == ListOf(E, t)
           m == c[t]
           acc == SizedBy(E, c)
           a == IF t \in DOMAIN acc THEN acc[t] ELSE [count |-> 0, bytes |-> 0, last |-> -1]
<1>4. c \in [Tris(E) -> Nat] /\ m \in Nat
  BY <1>3 DEF Progress
<1>5. UpList(L)
  BY <1>3, IdLists DEF ListFacts
<1>6. /\ DOMAIN acc = Counted(E, c)
      /\ \A x \in Counted(E, c) : acc[x] = SizedRec(ListOf(E, x), c[x])
  BY DEF SizedBy
<1>7. t \in DOMAIN acc <=> m # 0
  BY <1>3, <1>6 DEF Counted
<1>8. m # 0 => a = SizedRec(L, m)
  BY <1>6, <1>7
<1>9. m = 0 => a = [count |-> 0, bytes |-> 0, last |-> -1]
  BY <1>7
<1>10. a.count = m /\ (m # 0 => a.last = L[m])
  BY <1>8, <1>9 DEF SizedRec
<1>11. SizeOne(acc, <<t, d>>) =
          IF a.count # 0 /\ a.last = d THEN acc
          ELSE [x \in DOMAIN acc \cup {t} |->
                  IF x # t THEN acc[x]
                  ELSE [count |-> a.count + 1, last |-> d, bytes |-> a.bytes + varint_len(SizedGap(a, d))]]
  <2> HIDE DEF acc
  <2> QED BY DEF SizeOne
<1> HIDE DEF acc, a
<1>12. Seen(E, k, c, t, d) <=> a.count # 0 /\ a.last = d
  BY <1>10 DEF Seen
<1>13. CASE Seen(E, k, c, t, d)
  <2>1. SizeOne(acc, E[k + 1]) = acc
    BY <1>2, <1>11, <1>12, <1>13
  <2> QED BY <1>3, <1>13, <2>1 DEF acc
<1>14. CASE ~ Seen(E, k, c, t, d)
  <2> DEFINE g == [c EXCEPT ![t] = c[t] + 1]
             D == Counted(E, c) \cup {t}
             R == [count |-> a.count + 1, last |-> d, bytes |-> a.bytes + varint_len(SizedGap(a, d))]
  <2>1. m + 1 <= Len(L) /\ L[m + 1] = d /\ Progress(E, k + 1, g)
    BY <1>3, <1>14
  <2>2. g[t] = m + 1 /\ \A x \in Tris(E) : x # t => g[x] = c[x]
    BY <1>3, <1>4
  <2> HIDE DEF g
  <2>3. D = Counted(E, g)
    <3>1. m + 1 # 0
      BY <1>4
    <3> QED BY <1>3, <2>2, <3>1 DEF Counted
  <2>4. R = SizedRec(L, m + 1)
    <3> HIDE DEF m, L
    <3>1. /\ Gap(L, m + 1) = IF m % TRIGRAM_BLOCK = 0 THEN L[m + 1] ELSE L[m + 1] - L[m]
          /\ Ends(L)[m + 1] = Ends(L)[m] + Len(Bytes(L, m + 1))
          /\ Ends(L)[m] \in Nat /\ Ends(L)[m + 1] \in Nat /\ Ends(L)[0] = 0
          /\ varint_len(Gap(L, m + 1)) = Len(Bytes(L, m + 1))
          /\ 0 % TRIGRAM_BLOCK = 0
      BY <1>4, <1>5, <2>1, NextGap
    <3>2. a.bytes = Ends(L)[m]
      BY <1>8, <1>9, <3>1 DEF SizedRec
    <3>3. SizedGap(a, d) = Gap(L, m + 1)
      BY <1>10, <2>1, <3>1 DEF SizedGap
    <3>4. R.bytes = Ends(L)[m + 1]
      BY <3>1, <3>2, <3>3
    <3> QED BY <1>10, <2>1, <3>4 DEF SizedRec
  <2>5. SizeOne(acc, E[k + 1]) = [x \in D |-> IF x # t THEN acc[x] ELSE R]
    BY <1>2, <1>6, <1>11, <1>12, <1>14
  <2> HIDE DEF R, D
  <2>6. \A x \in D : (IF x # t THEN acc[x] ELSE R) = SizedRec(ListOf(E, x), g[x])
    <3>1. ASSUME NEW x \in D, x # t
          PROVE  acc[x] = SizedRec(ListOf(E, x), g[x])
      <4>1. x \in Counted(E, c) /\ x \in Tris(E)
        BY <3>1 DEF D, Counted
      <4>2. g[x] = c[x]
        BY <2>2, <3>1, <4>1
      <4> QED BY <1>6, <4>1, <4>2
    <3> QED BY <2>2, <2>4, <3>1
  <2>7. SizeOne(acc, E[k + 1]) = SizedBy(E, g)
    <3>1. SizedBy(E, g) = [x \in D |-> SizedRec(ListOf(E, x), g[x])]
      BY <2>3 DEF SizedBy
    <3> QED BY <2>5, <2>6, <3>1
  <2> QED BY <2>1, <2>7 DEF acc
<1> QED BY <1>13, <1>14

\* The sizes the first pass finds.
Sizes(E) == [t \in Tris(E) |-> SizedRec(ListOf(E, t), Len(ListOf(E, t)))]

\* The first pass counts the ids and the bytes of every list.
LEMMA SizePass ==
    ASSUME NEW E \in Seq(Event), Ordered(E)
    PROVE  FoldLeft(SizeOne, <<>>, E) = Sizes(E)
<1> DEFINE n == Len(E)
<1>1. n \in Nat /\ DOMAIN E = 1..n
  OBVIOUS
<1>2. PICK h : SizeRuns(h, n, E, <<>>)
  BY <1>1, SizeRun
<1>3. h[0] = <<>> /\ \A k \in 1..n : h[k] = SizeOne(h[k - 1], E[k])
  BY <1>2 DEF SizeRuns
<1>4. FoldLeft(SizeOne, <<>>, E) = h[n]
  BY <1>2, Zenon DEF SizeRuns
<1> DEFINE P == {k \in 0..n : \E c : Progress(E, k, c) /\ h[k] = SizedBy(E, c)}
<1>5. 0 \in P
  <2> DEFINE c == [t \in Tris(E) |-> 0]
  <2>1. Progress(E, 0, c)
    BY ProgressStart
  <2>2. Counted(E, c) = {}
    BY DEF Counted
  <2> HIDE DEF c
  <2>3. SizedBy(E, c) = <<>>
    BY <2>2 DEF SizedBy
  <2> QED BY <1>1, <1>3, <2>1, <2>3
<1>6. ASSUME NEW k \in 1..n, k - 1 \in P
      PROVE  k \in P
  <2>1. PICK c : Progress(E, k - 1, c) /\ h[k - 1] = SizedBy(E, c)
    BY <1>6
  <2> DEFINE j == k - 1
  <2>2. j \in Nat /\ j < Len(E) /\ j + 1 = k
    BY <1>1
  <2> HIDE DEF j
  <2>3. Progress(E, j, c)
    BY <2>1 DEF j
  <2>4. PICK g : Progress(E, j + 1, g) /\ SizeOne(SizedBy(E, c), E[j + 1]) = SizedBy(E, g)
    BY <2>2, <2>3, SizeStep
  <2>5. h[k] = SizedBy(E, g)
    <3>1. h[k] = SizeOne(h[k - 1], E[k])
      BY <1>3
    <3> QED BY <2>1, <2>2, <2>4, <3>1, Zenon
  <2>6. Progress(E, k, g) /\ k \in 0..n
    BY <2>2, <2>4
  <2> QED BY <2>5, <2>6
<1> HIDE DEF P
<1>7. n \in P
  <2>1. \A k \in 0..n : k \in P
    <3> HIDE DEF n
    <3> QED BY <1>1, <1>5, <1>6, UpTo
  <2> QED BY <1>1, <2>1
<1>8. PICK c : Progress(E, n, c) /\ h[n] = SizedBy(E, c)
  BY <1>7 DEF P
<1>9. \A t \in Tris(E) : c[t] = Len(ListOf(E, t)) /\ c[t] # 0
  <2>1. \A t \in Tris(E) : c[t] = Len(ListOf(E, t))
    BY <1>8, ProgressEnd
  <2>2. \A t \in Tris(E) : Len(ListOf(E, t)) \in Nat /\ Len(ListOf(E, t)) >= 1
    BY IdLists DEF ListFacts
  <2> QED BY <2>1, <2>2
<1>10. Counted(E, c) = Tris(E)
  BY <1>9 DEF Counted
<1>11. SizedBy(E, c) = Sizes(E)
  BY <1>9, <1>10 DEF SizedBy, Sizes
<1> QED BY <1>4, <1>8, <1>11

-----------------------------------------------------------------------------
(* The dictionary.                                                         *)

Desc == [tri : Trigram, off : Nat, count : Nat, len : Nat]

RegionLen(E, t) == NB(Len(ListOf(E, t))) * SKIP_ENTRY + Ends(ListOf(E, t))[Len(ListOf(E, t))]

Described(p, E, t) ==
    p.tri = t /\ p.count = Len(ListOf(E, t)) /\ p.len = RegionLen(E, t)

EndOf(p) == p.off + p.len

\* The first k descriptors, for the trigrams of T.
DictRule(d, k, T, E) ==
    /\ d \in Seq(Desc) /\ Len(d) = k
    /\ \A i \in 1..k : Described(d[i], E, T[i])
    /\ k >= 1 => d[1].off = 0
    /\ \A i \in 2..k : d[i].off = EndOf(d[i - 1])

\* The size of a region.
LEMMA RegionSized ==
    ASSUME NEW E \in Seq(Event), NEW t \in Tris(E)
    PROVE  /\ t \in Trigram /\ RegionLen(E, t) \in Nat /\ Len(ListOf(E, t)) \in Nat
           /\ Sizes(E)[t].count = Len(ListOf(E, t))
           /\ Sizes(E)[t].bytes = Ends(ListOf(E, t))[Len(ListOf(E, t))]
           /\ NB(Len(ListOf(E, t))) \in Nat /\ Ends(ListOf(E, t))[Len(ListOf(E, t))] \in Nat
<1> DEFINE L == ListOf(E, t)
           n == Len(L)
<1>1. UpList(L) /\ n \in Nat
  BY IdLists DEF ListFacts
<1>2. NB(n) \in Nat
  BY <1>1, BlockCount
<1>3. Ends(L)[n] \in Nat
  <2>1. EndsRule(L)
    BY <1>1, EndsFound
  <2>2. n \in 0..n
    BY <1>1
  <2> QED BY <2>1, <2>2 DEF EndsRule
<1>4. t \in Trigram
  <2>1. PICK i \in 1..Len(E) : E[i][1] = t
    BY DEF Tris
  <2>2. E[i] \in Trigram \X Nat
    BY DEF Event
  <2> QED BY <2>1, <2>2
<1>5. RegionLen(E, t) \in Nat
  <2>1. RegionLen(E, t) = NB(n) * 2 + Ends(L)[n]
    BY DEF RegionLen, SKIP_ENTRY
  <2> HIDE DEF L, n
  <2> DEFINE a == NB(n)
             b == Ends(L)[n]
  <2> HIDE DEF a, b
  <2>2. RegionLen(E, t) = a * 2 + b /\ a \in Nat /\ b \in Nat
    BY <1>2, <1>3, <2>1 DEF a, b
  <2> QED BY <2>2
<1>6. Sizes(E)[t] = SizedRec(L, n)
  BY DEF Sizes
<1>7. Sizes(E)[t].count = n /\ Sizes(E)[t].bytes = Ends(L)[n]
  BY <1>6 DEF SizedRec
<1> QED BY <1>1, <1>2, <1>3, <1>4, <1>5, <1>7

\* One descriptor more.
LEMMA EmitStep ==
    ASSUME NEW E \in Seq(Event), NEW k \in Nat, NEW T, T[k + 1] \in Tris(E),
           NEW d, DictRule(d, k, T, E)
    PROVE  DictRule(EmitOne(Sizes(E), d, T[k + 1]), k + 1, T, E)
<1> DEFINE t == T[k + 1]
           off == IF d = <<>> THEN 0 ELSE Last(d).off + Last(d).len
           p == [tri |-> t, off |-> off, count |-> Sizes(E)[t].count,
                 len |-> div_ceil(Sizes(E)[t].count, TRIGRAM_BLOCK) * SKIP_ENTRY + Sizes(E)[t].bytes]
           g == Append(d, p)
<1>1. EmitOne(Sizes(E), d, t) = g
  BY Zenon DEF EmitOne
<1>2. d \in Seq(Desc) /\ Len(d) = k
  BY DEF DictRule
<1>3. k # 0 => Last(d) = d[k] /\ d[k] \in Desc /\ d # <<>>
  BY <1>2 DEF Last
<1>4. k = 0 => d = <<>>
  BY <1>2
<1>5. off \in Nat /\ (k = 0 => off = 0) /\ (k # 0 => off = EndOf(d[k]))
  <2>1. CASE k = 0
    BY <1>4, <2>1
  <2>2. CASE k # 0
    <3>1. d[k].off \in Nat /\ d[k].len \in Nat
      BY <1>3, <2>2 DEF Desc
    <3>2. off = d[k].off + d[k].len
      BY <1>3, <2>2
    <3> QED BY <2>2, <3>1, <3>2 DEF EndOf
  <2> QED BY <2>1, <2>2
<1>6. /\ t \in Trigram /\ RegionLen(E, t) \in Nat /\ Len(ListOf(E, t)) \in Nat
      /\ Sizes(E)[t].count = Len(ListOf(E, t))
      /\ Sizes(E)[t].bytes = Ends(ListOf(E, t))[Len(ListOf(E, t))]
  BY RegionSized
<1>7. p.tri = t /\ p.off = off /\ p.count = Len(ListOf(E, t)) /\ p.len = RegionLen(E, t)
  BY <1>6 DEF RegionLen, NB
<1>8. p \in Desc
  <2>1. p = [tri |-> t, off |-> off, count |-> Len(ListOf(E, t)), len |-> RegionLen(E, t)]
    BY <1>6 DEF RegionLen, NB
  <2> HIDE DEF p, t, off
  <2> QED BY <1>5, <1>6, <2>1 DEF Desc
<1> HIDE DEF p, off
<1>9. g \in Seq(Desc) /\ Len(g) = k + 1 /\ g[k + 1] = p /\ \A i \in 1..k : g[i] = d[i]
  BY <1>2, <1>8
<1> HIDE DEF g
<1>10. ASSUME NEW i \in 1..(k + 1)
       PROVE  Described(g[i], E, T[i])
  <2>1. CASE i = k + 1
    BY <1>7, <1>9, <2>1 DEF Described
  <2>2. CASE i # k + 1
    <3>1. i \in 1..k
      BY <2>2
    <3> QED BY <1>9, <3>1 DEF DictRule
  <2> QED BY <2>1, <2>2
<1>11. g[1].off = 0
  <2>1. CASE k = 0
    BY <1>5, <1>7, <1>9, <2>1
  <2>2. CASE k # 0
    <3>1. 1 \in 1..k /\ k >= 1
      BY <2>2
    <3> QED BY <1>9, <3>1 DEF DictRule
  <2> QED BY <2>1, <2>2
<1>12. ASSUME NEW i \in 2..(k + 1)
       PROVE  g[i].off = EndOf(g[i - 1])
  <2>1. CASE i = k + 1
    <3>1. k # 0 /\ i - 1 = k /\ k \in 1..k
      BY <2>1
    <3> QED BY <1>5, <1>7, <1>9, <2>1, <3>1
  <2>2. CASE i # k + 1
    <3>1. i \in 2..k /\ i \in 1..k /\ i - 1 \in 1..k
      BY <2>2
    <3>2. g[i] = d[i] /\ g[i - 1] = d[i - 1] /\ d[i].off = EndOf(d[i - 1])
      BY <1>9, <3>1 DEF DictRule
    <3> QED BY <3>2
  <2> QED BY <2>1, <2>2
<1> QED BY <1>1, <1>9, <1>10, <1>11, <1>12 DEF DictRule

DictEnd(d) == IF d = <<>> THEN 0 ELSE Last(d).off + Last(d).len

\* The regions follow each other and fill the postings.
DictFacts(d, E) ==
    /\ d \in Seq(Desc) /\ Len(d) \in Nat
    /\ \A i \in 1..Len(d) : d[i].tri \in Tris(E) /\ Described(d[i], E, d[i].tri)
    /\ \A t \in Tris(E) : \E i \in 1..Len(d) : d[i].tri = t
    /\ \A i, j \in 1..Len(d) : i < j => StrLess(d[i].tri, d[j].tri) /\ EndOf(d[i]) <= d[j].off
    /\ DictEnd(d) \in Nat
    /\ \A x \in Nat : x \in 1..DictEnd(d) <=> \E i \in 1..Len(d) : d[i].off < x /\ x <= EndOf(d[i])

\* The trigrams of the pairs are finitely many strings.
LEMMA TrisListed ==
    ASSUME NEW E \in Seq(Event), NEW T, T = InOrder(Tris(E), StrLess)
    PROVE  /\ T \in Seq(Tris(E)) /\ Len(T) \in Nat /\ RowsIn(T) = Tris(E) /\ Tris(E) \in SUBSET Text
           /\ \A i, j \in 1..Len(T) : i < j => StrLess(T[i], T[j])
<1> DEFINE S == Tris(E)
<1>1. S \in SUBSET Text
  BY RegionSized DEF Trigram
<1>2. IsFiniteSet(S)
  <2> DEFINE f == [i \in 1..Len(E) |-> E[i][1]]
  <2>1. f \in Surjection(1..Len(E), S)
    BY DEF Surjection, Tris
  <2>2. IsFiniteSet(1..Len(E))
    <3>1. Len(E) \in Nat
      OBVIOUS
    <3> QED BY <3>1, FS_Interval
  <2> HIDE DEF f, S
  <2> QED BY <2>1, <2>2, FS_Surjection
<1>3. Listed(T, S, StrOrder) /\ \A x, y \in Text : <<x, y>> \in StrOrder <=> StrLess(x, y)
  BY <1>1, <1>2, StringsListed
<1>4. T \in Seq(S) /\ Len(T) \in Nat /\ RowsIn(T) = S /\ \A i, j \in 1..Len(T) : i < j => <<T[i], T[j]>> \in StrOrder
  BY <1>3 DEF Listed
<1> HIDE DEF S
<1>5. ASSUME NEW i \in 1..Len(T), NEW j \in 1..Len(T), i < j
      PROVE  StrLess(T[i], T[j])
  <2>1. T[i] \in Text /\ T[j] \in Text
    <3>1. T[i] \in S /\ T[j] \in S
      BY <1>4
    <3> QED BY <1>1, <3>1
  <2> QED BY <1>3, <1>4, <1>5, <2>1
<1> QED BY <1>1, <1>4, <1>5 DEF S

\* The dictionary lists the regions.
LEMMA DictMade ==
    ASSUME NEW E \in Seq(Event)
    PROVE  DictFacts(EmitDict(Sizes(E)), E)
<1> DEFINE acc == Sizes(E)
           T == InOrder(Tris(E), StrLess)
           n == Len(T)
<1>1. /\ T \in Seq(Tris(E)) /\ n \in Nat /\ RowsIn(T) = Tris(E) /\ Tris(E) \in SUBSET Text
      /\ \A i, j \in 1..n : i < j => StrLess(T[i], T[j])
  BY TrisListed
<1>2. DOMAIN acc = Tris(E)
  BY DEF Sizes
<1>3. EmitDict(acc) = FoldLeft(LAMBDA d, t : EmitOne(acc, d, t), <<>>, T)
  BY <1>2, Zenon DEF EmitDict
<1> HIDE DEF T, acc
<1>4. n \in Nat /\ DOMAIN T = 1..n
  BY <1>1
<1>5. PICK h : EmitRuns(h, n, T, <<>>, acc)
  <2> HIDE DEF n
  <2> QED BY <1>4, EmitRun
<1>6. h[0] = <<>> /\ \A k \in 1..n : h[k] = EmitOne(acc, h[k - 1], T[k])
  BY <1>5 DEF EmitRuns
<1>7. EmitDict(acc) = h[n]
  BY <1>3, <1>5, Zenon DEF EmitRuns
<1> HIDE DEF n
<1> DEFINE P == {k \in 0..n : DictRule(h[k], k, T, E)}
<1>8. 0 \in P
  <2>1. DictRule(<<>>, 0, T, E)
    BY DEF DictRule
  <2> QED BY <1>4, <1>6, <2>1
<1>9. ASSUME NEW k \in 1..n, k - 1 \in P
      PROVE  k \in P
  <2> DEFINE j == k - 1
  <2>1. j \in Nat /\ j + 1 = k /\ k \in 0..n
    BY <1>4
  <2>2. DictRule(h[j], j, T, E)
    BY <1>9
  <2>3. h[k] = EmitOne(acc, h[j], T[k]) /\ T[k] \in Tris(E)
    BY <1>1, <1>6 DEF n
  <2> HIDE DEF j
  <2>4. DictRule(EmitOne(Sizes(E), h[j], T[j + 1]), j + 1, T, E)
    BY <2>1, <2>2, <2>3, EmitStep
  <2> QED BY <2>1, <2>3, <2>4 DEF acc
<1> HIDE DEF P
<1>10. \A k \in 0..n : k \in P
  BY <1>4, <1>8, <1>9, UpTo
<1> DEFINE d == h[n]
<1>11. DictRule(d, n, T, E)
  BY <1>4, <1>10 DEF P
<1> HIDE DEF d
<1>12. /\ d \in Seq(Desc) /\ Len(d) = n
       /\ \A i \in 1..n : Described(d[i], E, T[i]) /\ d[i] \in Desc
       /\ n >= 1 => d[1].off = 0
       /\ \A i \in 2..n : d[i].off = EndOf(d[i - 1])
  BY <1>11 DEF DictRule
<1>13. \A i \in 1..n : d[i].off \in Nat /\ d[i].len \in Nat /\ d[i].tri = T[i] /\ T[i] \in Tris(E)
  <2>1. \A i \in 1..n : T[i] \in Tris(E)
    BY <1>1 DEF n
  <2> QED BY <1>12, <2>1 DEF Desc, Described
<1>14. \A i \in 1..n : EndOf(d[i]) \in Nat /\ EndOf(d[i]) >= d[i].off /\ EndOf(d[i]) = d[i].off + d[i].len
  BY <1>13 DEF EndOf
<1> DEFINE Apart(k) == \A i, j \in 1..k : i < j => EndOf(d[i]) <= d[j].off
           Covers(k) == \A x \in Nat : x \in 1..EndOf(d[k]) <=> \E i \in 1..k : d[i].off < x /\ x <= EndOf(d[i])
           Q == {k \in 0..n : Apart(k) /\ (k >= 1 => Covers(k))}
<1>15. 0 \in Q
  BY <1>4
<1>16. ASSUME NEW k \in 1..n, k - 1 \in Q
       PROVE  k \in Q
  <2>0. k \in 0..n /\ k >= 1
    BY <1>4
  <2>1. CASE k = 1
    <3>1. d[1].off = 0 /\ EndOf(d[1]) \in Nat
      BY <1>12, <1>14, <2>0, <2>1
    <3>2. \A i \in 1..1 : i = 1
      OBVIOUS
    <3>3. \A x \in Nat : x \in 1..EndOf(d[1]) <=> \E i \in 1..1 : d[i].off < x /\ x <= EndOf(d[i])
      <4>1. \A x \in Nat : x \in 1..EndOf(d[1]) <=> d[1].off < x /\ x <= EndOf(d[1])
        BY <3>1
      <4>2. 1 \in 1..1
        OBVIOUS
      <4> QED BY <3>2, <4>1, <4>2, Zenon
    <3>4. \A i, j \in 1..1 : ~ (i < j)
      OBVIOUS
    <3> QED BY <2>0, <2>1, <3>3, <3>4
  <2>2. CASE k # 1
    <3> DEFINE j == k - 1
    <3>1. j \in 1..n /\ j >= 1 /\ k \in 2..n /\ 1..k = (1..j) \cup {k} /\ j \in 1..j
      <4>1. j \in 1..n /\ j >= 1 /\ k \in 2..n /\ j \in 1..j
        BY <1>4, <2>0, <2>2
      <4>2. 1..k = (1..j) \cup {k}
        BY <1>4, <2>0, <2>2
      <4> QED BY <4>1, <4>2
    <3>2. d[k].off = EndOf(d[j])
      BY <1>12, <3>1
    <3>3. /\ \A i, l \in 1..j : i < l => EndOf(d[i]) <= d[l].off
          /\ \A x \in Nat : x \in 1..EndOf(d[j]) <=> \E i \in 1..j : d[i].off < x /\ x <= EndOf(d[i])
      <4>1. j \in Q
        BY <1>16
      <4>2. Apart(j) /\ Covers(j)
        <5> HIDE DEF Apart, Covers, j
        <5> QED BY <3>1, <4>1
      <4> QED BY <4>2
    <3>4. /\ EndOf(d[j]) \in Nat /\ EndOf(d[k]) \in Nat /\ EndOf(d[k]) >= d[k].off
          /\ d[j].off \in Nat /\ d[j].off <= EndOf(d[j])
      BY <1>13, <1>14, <3>1
    <3>5. \A i \in 1..j : EndOf(d[i]) <= d[k].off
      <4> SUFFICES ASSUME NEW i \in 1..j PROVE EndOf(d[i]) <= d[k].off
        OBVIOUS
      <4>1. CASE i = j
        BY <3>2, <3>4, <4>1
      <4>2. CASE i # j
        <5>1. i \in 1..n /\ i < j
          <6>1. j \in Nat /\ j <= n
            BY <1>4, <3>1
          <6> HIDE DEF j
          <6> QED BY <1>4, <4>2, <6>1
        <5>2. EndOf(d[i]) <= d[j].off /\ EndOf(d[i]) \in Nat
          BY <1>14, <3>1, <3>3, <5>1
        <5> QED BY <3>2, <3>4, <5>2
      <4> QED BY <4>1, <4>2
    <3> HIDE DEF j
    <3>6. \A i, l \in 1..k : i < l => EndOf(d[i]) <= d[l].off
      <4> SUFFICES ASSUME NEW i \in 1..k, NEW l \in 1..k, i < l PROVE EndOf(d[i]) <= d[l].off
        OBVIOUS
      <4>1. CASE l = k
        <5>1. i \in 1..j
          BY <4>1 DEF j
        <5> QED BY <3>5, <4>1, <5>1
      <4>2. CASE l # k
        <5>1. i \in 1..j /\ l \in 1..j
          BY <4>2 DEF j
        <5> QED BY <3>3, <5>1
      <4> QED BY <4>1, <4>2
    <3>7. \A x \in Nat : x \in 1..EndOf(d[k]) <=> x \in 1..EndOf(d[j]) \/ (d[k].off < x /\ x <= EndOf(d[k]))
      <4> DEFINE a == EndOf(d[j])
                 b == EndOf(d[k])
      <4> HIDE DEF a, b
      <4>1. d[k].off = a /\ a \in Nat /\ b \in Nat /\ b >= a
        BY <3>2, <3>4 DEF a, b
      <4>2. \A x \in Nat : x \in 1..b <=> x \in 1..a \/ (a < x /\ x <= b)
        BY <4>1
      <4> QED BY <4>1, <4>2 DEF a, b
    <3>8. \A x \in Nat : x \in 1..EndOf(d[k]) <=> \E i \in 1..k : d[i].off < x /\ x <= EndOf(d[i])
      BY <3>1, <3>3, <3>7, Zenon
    <3> QED BY <2>0, <3>6, <3>8
  <2> QED BY <2>1, <2>2
<1> HIDE DEF Q
<1>17. \A k \in 0..n : k \in Q
  BY <1>4, <1>15, <1>16, UpTo
<1>18. Apart(n) /\ (n >= 1 => Covers(n))
  <2>1. n \in Q
    BY <1>4, <1>17
  <2> HIDE DEF Apart, Covers
  <2> QED BY <2>1 DEF Q
<1>19. \A i, j \in 1..n : i < j => StrLess(d[i].tri, d[j].tri) /\ EndOf(d[i]) <= d[j].off
  <2>1. \A i, j \in 1..n : i < j => EndOf(d[i]) <= d[j].off
    BY <1>18
  <2>2. \A i, j \in 1..n : i < j => StrLess(T[i], T[j])
    BY <1>1 DEF n
  <2> QED BY <1>13, <2>1, <2>2
<1>20. \A t \in Tris(E) : \E i \in 1..n : d[i].tri = t
  <2>1. \A t \in Tris(E) : \E i \in 1..n : T[i] = t
    BY <1>1 DEF n, RowsIn
  <2> QED BY <1>13, <2>1
<1>21. \A i \in 1..n : d[i].tri \in Tris(E) /\ Described(d[i], E, d[i].tri)
  BY <1>12, <1>13
<1>22. /\ DictEnd(d) \in Nat
       /\ \A x \in Nat : x \in 1..DictEnd(d) <=> \E i \in 1..n : d[i].off < x /\ x <= EndOf(d[i])
  <2>1. CASE n = 0
    <3>1. d = <<>>
      BY <1>12, <2>1
    <3>2. DictEnd(d) = 0
      BY <3>1 DEF DictEnd
    <3>3. \A i \in 1..n : FALSE
      BY <2>1
    <3>4. \A x \in Nat : ~ (x \in 1..0)
      OBVIOUS
    <3> QED BY <3>2, <3>3, <3>4
  <2>2. CASE n # 0
    <3>1. n >= 1 /\ n \in 1..n
      BY <1>4, <2>2
    <3>2. d # <<>> /\ Last(d) = d[n]
      BY <1>12, <2>2 DEF Last
    <3>3. DictEnd(d) = EndOf(d[n])
      BY <3>2 DEF DictEnd, EndOf
    <3>4. \A x \in Nat : x \in 1..EndOf(d[n]) <=> \E i \in 1..n : d[i].off < x /\ x <= EndOf(d[i])
      BY <1>18, <3>1
    <3> QED BY <1>14, <3>1, <3>3, <3>4
  <2> QED BY <2>1, <2>2
<1>23. DictFacts(d, E)
  BY <1>4, <1>12, <1>19, <1>20, <1>21, <1>22 DEF DictFacts
<1> QED BY <1>7, <1>23 DEF d, acc

-----------------------------------------------------------------------------
(* The second pass, in the region of one list L at offset off, N blocks.   *)

BlockStepRule(m, q) ==
    /\ q \in Nat /\ NB(m) \in Nat /\ NB(m + 1) = q + 1
    /\ m % TRIGRAM_BLOCK = 0 => NB(m) = q /\ q * TRIGRAM_BLOCK = m
    /\ m % TRIGRAM_BLOCK # 0 => NB(m) = q + 1
    /\ \A b \in Nat : b < q => /\ Smaller((b + 1) * TRIGRAM_BLOCK, m + 1) = Smaller((b + 1) * TRIGRAM_BLOCK, m)
    /\ Smaller((q + 1) * TRIGRAM_BLOCK, m + 1) = m + 1
    /\ \A b \in Nat : b < NB(m + 1) => b * TRIGRAM_BLOCK \in 0..m

\* What one id more does to the blocks.
LEMMA BlockStep ==
    ASSUME NEW m \in Nat
    PROVE  BlockStepRule(m, m \div TRIGRAM_BLOCK)
<1> DEFINE B == TRIGRAM_BLOCK
           q == m \div B
<1>0. B \in Nat /\ B >= 1
  BY SearchAssumption
<1>1. q \in Nat /\ (\A b \in Nat : b <= q <=> b * B <= m) /\ (m % B = 0 <=> q * B = m)
  BY BlockOf DEF BlockRule
<1>2. NB(m) \in Nat /\ \A b \in Nat : b < NB(m) <=> b * B < m
  BY BlockCount
<1>3. NB(m + 1) \in Nat /\ \A b \in Nat : b < NB(m + 1) <=> b * B < m + 1
  <2>1. m + 1 \in Nat
    OBVIOUS
  <2> QED BY <2>1, BlockCount
<1>4. \A b \in Nat : b * B \in Nat
  BY <1>0
<1> HIDE DEF q, B
<1>5. \A b \in Nat : b < NB(m + 1) <=> b <= q
  <2> SUFFICES ASSUME NEW b \in Nat PROVE b < NB(m + 1) <=> b <= q
    OBVIOUS
  <2> DEFINE y == b * B
  <2>1. y \in Nat /\ (b < NB(m + 1) <=> y < m + 1) /\ (b <= q <=> y <= m)
    BY <1>1, <1>3, <1>4
  <2> HIDE DEF y
  <2> QED BY <2>1
<1>6. NB(m + 1) = q + 1
  BY <1>1, <1>3, <1>5
<1>7. ASSUME NEW b \in Nat, b < q
      PROVE  b * B < m /\ (b + 1) * B <= m /\ (b + 1) * B \in Nat
  <2>1. (b + 1) * B = b * B + B /\ b * B \in Nat
    BY <1>0
  <2>2. b + 1 \in Nat /\ b + 1 <= q
    BY <1>1, <1>7
  <2>3. (b + 1) * B <= m
    BY <1>1, <2>2
  <2> DEFINE y == b * B
             z == (b + 1) * B
  <2>4. z = y + B /\ y \in Nat /\ z <= m
    BY <2>1, <2>3
  <2> HIDE DEF y, z
  <2>5. y < m /\ z \in Nat
    BY <1>0, <2>4
  <2> QED BY <2>4, <2>5 DEF y, z
<1>8. ASSUME m % B = 0
      PROVE  NB(m) = q /\ q * B = m
  <2>1. q * B = m
    BY <1>1, <1>8
  <2>2. ~ (q < NB(m))
    BY <1>1, <1>2, <2>1
  <2>3. \A b \in Nat : b < q => b < NB(m)
    BY <1>2, <1>7
  <2> QED BY <1>1, <1>2, <2>1, <2>2, <2>3
<1>9. ASSUME m % B # 0
      PROVE  NB(m) = q + 1
  <2>1. q * B # m /\ q * B <= m /\ q * B \in Nat
    BY <1>1, <1>4, <1>9
  <2>2. q < NB(m)
    <3> DEFINE y == q * B
    <3>1. y # m /\ y <= m /\ y \in Nat
      BY <2>1
    <3> HIDE DEF y
    <3>2. y < m
      BY <3>1
    <3> QED BY <1>1, <1>2, <3>2 DEF y
  <2>3. ~ (q + 1 < NB(m))
    <3> DEFINE y == (q + 1) * B
    <3>1. q + 1 \in Nat /\ ~ (q + 1 <= q)
      BY <1>1
    <3>2. ~ (y <= m) /\ y \in Nat
      BY <1>1, <1>4, <3>1
    <3> HIDE DEF y
    <3>3. ~ (y < m)
      BY <3>2
    <3> QED BY <1>2, <3>1, <3>3 DEF y
  <2> QED BY <1>1, <1>2, <2>2, <2>3
<1>10. ASSUME NEW b \in Nat, b < q
       PROVE  Smaller((b + 1) * B, m + 1) = Smaller((b + 1) * B, m)
  <2> DEFINE z == (b + 1) * B
  <2>1. z <= m /\ z \in Nat
    BY <1>7, <1>10
  <2> HIDE DEF z
  <2>2. Smaller(z, m + 1) = Smaller(z, m)
    BY <2>1 DEF Smaller
  <2> QED BY <2>2 DEF z
<1>11. Smaller((q + 1) * B, m + 1) = m + 1
  <2> DEFINE y == (q + 1) * B
  <2>1. q + 1 \in Nat /\ ~ (q + 1 <= q)
    BY <1>1
  <2>2. ~ (y <= m) /\ y \in Nat
    BY <1>1, <1>4, <2>1
  <2> HIDE DEF y
  <2>3. Smaller(y, m + 1) = m + 1
    BY <2>2 DEF Smaller
  <2> QED BY <2>3 DEF y
<1>12. \A b \in Nat : b < NB(m + 1) => b * B \in 0..m
  <2> SUFFICES ASSUME NEW b \in Nat, b < NB(m + 1) PROVE b * B \in 0..m
    OBVIOUS
  <2> DEFINE y == b * B
  <2>1. y \in Nat /\ y < m + 1
    BY <1>3, <1>4
  <2> HIDE DEF y
  <2>2. y \in 0..m
    BY <2>1
  <2> QED BY <2>2 DEF y
<1> QED BY <1>1, <1>2, <1>6, <1>8, <1>9, <1>10, <1>11, <1>12 DEF BlockStepRule, B, q

\* A cell of the region that is written when m ids are.
Cell(L, off, N, m, x) ==
    /\ x \in Nat
    /\ \/ off < x /\ x <= off + NB(m) * 2
       \/ off + N * 2 < x /\ x <= off + N * 2 + Ends(L)[m]

\* The bytes and skip entries of the first m ids are in their places.
Filled(post, L, off, N, m) ==
    /\ \A k \in 1..m : \A i \in 1..Len(Bytes(L, k)) :
          post[off + N * 2 + Ends(L)[k - 1] + i] = Bytes(L, k)[i]
    /\ \A b \in Nat : b < NB(m) =>
          /\ post[off + b * 2 + 1] = L[Smaller((b + 1) * TRIGRAM_BLOCK, m)]
          /\ post[off + b * 2 + 2] = N * 2 + Ends(L)[b * TRIGRAM_BLOCK]

Region(L, off, N) ==
    /\ UpList(L) /\ off \in Nat /\ N = NB(Len(L)) /\ N \in Nat

\* The places of the bytes and the entries are cells.
LEMMA CellsOf ==
    ASSUME NEW L, NEW off, NEW N, Region(L, off, N), NEW m \in 0..Len(L)
    PROVE  /\ \A k \in 1..m : \A i \in 1..Len(Bytes(L, k)) : Cell(L, off, N, m, off + N * 2 + Ends(L)[k - 1] + i)
           /\ \A b \in Nat : b < NB(m) => Cell(L, off, N, m, off + b * 2 + 1) /\ Cell(L, off, N, m, off + b * 2 + 2)
<1>1. UpList(L) /\ off \in Nat /\ N \in Nat /\ Len(L) \in Nat
  BY DEF Region, UpList
<1>2. m \in Nat /\ m <= Len(L)
  BY <1>1
<1>3. NB(m) \in Nat
  BY <1>2, BlockCount
<1>4. ASSUME NEW k \in 1..m, NEW i \in 1..Len(Bytes(L, k))
      PROVE  Cell(L, off, N, m, off + N * 2 + Ends(L)[k - 1] + i)
  <2> DEFINE e == Ends(L)[k - 1]
             f == Ends(L)[k]
             g == Ends(L)[m]
             l == Len(Bytes(L, k))
  <2>1. k \in 1..Len(L) /\ k - 1 \in 0..Len(L) /\ k \in 0..Len(L) /\ k \in 0..m /\ m \in 0..Len(L)
    BY <1>1, <1>2
  <2>2. l \in Nat
    BY <1>1, <2>1, GapBytes
  <2>3. e \in Nat /\ f \in Nat /\ g \in Nat /\ f = e + l /\ f <= g
    <3>1. EndsRule(L)
      BY <1>1, EndsFound
    <3> QED BY <2>1, <3>1 DEF EndsRule
  <2> HIDE DEF e, f, g, l
  <2>4. i \in Nat /\ i >= 1 /\ i <= l
    BY <2>2 DEF l
  <2>5. /\ off + N * 2 < off + N * 2 + e + i /\ off + N * 2 + e + i <= off + N * 2 + g
        /\ off + N * 2 + e + i \in Nat
    BY <1>1, <2>2, <2>3, <2>4
  <2> QED BY <2>5 DEF Cell, e, g
<1>5. ASSUME NEW b \in Nat, b < NB(m)
      PROVE  Cell(L, off, N, m, off + b * 2 + 1) /\ Cell(L, off, N, m, off + b * 2 + 2)
  <2> DEFINE a == NB(m)
  <2>1. a \in Nat /\ b < a
    BY <1>3, <1>5
  <2> HIDE DEF a
  <2>2. /\ off < off + b * 2 + 1 /\ off + b * 2 + 1 <= off + a * 2
        /\ off < off + b * 2 + 2 /\ off + b * 2 + 2 <= off + a * 2
        /\ off + b * 2 + 1 \in Nat /\ off + b * 2 + 2 \in Nat
    BY <1>1, <2>1
  <2> QED BY <2>2 DEF Cell, a
<1> QED BY <1>4, <1>5

\* What is in place stays while its cells do.
LEMMA FilledKept ==
    ASSUME NEW L, NEW off, NEW N, Region(L, off, N), NEW m \in 0..Len(L), NEW post, NEW next,
           Filled(post, L, off, N, m), \A x : Cell(L, off, N, m, x) => next[x] = post[x]
    PROVE  Filled(next, L, off, N, m)
<1>1. ASSUME NEW k \in 1..m, NEW i \in 1..Len(Bytes(L, k))
      PROVE  next[off + N * 2 + Ends(L)[k - 1] + i] = Bytes(L, k)[i]
  <2> DEFINE x == off + N * 2 + Ends(L)[k - 1] + i
  <2>1. Cell(L, off, N, m, x)
    BY CellsOf
  <2>2. post[x] = Bytes(L, k)[i]
    BY DEF Filled
  <2> HIDE DEF x
  <2>3. next[x] = Bytes(L, k)[i]
    BY <2>1, <2>2
  <2> QED BY <2>3 DEF x
<1>2. ASSUME NEW b \in Nat, b < NB(m)
      PROVE  /\ next[off + b * 2 + 1] = L[Smaller((b + 1) * TRIGRAM_BLOCK, m)]
             /\ next[off + b * 2 + 2] = N * 2 + Ends(L)[b * TRIGRAM_BLOCK]
  <2> DEFINE x == off + b * 2 + 1
             y == off + b * 2 + 2
  <2>1. Cell(L, off, N, m, x) /\ Cell(L, off, N, m, y)
    BY <1>2, CellsOf
  <2>2. /\ post[x] = L[Smaller((b + 1) * TRIGRAM_BLOCK, m)]
        /\ post[y] = N * 2 + Ends(L)[b * TRIGRAM_BLOCK]
    BY <1>2 DEF Filled
  <2> HIDE DEF x, y
  <2>3. next[x] = post[x] /\ next[y] = post[y]
    BY <2>1
  <2> QED BY <2>2, <2>3 DEF x, y
<1> QED BY <1>1, <1>2 DEF Filled

PutRule(next, post, at, s, n) ==
    /\ next = [x \in DOMAIN next |-> next[x]]
    /\ DOMAIN next = DOMAIN post \cup (at + 1)..(at + n)
    /\ \A x \in (at + 1)..(at + n) : next[x] = s[x - at]
    /\ \A x \in DOMAIN post : x \notin (at + 1)..(at + n) => next[x] = post[x]

\* Put as a rule: the cells of s, and the old ones elsewhere.
LEMMA PutRules ==
    ASSUME NEW post, NEW at, NEW s, NEW n, n = Len(s), NEW next, next = Put(post, at, s)
    PROVE  PutRule(next, post, at, s, n)
<1>1. next = [k \in DOMAIN post \cup (at + 1)..(at + n) |->
                 IF k \in (at + 1)..(at + n) THEN s[k - at] ELSE post[k]]
  BY DEF Put
<1> QED BY <1>1 DEF PutRule

RegionNext(post, L, off, N, m) ==
    LET at    == off + N * 2 + Ends(L)[m]
        entry == off + (m \div TRIGRAM_BLOCK) * 2
        post1 == IF m % TRIGRAM_BLOCK = 0 THEN Put(post, entry + 1, <<at - off>>) ELSE post
    IN  Put(Put(post1, at, Bytes(L, m + 1)), entry, <<L[m + 1]>>)

\* The next id is written into its region and nowhere else.
LEMMA RegionStep ==
    ASSUME NEW L, NEW off, NEW N, Region(L, off, N), NEW m \in Nat, m + 1 <= Len(L),
           NEW post, Filled(post, L, off, N, m), \A x : Cell(L, off, N, m, x) => x \in DOMAIN post,
           NEW next, next = RegionNext(post, L, off, N, m)
    PROVE  /\ next = [x \in DOMAIN next |-> next[x]]
           /\ \A x : x \in DOMAIN next <=> x \in DOMAIN post \/ Cell(L, off, N, m + 1, x)
           /\ \A x \in DOMAIN post : ~ Cell(L, off, N, m + 1, x) => next[x] = post[x]
           /\ \A x : Cell(L, off, N, m, x) => Cell(L, off, N, m + 1, x)
           /\ Filled(next, L, off, N, m + 1)
<1> DEFINE q == m \div TRIGRAM_BLOCK
           start == m % TRIGRAM_BLOCK = 0
           e == Ends(L)[m]
           y == Bytes(L, m + 1)
           l == Len(y)
           at == off + N * 2 + e
           entry == off + q * 2
           z == <<at - off>>
           post1 == IF start THEN Put(post, entry + 1, z) ELSE post
           post2 == Put(post1, at, y)
           v == <<L[m + 1]>>
<1>0. next = Put(post2, entry, v)
  BY Zenon DEF RegionNext
<1>1. UpList(L) /\ off \in Nat /\ N \in Nat /\ N = NB(Len(L)) /\ Len(L) \in Nat /\ m + 1 \in 1..Len(L) /\ m \in 0..Len(L) /\ m + 1 \in 0..Len(L)
  BY DEF Region, UpList
<1>2. BlockStepRule(m, q)
  BY BlockStep
<1> HIDE DEF q
<1>3. /\ q \in Nat /\ NB(m) \in Nat /\ NB(m + 1) = q + 1
      /\ start => NB(m) = q /\ q * TRIGRAM_BLOCK = m
      /\ ~ start => NB(m) = q + 1
  BY <1>2 DEF BlockStepRule
<1>4. q < N
  <2>1. \A b \in Nat : b < NB(m + 1) <=> b * TRIGRAM_BLOCK < m + 1
    <3>1. m + 1 \in Nat
      OBVIOUS
    <3> QED BY <3>1, BlockCount
  <2>2. \A b \in Nat : b < N <=> b * TRIGRAM_BLOCK < Len(L)
    BY <1>1, BlockCount
  <2>3. q < NB(m + 1)
    BY <1>3
  <2> DEFINE w == q * TRIGRAM_BLOCK
  <2>4. w < m + 1 /\ w \in Int
    <3>1. TRIGRAM_BLOCK \in Int
      BY SearchAssumption
    <3> QED BY <1>3, <2>1, <2>3, <3>1
  <2>5. q < N <=> w < Len(L)
    BY <1>3, <2>2
  <2> HIDE DEF w
  <2> QED BY <1>1, <2>4, <2>5
<1>5. /\ e \in Nat /\ Ends(L)[m + 1] = e + l /\ y \in Seq(Nat) /\ l \in Nat
  <2>1. Ends(L)[m + 1] = e + l /\ e \in Nat
    BY <1>1, NextGap
  <2>2. y \in Seq(Nat) /\ l \in Nat
    BY <1>1, GapBytes
  <2> QED BY <2>1, <2>2
<1>6. at \in Nat /\ entry \in Nat /\ entry + 2 <= at /\ entry >= off /\ at >= off + N * 2 /\ entry + 2 <= off + N * 2
  BY <1>1, <1>3, <1>4, <1>5, SMTT(30)
<1>7. Len(z) = 1 /\ z[1] = at - off /\ Len(v) = 1 /\ v[1] = L[m + 1]
  OBVIOUS
<1> HIDE DEF z, v, post1, post2, y
<1>8. /\ next = [x \in DOMAIN next |-> next[x]]
      /\ DOMAIN next = DOMAIN post2 \cup (entry + 1)..(entry + 1)
      /\ \A x \in (entry + 1)..(entry + 1) : next[x] = v[x - entry]
      /\ \A x \in DOMAIN post2 : x \notin (entry + 1)..(entry + 1) => next[x] = post2[x]
  <2>1. PutRule(next, post2, entry, v, 1)
    <3> HIDE DEF entry
    <3> QED BY <1>0, <1>7, PutRules
  <2> QED BY <2>1 DEF PutRule
<1>9. /\ DOMAIN post2 = DOMAIN post1 \cup (at + 1)..(at + l)
      /\ \A x \in (at + 1)..(at + l) : post2[x] = y[x - at]
      /\ \A x \in DOMAIN post1 : x \notin (at + 1)..(at + l) => post2[x] = post1[x]
  <2>1. PutRule(post2, post1, at, y, l)
    <3> HIDE DEF at, y
    <3> QED BY PutRules DEF post2, l
  <2> QED BY <2>1 DEF PutRule
<1>10. ASSUME start
       PROVE  /\ DOMAIN post1 = DOMAIN post \cup {entry + 2}
              /\ post1[entry + 2] = at - off
              /\ \A x \in DOMAIN post : x # entry + 2 => post1[x] = post[x]
  <2> DEFINE w == entry + 1
  <2>1. post1 = Put(post, w, z)
    BY <1>10 DEF post1
  <2>2. /\ DOMAIN post1 = DOMAIN post \cup (w + 1)..(w + 1)
        /\ \A x \in (w + 1)..(w + 1) : post1[x] = z[x - w]
        /\ \A x \in DOMAIN post : x \notin (w + 1)..(w + 1) => post1[x] = post[x]
    <3> HIDE DEF w
    <3>1. PutRule(post1, post, w, z, 1)
      BY <1>7, <2>1, PutRules
    <3> QED BY <3>1 DEF PutRule
  <2>3. (w + 1)..(w + 1) = {entry + 2} /\ (entry + 2) - w = 1
    BY <1>6
  <2> HIDE DEF w
  <2> QED BY <1>7, <2>2, <2>3
<1>11. ~ start => post1 = post
  BY DEF post1
<1>12. (entry + 1)..(entry + 1) = {entry + 1} /\ (entry + 1) - entry = 1 /\ entry + 1 # entry + 2
       /\ entry + 1 \notin (at + 1)..(at + l) /\ entry + 2 \notin (at + 1)..(at + l)
  BY <1>5, <1>6
<1> HIDE DEF at, entry, l, e, start
<1>13. next[entry + 1] = L[m + 1]
  BY <1>7, <1>8, <1>12
<1>14. \A x \in (at + 1)..(at + l) : next[x] = y[x - at]
  BY <1>8, <1>9, <1>12
<1>15. start => next[entry + 2] = at - off
  BY <1>8, <1>9, <1>10, <1>12
<1>16. \A x \in DOMAIN post : x # entry + 1 /\ x \notin (at + 1)..(at + l) /\ (start => x # entry + 2) => next[x] = post[x]
  BY <1>8, <1>9, <1>10, <1>11, <1>12
<1>17. \A x : x \in DOMAIN next <=> x \in DOMAIN post \/ x = entry + 1 \/ x \in (at + 1)..(at + l) \/ (start /\ x = entry + 2)
  BY <1>8, <1>9, <1>10, <1>11, <1>12
<1>18. at = off + N * 2 + e /\ entry = off + q * 2
  BY DEF at, entry
<1>19. ASSUME NEW x \in Nat
       PROVE  /\ Cell(L, off, N, m, x) <=> (off < x /\ x <= off + NB(m) * 2) \/ (off + N * 2 < x /\ x <= at)
              /\ Cell(L, off, N, m + 1, x) <=> (off < x /\ x <= entry + 2) \/ (off + N * 2 < x /\ x <= at + l)
  <2>1. off + (q + 1) * 2 = entry + 2 /\ off + N * 2 + (e + l) = at + l
    BY <1>1, <1>3, <1>5, <1>18, SMTT(30)
  <2>2. Cell(L, off, N, m, x) <=> (off < x /\ x <= off + NB(m) * 2) \/ (off + N * 2 < x /\ x <= at)
    BY <1>18 DEF Cell, e
  <2>3. Cell(L, off, N, m + 1, x) <=> (off < x /\ x <= off + (q + 1) * 2) \/ (off + N * 2 < x /\ x <= off + N * 2 + (e + l))
    BY <1>3, <1>5 DEF Cell
  <2> QED BY <2>1, <2>2, <2>3
<1>20. \A x : Cell(L, off, N, m + 1, x) => x \in Nat
  BY DEF Cell
<1>21. \A x : Cell(L, off, N, m + 1, x) <=> Cell(L, off, N, m, x) \/ x = entry + 1 \/ x \in (at + 1)..(at + l) \/ x = entry + 2
  <2>1. ASSUME NEW x \in Nat
        PROVE  Cell(L, off, N, m + 1, x) <=> Cell(L, off, N, m, x) \/ x = entry + 1 \/ x \in (at + 1)..(at + l) \/ x = entry + 2
    <3> DEFINE a == NB(m)
    <3>1. a \in Nat /\ (a = q \/ a = q + 1)
      BY <1>3
    <3> HIDE DEF a
    <3>2. (off < x /\ x <= off + a * 2) \/ x = entry + 1 \/ x = entry + 2 <=> off < x /\ x <= entry + 2
      BY <1>1, <1>3, <1>6, <1>18, <3>1
    <3>3. (off + N * 2 < x /\ x <= at) \/ x \in (at + 1)..(at + l) <=> off + N * 2 < x /\ x <= at + l
      <4> DEFINE f == off + N * 2
      <4>1. f \in Nat /\ at >= f /\ at \in Nat /\ l \in Nat
        BY <1>1, <1>5, <1>6
      <4> HIDE DEF f
      <4>2. x \in (at + 1)..(at + l) <=> at < x /\ x <= at + l
        BY <4>1
      <4>3. (f < x /\ x <= at) \/ (at < x /\ x <= at + l) <=> f < x /\ x <= at + l
        BY <4>1
      <4> QED BY <4>2, <4>3 DEF f
    <3> QED BY <1>19, <3>2, <3>3 DEF a
  <2>2. \A x : Cell(L, off, N, m, x) => x \in Nat
    BY DEF Cell
  <2>3. \A x : x = entry + 1 \/ x \in (at + 1)..(at + l) \/ x = entry + 2 => x \in Nat
    BY <1>5, <1>6
  <2> QED BY <1>20, <2>1, <2>2, <2>3
<1>22. ~ start => Cell(L, off, N, m, entry + 2)
  <2> SUFFICES ASSUME ~ start PROVE Cell(L, off, N, m, entry + 2)
    OBVIOUS
  <2>1. entry + 2 \in Nat /\ off < entry + 2 /\ entry + 2 <= off + NB(m) * 2
    BY <1>1, <1>3, <1>6, <1>18
  <2> QED BY <1>19, <2>1
<1>23. \A x : x \in DOMAIN next <=> x \in DOMAIN post \/ Cell(L, off, N, m + 1, x)
  BY <1>17, <1>21, <1>22
<1>24. \A x \in DOMAIN post : ~ Cell(L, off, N, m + 1, x) => next[x] = post[x]
  BY <1>16, <1>21
<1>25. \A x : Cell(L, off, N, m, x) /\ x # entry + 1 /\ (start => x # entry + 2) => next[x] = post[x]
  <2> SUFFICES ASSUME NEW x, Cell(L, off, N, m, x), x # entry + 1, start => x # entry + 2
               PROVE  next[x] = post[x]
    OBVIOUS
  <2>1. x \in Nat /\ x \in DOMAIN post
    BY DEF Cell
  <2>2. x <= at
    <3> DEFINE a == NB(m)
    <3>1. a \in Nat /\ (a = q \/ a = q + 1)
      BY <1>3
    <3>2. x <= off + a * 2 \/ x <= at
      BY <1>19, <2>1
    <3> HIDE DEF a
    <3>3. off + a * 2 <= entry + 2
      BY <1>1, <1>3, <1>18, <3>1
    <3> QED BY <1>1, <1>3, <1>6, <2>1, <3>1, <3>2, <3>3
  <2>3. x \notin (at + 1)..(at + l)
    BY <1>6, <2>1, <2>2
  <2> QED BY <1>16, <2>1, <2>3
<1>26. ASSUME NEW k \in 1..(m + 1), NEW i \in 1..Len(Bytes(L, k))
       PROVE  next[off + N * 2 + Ends(L)[k - 1] + i] = Bytes(L, k)[i]
  <2>1. CASE k = m + 1
    <3>1. k - 1 = m /\ i \in 1..l
      BY <2>1 DEF l, y
    <3>2. off + N * 2 + Ends(L)[k - 1] + i = at + i
      BY <1>18, <3>1 DEF e
    <3>3. at + i \in (at + 1)..(at + l) /\ (at + i) - at = i
      BY <1>5, <1>6, <3>1
    <3>4. next[at + i] = y[i]
      BY <1>14, <3>3
    <3> QED BY <2>1, <3>2, <3>4 DEF y
  <2>2. CASE k # m + 1
    <3>1. k \in 1..m
      BY <2>2
    <3> DEFINE x == off + N * 2 + Ends(L)[k - 1] + i
    <3>2. Cell(L, off, N, m, x)
      BY <1>1, <3>1, CellsOf
    <3>3. post[x] = Bytes(L, k)[i]
      BY <3>1 DEF Filled
    <3>4. x > off + N * 2
      <4> DEFINE g == Ends(L)[k - 1]
      <4>1. g \in Nat
        <5>1. EndsRule(L) /\ k - 1 \in 0..Len(L)
          BY <1>1, <3>1, EndsFound
        <5> QED BY <5>1 DEF EndsRule
      <4>2. i \in Nat /\ i >= 1
        OBVIOUS
      <4> HIDE DEF g
      <4>3. off + N * 2 + g + i > off + N * 2
        BY <1>1, <4>1, <4>2
      <4> QED BY <4>3 DEF g
    <3> HIDE DEF x
    <3>5. x \in Nat
      BY <3>2 DEF Cell
    <3>6. x # entry + 1 /\ x # entry + 2
      BY <1>1, <1>6, <3>4, <3>5
    <3>7. next[x] = Bytes(L, k)[i]
      BY <1>25, <3>2, <3>3, <3>6
    <3> QED BY <3>7 DEF x
  <2> QED BY <2>1, <2>2
<1>27. ASSUME NEW b \in Nat, b < NB(m + 1)
       PROVE  /\ next[off + b * 2 + 1] = L[Smaller((b + 1) * TRIGRAM_BLOCK, m + 1)]
              /\ next[off + b * 2 + 2] = N * 2 + Ends(L)[b * TRIGRAM_BLOCK]
  <2>1. CASE b = q
    <3>1. off + b * 2 + 1 = entry + 1 /\ off + b * 2 + 2 = entry + 2
      BY <1>18, <2>1
    <3>2. Smaller((b + 1) * TRIGRAM_BLOCK, m + 1) = m + 1
      BY <1>2, <2>1 DEF BlockStepRule
    <3>3. CASE start
      <4>1. q * TRIGRAM_BLOCK = m
        BY <1>3, <3>3
      <4>2. at - off = N * 2 + e
        BY <1>1, <1>5, <1>18
      <4>3. Ends(L)[b * TRIGRAM_BLOCK] = e
        BY <2>1, <4>1 DEF e
      <4> QED BY <1>13, <1>15, <3>1, <3>2, <3>3, <4>2, <4>3
    <3>4. CASE ~ start
      <4>1. b < NB(m)
        BY <1>3, <2>1, <3>4
      <4>2. post[off + b * 2 + 2] = N * 2 + Ends(L)[b * TRIGRAM_BLOCK]
        BY <4>1 DEF Filled
      <4>3. next[entry + 2] = post[entry + 2]
        BY <1>12, <1>22, <1>25, <3>4
      <4> QED BY <1>13, <3>1, <3>2, <4>2, <4>3
    <3> QED BY <3>3, <3>4
  <2>2. CASE b # q
    <3>1. b < q /\ b < NB(m)
      BY <1>3, <1>27, <2>2
    <3>2. Smaller((b + 1) * TRIGRAM_BLOCK, m + 1) = Smaller((b + 1) * TRIGRAM_BLOCK, m)
      BY <1>2, <3>1 DEF BlockStepRule
    <3> DEFINE x == off + b * 2 + 1
               w == off + b * 2 + 2
    <3>3. Cell(L, off, N, m, x) /\ Cell(L, off, N, m, w)
      BY <1>1, <3>1, CellsOf
    <3>4. /\ post[x] = L[Smaller((b + 1) * TRIGRAM_BLOCK, m)]
          /\ post[w] = N * 2 + Ends(L)[b * TRIGRAM_BLOCK]
      BY <3>1 DEF Filled
    <3>5. x # entry + 1 /\ x # entry + 2 /\ w # entry + 1 /\ w # entry + 2
      BY <1>1, <1>3, <1>18, <3>1
    <3> HIDE DEF x, w
    <3>6. next[x] = post[x] /\ next[w] = post[w]
      BY <1>25, <3>3, <3>5
    <3> QED BY <3>2, <3>4, <3>6 DEF x, w
  <2> QED BY <2>1, <2>2
<1>28. Filled(next, L, off, N, m + 1)
  BY <1>26, <1>27 DEF Filled
<1> QED BY <1>8, <1>21, <1>23, <1>24, <1>28

\* The cells of a list lie in its region.
LEMMA CellBounds ==
    ASSUME NEW L, NEW off, NEW N, Region(L, off, N), NEW m \in 0..Len(L), NEW x, Cell(L, off, N, m, x)
    PROVE  x \in Nat /\ off < x /\ x <= off + (N * 2 + Ends(L)[Len(L)])
<1> DEFINE n == Len(L)
           a == NB(m)
           e == Ends(L)[m]
           f == Ends(L)[n]
<1>1. UpList(L) /\ off \in Nat /\ N \in Nat /\ N = NB(n) /\ n \in Nat /\ m \in Nat /\ m <= n
  BY DEF Region, UpList
<1>2. e \in Nat /\ f \in Nat /\ e <= f
  <2>1. EndsRule(L) /\ n \in 0..n /\ m \in 0..n
    BY <1>1, EndsFound
  <2> QED BY <2>1 DEF EndsRule
<1>3. a \in Nat /\ a <= N
  <2>1. a \in Nat /\ \A b \in Nat : b < a <=> b * TRIGRAM_BLOCK < m
    BY <1>1, BlockCount
  <2>2. \A b \in Nat : b < N <=> b * TRIGRAM_BLOCK < n
    BY <1>1, BlockCount
  <2> HIDE DEF a
  <2>3. CASE a > N
    <3> DEFINE w == N * TRIGRAM_BLOCK
    <3>1. w \in Int
      BY <1>1, SearchAssumption
    <3>2. w < m /\ ~ (w < n)
      BY <1>1, <2>1, <2>2, <2>3
    <3> HIDE DEF w
    <3> QED BY <1>1, <3>1, <3>2
  <2> QED BY <1>1, <2>1, <2>3
<1>4. /\ x \in Nat
      /\ \/ off < x /\ x <= off + a * 2
         \/ off + N * 2 < x /\ x <= off + N * 2 + e
  BY DEF Cell
<1> HIDE DEF a, e, f, n
<1>5. x \in Nat /\ off < x /\ x <= off + (N * 2 + f)
  BY <1>1, <1>2, <1>3, <1>4
<1> QED BY <1>5 DEF f, n

OfTri(D, t) == D[CHOOSE i \in DOMAIN D : D[i].tri = t]

OfRule(D, E) ==
    /\ \A t \in Tris(E) :
          OfTri(D, t) \in Desc /\ Described(OfTri(D, t), E, t) /\ OfTri(D, t) \in ToSet(D)
    /\ \A t, u \in Tris(E) : t # u => EndOf(OfTri(D, t)) <= OfTri(D, u).off \/ EndOf(OfTri(D, u)) <= OfTri(D, t).off
    /\ \A x \in Nat : x \in 1..DictEnd(D) <=> \E t \in Tris(E) : OfTri(D, t).off < x /\ x <= EndOf(OfTri(D, t))
    /\ \A i \in 1..Len(D) : D[i].tri \in Tris(E) /\ OfTri(D, D[i].tri) = D[i]

\* The descriptor of each trigram, and their regions.
LEMMA OfFound ==
    ASSUME NEW D, NEW E \in Seq(Event), DictFacts(D, E)
    PROVE  OfRule(D, E)
<1>1. D \in Seq(Desc) /\ Len(D) \in Nat /\ DOMAIN D = 1..Len(D) /\ \A i \in 1..Len(D) : D[i] \in Desc
  BY DEF DictFacts
<1>2. \A i, j \in 1..Len(D) : i < j => StrLess(D[i].tri, D[j].tri) /\ EndOf(D[i]) <= D[j].off
  BY DEF DictFacts
<1>3. \A i \in 1..Len(D) : D[i].tri \in Text
  BY <1>1 DEF Desc, Trigram
<1>4. \A i, j \in 1..Len(D) : D[i].tri = D[j].tri => i = j
  <2> SUFFICES ASSUME NEW i \in 1..Len(D), NEW j \in 1..Len(D), D[i].tri = D[j].tri, i # j PROVE FALSE
    OBVIOUS
  <2>1. ~ StrLess(D[i].tri, D[i].tri)
    BY <1>3, StrIrreflexive
  <2>2. i < j \/ j < i
    BY <1>1
  <2> QED BY <1>2, <2>1, <2>2
<1> DEFINE at(t) == CHOOSE i \in DOMAIN D : D[i].tri = t
<1>5. \A t \in Tris(E) : at(t) \in 1..Len(D) /\ D[at(t)].tri = t
  <2>1. \A t \in Tris(E) : \E i \in 1..Len(D) : D[i].tri = t
    BY DEF DictFacts
  <2> QED BY <1>1, <2>1
<1>6. \A t : OfTri(D, t) = D[at(t)]
  BY DEF OfTri
<1> HIDE DEF at
<1>7. \A i \in 1..Len(D) : D[i].tri \in Tris(E) /\ Described(D[i], E, D[i].tri)
  BY DEF DictFacts
<1>8. \A i \in 1..Len(D) : at(D[i].tri) = i
  BY <1>4, <1>5, <1>7
<1>9. \A t \in Tris(E) : OfTri(D, t) \in Desc /\ Described(OfTri(D, t), E, t) /\ OfTri(D, t) \in ToSet(D)
  <2> SUFFICES ASSUME NEW t \in Tris(E)
               PROVE  OfTri(D, t) \in Desc /\ Described(OfTri(D, t), E, t) /\ OfTri(D, t) \in ToSet(D)
    OBVIOUS
  <2>1. at(t) \in 1..Len(D) /\ D[at(t)].tri = t
    BY <1>5
  <2>2. D[at(t)] \in ToSet(D)
    BY <1>1, <2>1 DEF ToSet
  <2>3. Described(D[at(t)], E, t)
    BY <1>7, <2>1
  <2> QED BY <1>1, <1>6, <2>1, <2>2, <2>3
<1>10. \A t, u \in Tris(E) : t # u => EndOf(OfTri(D, t)) <= OfTri(D, u).off \/ EndOf(OfTri(D, u)) <= OfTri(D, t).off
  <2> SUFFICES ASSUME NEW t \in Tris(E), NEW u \in Tris(E), t # u
               PROVE  EndOf(D[at(t)]) <= D[at(u)].off \/ EndOf(D[at(u)]) <= D[at(t)].off
    BY <1>6
  <2>1. at(t) \in 1..Len(D) /\ at(u) \in 1..Len(D) /\ at(t) # at(u)
    BY <1>5
  <2>2. at(t) < at(u) \/ at(u) < at(t)
    BY <2>1
  <2> QED BY <1>2, <2>1, <2>2
<1>11. \A x \in Nat : x \in 1..DictEnd(D) <=> \E t \in Tris(E) : OfTri(D, t).off < x /\ x <= EndOf(OfTri(D, t))
  <2> SUFFICES ASSUME NEW x \in Nat
               PROVE  x \in 1..DictEnd(D) <=> \E t \in Tris(E) : D[at(t)].off < x /\ x <= EndOf(D[at(t)])
    BY <1>6
  <2>1. x \in 1..DictEnd(D) <=> \E i \in 1..Len(D) : D[i].off < x /\ x <= EndOf(D[i])
    BY DEF DictFacts
  <2>2. (\E i \in 1..Len(D) : D[i].off < x /\ x <= EndOf(D[i])) <=> \E t \in Tris(E) : D[at(t)].off < x /\ x <= EndOf(D[at(t)])
    BY <1>5, <1>7, <1>8, Zenon
  <2> QED BY <2>1, <2>2
<1>12. \A i \in 1..Len(D) : D[i].tri \in Tris(E) /\ OfTri(D, D[i].tri) = D[i]
  BY <1>6, <1>7, <1>8
<1> QED BY <1>9, <1>10, <1>11, <1>12, Zenon DEF OfRule

WOf(D, st, t) ==
    IF t \in DOMAIN st.w THEN st.w[t]
    ELSE [written |-> 0, last |-> -1,
          at |-> OfTri(D, t).off + div_ceil(OfTri(D, t).count, TRIGRAM_BLOCK) * SKIP_ENTRY]

WBytes(w, d) == write_varint(IF w.written % TRIGRAM_BLOCK = 0 THEN d ELSE d - w.last)

WPost(post, off, w, d) ==
    LET entry == off + (w.written \div TRIGRAM_BLOCK) * SKIP_ENTRY
        post1 == IF w.written % TRIGRAM_BLOCK = 0 THEN Put(post, entry + 1, <<w.at - off>>) ELSE post
    IN  Put(Put(post1, w.at, WBytes(w, d)), entry, <<d>>)

\* One pair of the second pass, its parts named.
LEMMA WriteRule ==
    ASSUME NEW D, NEW st, NEW e
    PROVE  WriteOne(D, st, e) =
             IF WOf(D, st, e[1]).written # 0 /\ WOf(D, st, e[1]).last = e[2] THEN st
             ELSE [post |-> WPost(st.post, OfTri(D, e[1]).off, WOf(D, st, e[1]), e[2]),
                   w |-> [t \in DOMAIN st.w \cup {e[1]} |->
                            IF t = e[1]
                            THEN [written |-> WOf(D, st, e[1]).written + 1, last |-> e[2],
                                  at |-> WOf(D, st, e[1]).at + Len(WBytes(WOf(D, st, e[1]), e[2]))]
                            ELSE st.w[t]]]
BY Zenon DEF WriteOne, OfTri, WOf, WBytes, WPost

AtOf(D, E, t, m) == OfTri(D, t).off + NB(Len(ListOf(E, t))) * 2 + Ends(ListOf(E, t))[m]

WState(D, E, c) ==
    [t \in Counted(E, c) |-> [written |-> c[t], last |-> ListOf(E, t)[c[t]], at |-> AtOf(D, E, t, c[t])]]

CellOf(D, E, t, m, x) == Cell(ListOf(E, t), OfTri(D, t).off, NB(Len(ListOf(E, t))), m, x)

FilledOf(post, D, E, t, m) == Filled(post, ListOf(E, t), OfTri(D, t).off, NB(Len(ListOf(E, t))), m)

PostInv(post, D, E, c) ==
    /\ post = [x \in DOMAIN post |-> post[x]]
    /\ \A x : x \in DOMAIN post <=> \E t \in Tris(E) : CellOf(D, E, t, c[t], x)
    /\ \A t \in Tris(E) : FilledOf(post, D, E, t, c[t])

WInv(st, D, E, c) == st.w = WState(D, E, c) /\ PostInv(st.post, D, E, c)

\* Every list has a region.
LEMMA RegionOf ==
    ASSUME NEW D, NEW E \in Seq(Event), OfRule(D, E), NEW t \in Tris(E)
    PROVE  /\ Region(ListOf(E, t), OfTri(D, t).off, NB(Len(ListOf(E, t))))
           /\ EndOf(OfTri(D, t)) = OfTri(D, t).off + (NB(Len(ListOf(E, t))) * 2 + Ends(ListOf(E, t))[Len(ListOf(E, t))])
           /\ OfTri(D, t).off \in Nat /\ OfTri(D, t).count = Len(ListOf(E, t)) /\ Len(ListOf(E, t)) \in Nat
<1>1. ListFacts(E, t)
  BY IdLists
<1>2. OfTri(D, t) \in Desc /\ Described(OfTri(D, t), E, t)
  BY DEF OfRule
<1>3. UpList(ListOf(E, t)) /\ Len(ListOf(E, t)) \in Nat
  BY <1>1 DEF ListFacts
<1>4. NB(Len(ListOf(E, t))) \in Nat
  BY <1>3, BlockCount
<1>5. OfTri(D, t).off \in Nat
  BY <1>2 DEF Desc
<1>6. Region(ListOf(E, t), OfTri(D, t).off, NB(Len(ListOf(E, t))))
  BY <1>3, <1>4, <1>5 DEF Region
<1>7. EndOf(OfTri(D, t)) = OfTri(D, t).off + (NB(Len(ListOf(E, t))) * 2 + Ends(ListOf(E, t))[Len(ListOf(E, t))])
  BY <1>2, Zenon DEF EndOf, Described, RegionLen, SKIP_ENTRY
<1>8. OfTri(D, t).count = Len(ListOf(E, t))
  BY <1>2 DEF Described
<1> QED BY <1>3, <1>5, <1>6, <1>7, <1>8

\* Cells of different trigrams are different.
LEMMA CellsApart ==
    ASSUME NEW D, NEW E \in Seq(Event), OfRule(D, E), NEW t \in Tris(E), NEW u \in Tris(E), t # u,
           NEW m \in 0..Len(ListOf(E, t)), NEW n \in 0..Len(ListOf(E, u)), NEW x,
           CellOf(D, E, t, m, x), CellOf(D, E, u, n, x)
    PROVE  FALSE
<1>1. EndOf(OfTri(D, t)) <= OfTri(D, u).off \/ EndOf(OfTri(D, u)) <= OfTri(D, t).off
  BY DEF OfRule
<1>2. x \in Nat /\ OfTri(D, t).off < x /\ x <= EndOf(OfTri(D, t))
  <2>1. /\ Region(ListOf(E, t), OfTri(D, t).off, NB(Len(ListOf(E, t))))
        /\ EndOf(OfTri(D, t)) = OfTri(D, t).off + (NB(Len(ListOf(E, t))) * 2 + Ends(ListOf(E, t))[Len(ListOf(E, t))])
    BY RegionOf
  <2> QED BY <2>1, CellBounds DEF CellOf
<1>3. x \in Nat /\ OfTri(D, u).off < x /\ x <= EndOf(OfTri(D, u))
  <2>1. /\ Region(ListOf(E, u), OfTri(D, u).off, NB(Len(ListOf(E, u))))
        /\ EndOf(OfTri(D, u)) = OfTri(D, u).off + (NB(Len(ListOf(E, u))) * 2 + Ends(ListOf(E, u))[Len(ListOf(E, u))])
    BY RegionOf
  <2> QED BY <2>1, CellBounds DEF CellOf
<1>4. OfTri(D, t).off \in Nat /\ OfTri(D, u).off \in Nat /\ OfTri(D, t).len \in Nat /\ OfTri(D, u).len \in Nat
  <2>1. OfTri(D, t) \in Desc /\ OfTri(D, u) \in Desc
    BY DEF OfRule
  <2> QED BY <2>1 DEF Desc
<1> QED BY <1>1, <1>2, <1>3, <1>4 DEF EndOf

\* The postings after an id of t was written.
LEMMA PostStep ==
    ASSUME NEW D, NEW E \in Seq(Event), OfRule(D, E), NEW c, NEW t \in Tris(E), NEW g,
           c \in [Tris(E) -> Nat], \A u \in Tris(E) : c[u] \in 0..Len(ListOf(E, u)),
           c[t] + 1 <= Len(ListOf(E, t)), g = [c EXCEPT ![t] = c[t] + 1],
           NEW post, PostInv(post, D, E, c), NEW next,
           next = RegionNext(post, ListOf(E, t), OfTri(D, t).off, NB(Len(ListOf(E, t))), c[t])
    PROVE  PostInv(next, D, E, g)
<1> DEFINE L == ListOf(E, t)
           off == OfTri(D, t).off
           N == NB(Len(L))
           m == c[t]
<1>1. Region(L, off, N) /\ m \in Nat /\ m + 1 <= Len(L) /\ Len(L) \in Nat
  BY RegionOf
<1>2. Filled(post, L, off, N, m)
  BY DEF PostInv, FilledOf
<1>3. \A x : Cell(L, off, N, m, x) => x \in DOMAIN post
  BY DEF PostInv, CellOf
<1>4. /\ next = [x \in DOMAIN next |-> next[x]]
      /\ \A x : x \in DOMAIN next <=> x \in DOMAIN post \/ Cell(L, off, N, m + 1, x)
      /\ \A x \in DOMAIN post : ~ Cell(L, off, N, m + 1, x) => next[x] = post[x]
      /\ \A x : Cell(L, off, N, m, x) => Cell(L, off, N, m + 1, x)
      /\ Filled(next, L, off, N, m + 1)
  <2> HIDE DEF L, off, N, m
  <2>1. next = RegionNext(post, L, off, N, m)
    BY DEF L, off, N, m
  <2> QED BY <1>1, <1>2, <1>3, <2>1, RegionStep
<1>5. /\ \A x : x \in DOMAIN next <=> x \in DOMAIN post \/ CellOf(D, E, t, m + 1, x)
      /\ \A x \in DOMAIN post : ~ CellOf(D, E, t, m + 1, x) => next[x] = post[x]
      /\ \A x : CellOf(D, E, t, m, x) => CellOf(D, E, t, m + 1, x)
      /\ FilledOf(next, D, E, t, m + 1)
  BY <1>4 DEF CellOf, FilledOf
<1>6. g[t] = m + 1 /\ \A u \in Tris(E) : u # t => g[u] = c[u]
  OBVIOUS
<1>7. m + 1 \in 0..Len(ListOf(E, t))
  BY <1>1
<1> HIDE DEF L, off, N
<1>8. \A x : x \in DOMAIN next <=> \E u \in Tris(E) : CellOf(D, E, u, g[u], x)
  <2> SUFFICES ASSUME NEW x
               PROVE  x \in DOMAIN next <=> \E u \in Tris(E) : CellOf(D, E, u, g[u], x)
    OBVIOUS
  <2>1. x \in DOMAIN post <=> \E u \in Tris(E) : CellOf(D, E, u, c[u], x)
    BY DEF PostInv
  <2>2. x \in DOMAIN next => \E u \in Tris(E) : CellOf(D, E, u, g[u], x)
    BY <1>5, <1>6, <2>1
  <2>3. ASSUME NEW u \in Tris(E), CellOf(D, E, u, g[u], x)
        PROVE  x \in DOMAIN next
    BY <1>5, <1>6, <2>1, <2>3
  <2> QED BY <2>2, <2>3
<1>9. ASSUME NEW u \in Tris(E), u # t
      PROVE  FilledOf(next, D, E, u, g[u])
  <2>1. c[u] \in 0..Len(ListOf(E, u)) /\ g[u] = c[u]
    BY <1>6, <1>9
  <2>2. Region(ListOf(E, u), OfTri(D, u).off, NB(Len(ListOf(E, u))))
    BY RegionOf
  <2>3. \A x : CellOf(D, E, u, c[u], x) => next[x] = post[x]
    <3> SUFFICES ASSUME NEW x, CellOf(D, E, u, c[u], x) PROVE next[x] = post[x]
      OBVIOUS
    <3>1. x \in DOMAIN post
      BY DEF PostInv
    <3>2. ~ CellOf(D, E, t, m + 1, x)
      BY <1>7, <1>9, <2>1, CellsApart
    <3> QED BY <1>5, <3>1, <3>2
  <2>4. FilledOf(post, D, E, u, c[u])
    BY DEF PostInv
  <2>5. FilledOf(next, D, E, u, c[u])
    BY <2>1, <2>2, <2>3, <2>4, FilledKept, ZenonT(40) DEF FilledOf, CellOf
  <2> QED BY <2>1, <2>5
<1>10. \A u \in Tris(E) : FilledOf(next, D, E, u, g[u])
  BY <1>5, <1>6, <1>9
<1> QED BY <1>4, <1>8, <1>10 DEF PostInv

\* The bytes and the cells one pair writes are those of the next id of its list.
LEMMA WritesNext ==
    ASSUME NEW L, UpList(L), NEW off, NEW N, NEW m \in Nat, m + 1 <= Len(L), NEW w, NEW d, NEW post,
           w.written = m, w.at = off + N * 2 + Ends(L)[m], m # 0 => w.last = L[m], d = L[m + 1]
    PROVE  /\ WBytes(w, d) = Bytes(L, m + 1)
           /\ WPost(post, off, w, d) = RegionNext(post, L, off, N, m)
<1>1. /\ Gap(L, m + 1) = IF m % TRIGRAM_BLOCK = 0 THEN L[m + 1] ELSE L[m + 1] - L[m]
      /\ 0 % TRIGRAM_BLOCK = 0
  BY NextGap
<1>2. (IF w.written % TRIGRAM_BLOCK = 0 THEN d ELSE d - w.last) = Gap(L, m + 1)
  <2>1. CASE m = 0
    BY <1>1, <2>1
  <2>2. CASE m # 0
    BY <1>1, <2>2
  <2> QED BY <2>1, <2>2
<1>3. WBytes(w, d) = Bytes(L, m + 1)
  BY <1>2, Zenon DEF WBytes, Bytes
<1>4. WPost(post, off, w, d) = RegionNext(post, L, off, N, m)
  BY <1>3, Zenon DEF WPost, RegionNext, SKIP_ENTRY
<1> QED BY <1>3, <1>4

\* One pair of the second pass keeps the invariant.
LEMMA WriteStep ==
    ASSUME NEW D, NEW E \in Seq(Event), Ordered(E), OfRule(D, E), NEW k \in Nat, k < Len(E),
           NEW c, Progress(E, k, c), NEW st, WInv(st, D, E, c)
    PROVE  \E g : Progress(E, k + 1, g) /\ WInv(WriteOne(D, st, E[k + 1]), D, E, g)
<1>1. E[k + 1] \in Trigram \X Nat
  <2>1. k + 1 \in 1..Len(E)
    OBVIOUS
  <2> QED BY <2>1 DEF Event
<1>2. PICK t, d : E[k + 1] = <<t, d>>
  BY <1>1
<1>3. /\ t \in Tris(E) /\ d \in Nat
      /\ Seen(E, k, c, t, d) => Progress(E, k + 1, c)
      /\ ~ Seen(E, k, c, t, d) =>
            /\ c[t] + 1 <= Len(ListOf(E, t)) /\ ListOf(E, t)[c[t] + 1] = d
            /\ Progress(E, k + 1, [c EXCEPT ![t] = c[t] + 1])
  BY <1>2, ProgressStep
<1> DEFINE L == ListOf(E, t)
           m == c[t]
           off == OfTri(D, t).off
           N == NB(Len(L))
           w == WOf(D, st, t)
           R == [written |-> w.written + 1, last |-> d, at |-> w.at + Len(WBytes(w, d))]
           e == E[k + 1]
           next == WriteOne(D, st, e)
<1>4. c \in [Tris(E) -> Nat] /\ m \in Nat /\ \A u \in Tris(E) : c[u] \in 0..Len(ListOf(E, u))
  BY <1>3 DEF Progress
<1>5. UpList(L) /\ EndsRule(L) /\ off \in Nat /\ OfTri(D, t).count = Len(L) /\ Len(L) \in Nat /\ N \in Nat
  <2>1. UpList(L)
    BY <1>3, IdLists DEF ListFacts
  <2>2. EndsRule(L)
    BY <2>1, EndsFound
  <2>3. off \in Nat /\ OfTri(D, t).count = Len(L) /\ Len(L) \in Nat
    BY <1>3, RegionOf
  <2> QED BY <2>1, <2>2, <2>3, BlockCount
<1>6. /\ DOMAIN st.w = Counted(E, c)
      /\ \A u \in Counted(E, c) :
            st.w[u] = [written |-> c[u], last |-> ListOf(E, u)[c[u]], at |-> AtOf(D, E, u, c[u])]
  BY DEF WInv, WState
<1>7. t \in DOMAIN st.w <=> m # 0
  BY <1>3, <1>6 DEF Counted
<1>8. m # 0 => w = [written |-> m, last |-> L[m], at |-> AtOf(D, E, t, m)]
  BY <1>6, <1>7 DEF WOf
<1>9. m = 0 => w = [written |-> 0, last |-> -1, at |-> off + N * 2]
  BY <1>5, <1>7 DEF WOf, NB, SKIP_ENTRY
<1>10. w.written = m /\ (m # 0 => w.last = L[m]) /\ w.at = off + N * 2 + Ends(L)[m]
  <2>1. CASE m = 0
    <3>1. Ends(L)[m] = 0
      BY <1>5, <2>1 DEF EndsRule
    <3> HIDE DEF w, m, off, N
    <3>2. off + N * 2 + 0 = off + N * 2
      BY <1>5
    <3> QED BY <1>9, <2>1, <3>1, <3>2
  <2>2. CASE m # 0
    <3> HIDE DEF w
    <3> QED BY <1>8, <2>2 DEF AtOf
  <2> QED BY <2>1, <2>2
<1>11. e[1] = t /\ e[2] = d
  BY <1>2
<1>12. next = IF w.written # 0 /\ w.last = d THEN st
              ELSE [post |-> WPost(st.post, off, w, d),
                    w |-> [u \in DOMAIN st.w \cup {t} |-> IF u = t THEN R ELSE st.w[u]]]
  <2> HIDE DEF e
  <2> QED BY <1>11, WriteRule, Zenon
<1> HIDE DEF w, e, next
<1>13. Seen(E, k, c, t, d) <=> w.written # 0 /\ w.last = d
  BY <1>10 DEF Seen
<1>14. CASE Seen(E, k, c, t, d)
  <2>1. next = st
    BY <1>12, <1>13, <1>14
  <2> QED BY <1>3, <1>14, <2>1 DEF next, e
<1>15. CASE ~ Seen(E, k, c, t, d)
  <2> DEFINE g == [c EXCEPT ![t] = c[t] + 1]
             W == Counted(E, c) \cup {t}
  <2>1. m + 1 <= Len(L) /\ L[m + 1] = d /\ Progress(E, k + 1, g)
    BY <1>3, <1>15
  <2>2. g[t] = m + 1 /\ \A x \in Tris(E) : x # t => g[x] = c[x]
    BY <1>3, <1>4
  <2>3. /\ WBytes(w, d) = Bytes(L, m + 1)
        /\ WPost(st.post, off, w, d) = RegionNext(st.post, L, off, N, m)
    <3> DEFINE q == st.post
    <3>1. UpList(L) /\ m \in Nat /\ m + 1 <= Len(L) /\ w.written = m /\ w.at = off + N * 2 + Ends(L)[m]
          /\ (m # 0 => w.last = L[m]) /\ d = L[m + 1]
      BY <1>4, <1>5, <1>10, <2>1
    <3> HIDE DEF L, off, N, m, q
    <3>2. WBytes(w, d) = Bytes(L, m + 1)
      BY <3>1, WritesNext
    <3>3. WPost(q, off, w, d) = RegionNext(q, L, off, N, m)
      BY <3>1, WritesNext
    <3> QED BY <3>2, <3>3 DEF q
  <2>4. next.post = RegionNext(st.post, L, off, N, m)
    BY <1>12, <1>13, <1>15, <2>3
  <2>5. next.w = [u \in W |-> IF u = t THEN R ELSE st.w[u]]
    <3> HIDE DEF R
    <3> QED BY <1>6, <1>12, <1>13, <1>15
  <2>6. PostInv(next.post, D, E, g)
    <3>1. PostInv(st.post, D, E, c)
      BY DEF WInv
    <3>2. c[t] + 1 <= Len(ListOf(E, t))
      BY <2>1
    <3>3. next.post = RegionNext(st.post, ListOf(E, t), OfTri(D, t).off, NB(Len(ListOf(E, t))), c[t])
      BY <2>4
    <3> HIDE DEF L, off, N, m
    <3> QED BY <1>3, <1>4, <3>1, <3>2, <3>3, PostStep
  <2> HIDE DEF g
  <2>7. W = Counted(E, g)
    <3>1. m + 1 # 0
      BY <1>4
    <3> QED BY <1>3, <2>2, <3>1 DEF Counted
  <2>8. R = [written |-> m + 1, last |-> L[m + 1], at |-> AtOf(D, E, t, m + 1)]
    <3>1. w.at + Len(WBytes(w, d)) = off + N * 2 + Ends(L)[m + 1]
      <4> DEFINE a == Ends(L)[m]
                 b == Len(Bytes(L, m + 1))
      <4>1. Ends(L)[m + 1] = a + b /\ a \in Nat
        <5> HIDE DEF L, m
        <5> QED BY <1>4, <1>5, <2>1, NextGap
      <4>2. b \in Nat
        <5> HIDE DEF L, m
        <5>1. m + 1 \in 1..Len(L)
          BY <1>4, <1>5, <2>1
        <5> QED BY <1>5, <5>1, GapBytes
      <4>3. w.at = off + N * 2 + a
        BY <1>10
      <4>4. Len(WBytes(w, d)) = b
        BY <2>3
      <4> HIDE DEF a, b, off, N
      <4>5. off + N * 2 + a + b = off + N * 2 + (a + b)
        BY <1>5, <4>1, <4>2
      <4> QED BY <4>1, <4>3, <4>4, <4>5
    <3>2. AtOf(D, E, t, m + 1) = off + N * 2 + Ends(L)[m + 1]
      BY DEF AtOf
    <3> QED BY <1>10, <2>1, <3>1, <3>2
  <2> HIDE DEF R, W
  <2>9. \A x \in W : (IF x = t THEN R ELSE st.w[x]) = [written |-> g[x], last |-> ListOf(E, x)[g[x]], at |-> AtOf(D, E, x, g[x])]
    <3>1. ASSUME NEW x \in W, x # t
          PROVE  st.w[x] = [written |-> g[x], last |-> ListOf(E, x)[g[x]], at |-> AtOf(D, E, x, g[x])]
      <4>1. x \in Counted(E, c) /\ x \in Tris(E)
        BY <3>1 DEF W, Counted
      <4>2. g[x] = c[x]
        BY <2>2, <3>1, <4>1
      <4> QED BY <1>6, <4>1, <4>2
    <3> QED BY <2>2, <2>8, <3>1
  <2>10. next.w = WState(D, E, g)
    <3>1. WState(D, E, g) = [x \in W |-> [written |-> g[x], last |-> ListOf(E, x)[g[x]], at |-> AtOf(D, E, x, g[x])]]
      BY <2>7 DEF WState
    <3> QED BY <2>5, <2>9, <3>1
  <2> QED BY <2>1, <2>6, <2>10 DEF WInv, next, e
<1> QED BY <1>14, <1>15

FullOf(post, D, E) ==
    /\ post = [x \in DOMAIN post |-> post[x]] /\ DOMAIN post = 1..DictEnd(D)
    /\ \A t \in Tris(E) : FilledOf(post, D, E, t, Len(ListOf(E, t)))

\* When every list is complete, the regions are full.
LEMMA PostEnd ==
    ASSUME NEW D, NEW E \in Seq(Event), OfRule(D, E), NEW c, NEW post, PostInv(post, D, E, c),
           \A t \in Tris(E) : c[t] = Len(ListOf(E, t))
    PROVE  FullOf(post, D, E)
<1>1. ASSUME NEW t \in Tris(E), NEW x
      PROVE  CellOf(D, E, t, c[t], x) <=> x \in Nat /\ OfTri(D, t).off < x /\ x <= EndOf(OfTri(D, t))
  <2> DEFINE L == ListOf(E, t)
             off == OfTri(D, t).off
             N == NB(Len(L))
             f == Ends(L)[Len(L)]
  <2>1. Region(L, off, N) /\ EndOf(OfTri(D, t)) = off + (N * 2 + f) /\ Len(L) \in 0..Len(L)
    BY RegionOf
  <2>2. f \in Nat /\ off \in Nat /\ N \in Nat
    <3>1. UpList(L) /\ off \in Nat /\ N \in Nat
      BY <2>1 DEF Region
    <3>2. EndsRule(L)
      BY <3>1, EndsFound
    <3> QED BY <2>1, <3>1, <3>2 DEF EndsRule
  <2>3. CellOf(D, E, t, c[t], x) <=> x \in Nat /\ ((off < x /\ x <= off + N * 2) \/ (off + N * 2 < x /\ x <= off + N * 2 + f))
    BY DEF CellOf, Cell
  <2> HIDE DEF f, N, off
  <2>4. x \in Nat => (((off < x /\ x <= off + N * 2) \/ (off + N * 2 < x /\ x <= off + N * 2 + f)) <=> off < x /\ x <= off + (N * 2 + f))
    BY <2>2
  <2> QED BY <2>1, <2>3, <2>4 DEF off
<1>2. \A x \in Nat : x \in 1..DictEnd(D) <=> \E t \in Tris(E) : OfTri(D, t).off < x /\ x <= EndOf(OfTri(D, t))
  BY DEF OfRule
<1>3. \A x : x \in DOMAIN post <=> \E t \in Tris(E) : CellOf(D, E, t, c[t], x)
  BY DEF PostInv
<1>4. \A x \in 1..DictEnd(D) : x \in Nat
  OBVIOUS
<1>5. \A x : x \in DOMAIN post <=> x \in 1..DictEnd(D)
  <2> SUFFICES ASSUME NEW x PROVE x \in DOMAIN post <=> x \in 1..DictEnd(D)
    OBVIOUS
  <2>1. CASE x \in Nat
    BY <1>1, <1>2, <1>3, <2>1
  <2>2. CASE x \notin Nat
    BY <1>1, <1>3, <1>4, <2>2
  <2> QED BY <2>1, <2>2
<1>6. DOMAIN post = 1..DictEnd(D)
  BY <1>5
<1>7. post = [x \in DOMAIN post |-> post[x]] /\ \A t \in Tris(E) : FilledOf(post, D, E, t, Len(ListOf(E, t)))
  BY DEF PostInv
<1> QED BY <1>6, <1>7 DEF FullOf

Written(D, E) == FoldLeft(LAMBDA s, e : WriteOne(D, s, e), [post |-> <<>>, w |-> <<>>], E)

\* The second pass fills the regions.
LEMMA WritePass ==
    ASSUME NEW D, NEW E \in Seq(Event), Ordered(E), OfRule(D, E)
    PROVE  FullOf(Written(D, E).post, D, E)
<1> DEFINE n == Len(E)
           z == [post |-> <<>>, w |-> <<>>]
<1>1. n \in Nat /\ DOMAIN E = 1..n
  OBVIOUS
<1>2. PICK h : WriteRuns(h, n, E, z, D)
  <2> HIDE DEF z
  <2> QED BY <1>1, WriteRun
<1>3. h[0] = z /\ \A k \in 1..n : h[k] = WriteOne(D, h[k - 1], E[k])
  BY <1>2 DEF WriteRuns
<1>4. FoldLeft(LAMBDA s, e : WriteOne(D, s, e), z, E) = h[n]
  BY <1>2, Zenon DEF WriteRuns
<1> DEFINE P == {k \in 0..n : \E c : Progress(E, k, c) /\ WInv(h[k], D, E, c)}
<1>5. 0 \in P
  <2> DEFINE c == [t \in Tris(E) |-> 0]
  <2>1. Progress(E, 0, c) /\ \A t \in Tris(E) : c[t] = 0
    BY ProgressStart
  <2>2. Counted(E, c) = {}
    BY DEF Counted
  <2> HIDE DEF c
  <2>3. WState(D, E, c) = <<>>
    BY <2>2 DEF WState
  <2>4. NB(0) = 0
    <3>1. NB(0) \in Nat /\ \A b \in Nat : b < NB(0) <=> b * TRIGRAM_BLOCK < 0
      BY BlockCount
    <3>2. 0 * TRIGRAM_BLOCK = 0
      BY SearchAssumption
    <3> QED BY <3>1, <3>2
  <2>5. ASSUME NEW t \in Tris(E)
        PROVE  /\ \A x : ~ CellOf(D, E, t, c[t], x)
               /\ FilledOf(<<>>, D, E, t, c[t])
    <3> DEFINE off == OfTri(D, t).off
               L == ListOf(E, t)
               N == NB(Len(L))
    <3>1. c[t] = 0 /\ Region(L, off, N) /\ Ends(L)[0] = 0 /\ off \in Nat /\ N \in Nat
      <4>1. Region(L, off, N) /\ c[t] = 0
        BY <2>1, RegionOf
      <4>2. EndsRule(L) /\ off \in Nat /\ N \in Nat
        BY <4>1, EndsFound DEF Region
      <4> QED BY <4>1, <4>2 DEF EndsRule
    <3>2. \A x : CellOf(D, E, t, c[t], x) <=> x \in Nat /\ ((off < x /\ x <= off + 0 * 2) \/ (off + N * 2 < x /\ x <= off + N * 2 + 0))
      BY <2>4, <3>1 DEF CellOf, Cell
    <3> HIDE DEF off, N
    <3>3. \A x : ~ CellOf(D, E, t, c[t], x)
      BY <3>1, <3>2
    <3>4. FilledOf(<<>>, D, E, t, c[t])
      <4>1. 1..0 = {} /\ \A b \in Nat : ~ (b < 0)
        OBVIOUS
      <4> QED BY <2>4, <3>1, <4>1 DEF FilledOf, Filled
    <3> QED BY <3>3, <3>4
  <2>6. PostInv(<<>>, D, E, c)
    BY <2>5 DEF PostInv
  <2>7. WInv(h[0], D, E, c)
    BY <1>3, <2>3, <2>6 DEF WInv
  <2> QED BY <1>1, <2>1, <2>7
<1>6. ASSUME NEW k \in 1..n, k - 1 \in P
      PROVE  k \in P
  <2>1. PICK c : Progress(E, k - 1, c) /\ WInv(h[k - 1], D, E, c)
    BY <1>6
  <2> DEFINE j == k - 1
             st == h[j]
  <2>2. j \in Nat /\ j < Len(E) /\ j + 1 = k
    BY <1>1
  <2> HIDE DEF j
  <2>3. Progress(E, j, c) /\ WInv(st, D, E, c)
    BY <2>1 DEF j
  <2> HIDE DEF st
  <2>4. PICK g : Progress(E, j + 1, g) /\ WInv(WriteOne(D, st, E[j + 1]), D, E, g)
    BY <2>2, <2>3, WriteStep
  <2>5. WInv(h[k], D, E, g)
    <3>1. h[k] = WriteOne(D, h[k - 1], E[k])
      BY <1>3
    <3>2. h[k - 1] = st
      BY DEF j, st
    <3> QED BY <2>2, <2>4, <3>1, <3>2, Zenon
  <2>6. Progress(E, k, g) /\ k \in 0..n
    BY <2>2, <2>4
  <2> QED BY <2>5, <2>6
<1> HIDE DEF P
<1>7. n \in P
  <2>1. \A k \in 0..n : k \in P
    <3> HIDE DEF n
    <3> QED BY <1>1, <1>5, <1>6, UpTo
  <2> QED BY <1>1, <2>1
<1>8. PICK c : Progress(E, n, c) /\ WInv(h[n], D, E, c)
  BY <1>7 DEF P
<1>9. \A t \in Tris(E) : c[t] = Len(ListOf(E, t))
  BY <1>8, ProgressEnd
<1>10. PostInv(h[n].post, D, E, c)
  BY <1>8 DEF WInv
<1>11. FullOf(h[n].post, D, E)
  BY <1>9, <1>10, PostEnd
<1>12. Written(D, E) = h[n]
  BY <1>4, Zenon DEF Written
<1> QED BY <1>11, <1>12

IndexFacts(I, E) ==
    /\ E \in Seq(Event) /\ DictFacts(I.dict, E) /\ OfRule(I.dict, E) /\ FullOf(I.post, I.dict, E)

\* What build_trigram_index makes.
LEMMA IndexBuilt ==
    ASSUME NEW table \in Seq(Text \X Int)
    PROVE  IndexFacts(build_trigram_index(table), visit(table))
<1> DEFINE E == visit(table)
           D == EmitDict(FoldLeft(SizeOne, <<>>, E))
           st == Written(D, E)
<1>1. E \in Seq(Event) /\ Ordered(E)
  BY Visited DEF EventsOf, Ordered
<1>2. build_trigram_index(table).dict = D /\ build_trigram_index(table).post = st.post
  <2>1. build_trigram_index(table) = [dict |-> D, post |-> st.post]
    BY Zenon DEF build_trigram_index, Written
  <2> HIDE DEF D, st
  <2> QED BY <2>1
<1> HIDE DEF E
<1>3. D = EmitDict(Sizes(E))
  BY <1>1, SizePass, Zenon
<1>4. DictFacts(D, E)
  BY <1>1, <1>3, DictMade
<1> HIDE DEF D
<1>5. OfRule(D, E)
  BY <1>1, <1>4, OfFound
<1>6. FullOf(st.post, D, E)
  BY <1>1, <1>5, WritePass
<1> HIDE DEF st
<1> QED BY <1>1, <1>2, <1>4, <1>5, <1>6 DEF IndexFacts, E

-----------------------------------------------------------------------------
(* Reading a list back.                                                    *)

Pos(L, off, N, k) == off + N * 2 + Ends(L)[k]

View(post, L, off, N) ==
    /\ Region(L, off, N) /\ Filled(post, L, off, N, Len(L))
    /\ Len(post) \in Nat /\ off + N * 2 + Ends(L)[Len(L)] <= Len(post)

PosRule(L, off, N) ==
    /\ \A k \in 0..Len(L) : Pos(L, off, N, k) \in Nat
    /\ \A j, k \in 0..Len(L) : j < k => Pos(L, off, N, j) < Pos(L, off, N, k)

\* The positions of the ids of a list ascend.
LEMMA PosUp ==
    ASSUME NEW L, NEW off, NEW N, Region(L, off, N)
    PROVE  PosRule(L, off, N)
<1>1. EndsRule(L) /\ off \in Nat /\ N \in Nat /\ Len(L) \in Nat
  BY EndsFound DEF Region, UpList
<1>2. ASSUME NEW k \in 0..Len(L)
      PROVE  Pos(L, off, N, k) \in Nat
  <2> DEFINE a == Ends(L)[k]
  <2>1. a \in Nat
    BY <1>1 DEF EndsRule
  <2> HIDE DEF a
  <2>2. off + N * 2 + a \in Nat
    BY <1>1, <2>1
  <2> QED BY <2>2 DEF Pos, a
<1>3. ASSUME NEW j \in 0..Len(L), NEW k \in 0..Len(L), j < k
      PROVE  Pos(L, off, N, j) < Pos(L, off, N, k)
  <2> DEFINE a == Ends(L)[k]
             b == Ends(L)[j]
  <2>1. j \in 0..k
    BY <1>1, <1>3
  <2>2. a \in Nat /\ b \in Nat /\ b < a
    BY <1>1, <1>3, <2>1 DEF EndsRule
  <2> HIDE DEF a, b
  <2>3. off + N * 2 + b < off + N * 2 + a
    BY <1>1, <2>2
  <2> QED BY <2>3 DEF Pos, a, b
<1> QED BY <1>2, <1>3 DEF PosRule

\* The gap at the position of the next id is read back.
LEMMA ReadNext ==
    ASSUME NEW post, NEW L, NEW off, NEW N, View(post, L, off, N), NEW k \in Nat, k < Len(L)
    PROVE  /\ read_varint(post, Pos(L, off, N, k)) = <<Gap(L, k + 1), Len(Bytes(L, k + 1))>>
           /\ Pos(L, off, N, k + 1) = Pos(L, off, N, k) + Len(Bytes(L, k + 1))
           /\ Gap(L, k + 1) \in Nat
<1> DEFINE p == Pos(L, off, N, k)
           s == Bytes(L, k + 1)
           n == Len(s)
<1>1. Region(L, off, N) /\ UpList(L) /\ EndsRule(L) /\ off \in Nat /\ N \in Nat /\ Len(L) \in Nat
  BY EndsFound DEF View, Region, UpList
<1>2. k + 1 \in 1..Len(L) /\ k + 1 \in 0..Len(L) /\ Len(L) \in 0..Len(L) /\ k \in 0..Len(L)
  BY <1>1
<1>3. Encoded(s, Gap(L, k + 1)) /\ n \in Nat /\ Gap(L, k + 1) \in Nat
  BY <1>1, <1>2, GapBytes
<1>4. Ends(L)[k + 1] = Ends(L)[k] + n /\ Ends(L)[k] \in Nat /\ Ends(L)[k + 1] <= Ends(L)[Len(L)]
  <2>1. Ends(L)[k + 1] = Ends(L)[k] + n /\ Ends(L)[k] \in Nat
    BY <1>1, NextGap
  <2>2. k + 1 \in 0..Len(L)
    BY <1>2
  <2> QED BY <1>1, <1>2, <2>1, <2>2 DEF EndsRule
<1>5. Ends(L)[Len(L)] \in Nat
  BY <1>1, <1>2 DEF EndsRule
<1>6. p \in Nat /\ p + n <= Len(post) /\ Pos(L, off, N, k + 1) = p + n
  <2> DEFINE a == Ends(L)[k]
             b == Ends(L)[k + 1]
             c == Ends(L)[Len(L)]
  <2>1. off + N * 2 + c <= Len(post) /\ Len(post) \in Nat
    BY DEF View
  <2>2. p = off + N * 2 + a /\ Pos(L, off, N, k + 1) = off + N * 2 + b
    BY DEF Pos
  <2>3. a \in Nat /\ c \in Nat /\ b = a + n /\ b <= c
    BY <1>4, <1>5
  <2> HIDE DEF a, b, c, n, p
  <2> QED BY <1>1, <1>3, <2>1, <2>2, <2>3
<1>7. \A i \in 1..n : post[p + i] = s[i]
  <2>1. k + 1 \in 1..Len(L) /\ (k + 1) - 1 = k
    BY <1>2
  <2>2. \A j \in 1..Len(L) : \A i \in 1..Len(Bytes(L, j)) :
          post[off + N * 2 + Ends(L)[j - 1] + i] = Bytes(L, j)[i]
    BY DEF View, Filled
  <2> QED BY <2>1, <2>2 DEF Pos
<1>8. HoldsAt(post, p, s)
  BY <1>6, <1>7 DEF HoldsAt, View
<1> HIDE DEF p, s
<1>9. read_varint(post, p) = <<Gap(L, k + 1), n>>
  BY <1>3, <1>8, VarintRead
<1> QED BY <1>3, <1>6, <1>9 DEF p, s

\* Block q starts a gap anew, and no other id of it does.
LEMMA InBlock ==
    ASSUME NEW q \in Nat, NEW r \in 0..(TRIGRAM_BLOCK - 1), NEW c, c = q * TRIGRAM_BLOCK + r
    PROVE  c \in Nat /\ (c % TRIGRAM_BLOCK = 0 <=> r = 0)
<1> DEFINE B == TRIGRAM_BLOCK
           x == q * B
           w == c \div B
<1>1. B \in Nat /\ B >= 1 /\ x \in Nat /\ r \in Nat /\ r < B
  BY SearchAssumption
<1>2. c \in Nat
  <2> HIDE DEF x
  <2>1. c = x + r
    BY DEF x
  <2> QED BY <1>1, <2>1
<1>3. /\ w \in Nat
      /\ \A b \in Nat : b <= w <=> b * B <= c
      /\ c % B = 0 <=> w * B = c
  BY <1>2, BlockOf DEF BlockRule
<1>4. (q + 1) * B = x + B
  BY <1>1
<1> HIDE DEF x, w
<1>5. c = x + r /\ x <= c /\ ~ (x + B <= c)
  <2>1. c = x + r
    BY DEF x
  <2> QED BY <1>1, <2>1
<1>6. w = q
  <2>1. q <= w
    BY <1>3, <1>5 DEF x
  <2>2. ~ (q + 1 <= w)
    <3>1. q + 1 \in Nat
      OBVIOUS
    <3> QED BY <1>3, <1>4, <1>5, <3>1
  <2> QED BY <1>3, <2>1, <2>2
<1>7. c % B = 0 <=> x = c
  BY <1>3, <1>6 DEF x
<1> QED BY <1>1, <1>2, <1>5, <1>7

DecodeNext(post, end, k, prev) ==
    LET g == read_varint(post, prev[2])
    IN  IF prev[2] >= end THEN prev
        ELSE <<Append(prev[1], IF k = 1 THEN g[1] ELSE Last(prev[1]) + g[1]), prev[2] + g[2]>>

DecodeRuleSteps(W, n, post, pos, end) ==
    /\ W = [k \in 0..n |-> W[k]] /\ W[0] = <<<<>>, pos>>
    /\ \A k \in 1..n : W[k] = DecodeNext(post, end, k, W[k - 1])

\* DecodeBlock takes n steps.
LEMMA DecodeRule ==
    ASSUME NEW post, NEW pos, NEW end, NEW n \in Nat, NEW W, DecodeRuleSteps(W, n, post, pos, end)
    PROVE  DecodeBlock(post, pos, end, n) = W[n]
<1>0. /\ W = [k \in 0..n |-> W[k]] /\ W[0] = <<<<>>, pos>>
      /\ \A k \in 1..n : W[k] = DecodeNext(post, end, k, W[k - 1])
  BY Zenon DEF DecodeRuleSteps
<1> DEFINE Body(f, k) == IF k = 0 THEN <<<<>>, pos>> ELSE DecodeNext(post, end, k, f[k - 1])
           E(f) == f = [k \in 0..n |-> Body(f, k)]
           it == CHOOSE f : E(f)
<1>1. \A k \in 0..n : W[k] = Body(W, k)
  <2>1. \A k \in 0..n : k = 0 \/ k \in 1..n
    OBVIOUS
  <2> QED BY <1>0, <2>1, Zenon
<1>2. E(W)
  <2> HIDE DEF Body
  <2>1. W = [k \in 0..n |-> Body(W, k)]
    BY <1>0, <1>1
  <2> QED BY <2>1, Zenon
<1>3. E(it)
  <2> HIDE DEF E
  <2> QED BY <1>2
<1>4. DecodeBlock(post, pos, end, n) = it[n]
  BY Zenon DEF DecodeBlock, DecodeNext
<1> HIDE DEF it
<1>5. \A k \in 0..n : it[k] = Body(it, k)
  <2>1. it = [k \in 0..n |-> Body(it, k)]
    BY <1>3
  <2> HIDE DEF Body
  <2> QED BY <2>1
<1> DEFINE P == {k \in 0..n : it[k] = W[k]}
<1>6. 0 \in P
  <2>1. 0 \in 0..n
    OBVIOUS
  <2>2. it[0] = <<<<>>, pos>>
    BY <1>5, <2>1, Zenon
  <2> QED BY <1>0, <2>1, <2>2
<1>7. ASSUME NEW k \in 1..n, k - 1 \in P
      PROVE  k \in P
  <2>1. k \in 0..n /\ k # 0
    OBVIOUS
  <2>2. it[k - 1] = W[k - 1]
    BY <1>7
  <2>3. it[k] = DecodeNext(post, end, k, it[k - 1])
    BY <1>5, <2>1, Zenon
  <2>4. it[k] = W[k]
    BY <1>0, <2>2, <2>3, Zenon
  <2> QED BY <2>1, <2>4
<1> HIDE DEF P
<1>8. \A k \in 0..n : k \in P
  BY <1>6, <1>7, UpTo
<1>9. it[n] = W[n]
  BY <1>8 DEF P
<1> QED BY <1>4, <1>9, Zenon

Read(L, off, N, k0, k) == <<Slice(L, k0, k), Pos(L, off, N, k)>>

\* One step of DecodeBlock appends the next id of the block, or stops at its end.
LEMMA DecodeStep ==
    ASSUME NEW post, NEW L, NEW off, NEW N, View(post, L, off, N), NEW q \in Nat,
           NEW k0, k0 = q * TRIGRAM_BLOCK, NEW e \in 0..Len(L), k0 <= e,
           NEW k \in 1..TRIGRAM_BLOCK
    PROVE  Read(L, off, N, k0, Smaller(k0 + k, e)) =
             DecodeNext(post, Pos(L, off, N, e), k, Read(L, off, N, k0, Smaller(k0 + (k - 1), e)))
<1> DEFINE a == Smaller(k0 + (k - 1), e)
           b == Smaller(k0 + k, e)
           prev == Read(L, off, N, k0, a)
           g == read_varint(post, Pos(L, off, N, a))
<1>1. Region(L, off, N) /\ UpList(L) /\ L \in Seq(Nat) /\ Len(L) \in Nat
  BY DEF View, Region, UpList
<1>2. k0 \in Nat /\ TRIGRAM_BLOCK \in Nat
  BY SearchAssumption
<1>3. PosRule(L, off, N)
  BY <1>1, PosUp
<1>4. prev[1] = Slice(L, k0, a) /\ prev[2] = Pos(L, off, N, a)
  BY DEF Read
<1>5. DecodeNext(post, Pos(L, off, N, e), k, prev) =
        IF Pos(L, off, N, a) >= Pos(L, off, N, e) THEN prev
        ELSE <<Append(Slice(L, k0, a), IF k = 1 THEN g[1] ELSE Last(Slice(L, k0, a)) + g[1]), Pos(L, off, N, a) + g[2]>>
  <2> HIDE DEF prev, a
  <2> QED BY <1>4, Zenon DEF DecodeNext
<1> HIDE DEF prev
<1>6. CASE k0 + (k - 1) >= e
  <2>1. a = e /\ b = e
    BY <1>2, <1>6 DEF Smaller
  <2>2. Pos(L, off, N, a) >= Pos(L, off, N, e)
    BY <1>3, <2>1 DEF PosRule
  <2> QED BY <1>5, <2>1, <2>2 DEF prev
<1>7. CASE k0 + (k - 1) < e
  <2>1. a = k0 + (k - 1) /\ b = a + 1 /\ a < e /\ a \in Nat /\ a \in 0..Len(L) /\ a < Len(L) /\ k0 \in 0..Len(L)
        /\ b = k0 + k /\ k0 <= a /\ a \in k0..Len(L) /\ a - k0 = k - 1
    BY <1>1, <1>2, <1>7 DEF Smaller
  <2> HIDE DEF a, b
  <2>2. ~ (Pos(L, off, N, a) >= Pos(L, off, N, e))
    <3>1. Pos(L, off, N, a) < Pos(L, off, N, e) /\ Pos(L, off, N, a) \in Nat /\ Pos(L, off, N, e) \in Nat
      BY <1>3, <2>1 DEF PosRule
    <3> QED BY <3>1
  <2>3. g = <<Gap(L, a + 1), Len(Bytes(L, a + 1))>> /\ Pos(L, off, N, a + 1) = Pos(L, off, N, a) + Len(Bytes(L, a + 1))
    BY <2>1, ReadNext
  <2>4. /\ Slice(L, k0, a) \in Seq(Nat) /\ Len(Slice(L, k0, a)) = k - 1
        /\ L[a + 1] \in Nat /\ Slice(L, k0, a + 1) = Append(Slice(L, k0, a), L[a + 1])
    <3>1. SliceRule(L, Nat)
      BY <1>1, SliceParts
    <3> QED BY <2>1, <3>1 DEF SliceRule
  <2>5. (IF k = 1 THEN g[1] ELSE Last(Slice(L, k0, a)) + g[1]) = L[a + 1]
    <3>1. g[1] = Gap(L, a + 1)
      BY <2>3
    <3>2. Gap(L, a + 1) = IF a % TRIGRAM_BLOCK = 0 THEN L[a + 1] ELSE L[a + 1] - L[a]
      <4>1. a \in Nat /\ a + 1 <= Len(L)
        BY <1>1, <2>1
      <4> QED BY <1>1, <4>1, NextGap
    <3>3. a % TRIGRAM_BLOCK = 0 <=> k - 1 = 0
      <4>1. k - 1 \in 0..(TRIGRAM_BLOCK - 1)
        BY <1>2
      <4> QED BY <2>1, <4>1, InBlock
    <3>4. CASE k = 1
      BY <3>1, <3>2, <3>3, <3>4
    <3>5. CASE k # 1
      <4>1. k - 1 \in 1..(a - k0) /\ k0 + (k - 1) = a /\ a \in 1..Len(L)
        BY <1>1, <1>2, <2>1, <3>5
      <4>2. Last(Slice(L, k0, a)) = L[a]
        <5>1. \A i \in 1..(a - k0) : Slice(L, k0, a)[i] = L[k0 + i]
          <6>1. k0 \in 0..Len(L) /\ a \in k0..Len(L) /\ L \in Seq(Nat)
            BY <1>1, <2>1
          <6> QED BY <6>1, SliceAt, Zenon
        <5>2. Slice(L, k0, a)[k - 1] = L[a]
          BY <4>1, <5>1
        <5> QED BY <2>4, <5>2 DEF Last
      <4>3. L[a] \in Nat
        BY <1>1, <4>1
      <4>4. g[1] = L[a + 1] - L[a]
        BY <3>1, <3>2, <3>3, <3>5
      <4>5. L[a] + (L[a + 1] - L[a]) = L[a + 1]
        BY <2>4, <4>3
      <4> QED BY <3>5, <4>2, <4>4, <4>5
    <3> QED BY <3>4, <3>5
  <2>6. Pos(L, off, N, a) + g[2] = Pos(L, off, N, a + 1)
    <3>1. g[2] = Len(Bytes(L, a + 1))
      BY <2>3
    <3> QED BY <2>3, <3>1
  <2>7. DecodeNext(post, Pos(L, off, N, e), k, prev) = <<Slice(L, k0, a + 1), Pos(L, off, N, a + 1)>>
    <3> HIDE DEF g
    <3> QED BY <1>5, <2>2, <2>4, <2>5, <2>6
  <2>8. Read(L, off, N, k0, b) = <<Slice(L, k0, a + 1), Pos(L, off, N, a + 1)>>
    BY <2>1 DEF Read
  <2> QED BY <2>7, <2>8 DEF prev, a, b
<1> QED BY <1>1, <1>2, <1>6, <1>7

\* A block decodes to its ids: all of them, or the first n.
LEMMA BlockDecoded ==
    ASSUME NEW post, NEW L, NEW off, NEW N, View(post, L, off, N), NEW q \in Nat,
           NEW k0, k0 = q * TRIGRAM_BLOCK, NEW e \in 0..Len(L), k0 <= e, NEW n \in 0..TRIGRAM_BLOCK
    PROVE  DecodeBlock(post, Pos(L, off, N, k0), Pos(L, off, N, e), n) = Read(L, off, N, k0, Smaller(k0 + n, e))
<1> DEFINE W == [k \in 0..n |-> Read(L, off, N, k0, Smaller(k0 + k, e))]
<1>1. k0 \in Nat /\ TRIGRAM_BLOCK \in Nat /\ n \in Nat /\ n <= TRIGRAM_BLOCK /\ L \in Seq(Nat) /\ Len(L) \in Nat
  BY SearchAssumption DEF View, Region, UpList
<1>2. W[0] = <<<<>>, Pos(L, off, N, k0)>>
  <2>1. Smaller(k0 + 0, e) = k0 /\ k0 \in 0..Len(L) /\ 0 \in 0..n
    BY <1>1 DEF Smaller
  <2>2. Slice(L, k0, k0) = <<>>
    BY <1>1, <2>1, SliceParts DEF SliceRule
  <2> QED BY <2>1, <2>2 DEF Read
<1>3. ASSUME NEW k \in 1..n
      PROVE  W[k] = DecodeNext(post, Pos(L, off, N, e), k, W[k - 1])
  <2>1. k \in 0..n /\ k - 1 \in 0..n /\ k \in 1..TRIGRAM_BLOCK
    BY <1>1
  <2>2. W[k] = Read(L, off, N, k0, Smaller(k0 + k, e)) /\ W[k - 1] = Read(L, off, N, k0, Smaller(k0 + (k - 1), e))
    BY <2>1
  <2> HIDE DEF W
  <2> QED BY <2>1, <2>2, DecodeStep
<1>4. W = [k \in 0..n |-> W[k]]
  OBVIOUS
<1>5. W[n] = Read(L, off, N, k0, Smaller(k0 + n, e))
  BY <1>1
<1> HIDE DEF W
<1>6. DecodeBlock(post, Pos(L, off, N, k0), Pos(L, off, N, e), n) = W[n]
  <2> DEFINE pos == Pos(L, off, N, k0)
             end == Pos(L, off, N, e)
  <2>1. W[0] = <<<<>>, pos>> /\ \A k \in 1..n : W[k] = DecodeNext(post, end, k, W[k - 1])
    BY <1>2, <1>3
  <2> HIDE DEF pos, end
  <2>2. DecodeBlock(post, pos, end, n) = W[n]
    <3>1. DecodeRuleSteps(W, n, post, pos, end)
      BY <1>4, <2>1, Zenon DEF DecodeRuleSteps
    <3> QED BY <1>1, <3>1, DecodeRule
  <2> QED BY <2>2 DEF pos, end
<1> QED BY <1>5, <1>6

PostingsNext(post, p, b, prev) ==
    LET blk == DecodeBlock(post, prev[2], p.off + p.len,
                           Smaller(TRIGRAM_BLOCK, p.count - (b - 1) * TRIGRAM_BLOCK))
    IN  <<prev[1] \o blk[1], blk[2]>>

PostingsRuleSteps(W, n, post, p) ==
    /\ W = [k \in 0..n |-> W[k]] /\ W[0] = <<<<>>, p.off + NB(p.count) * SKIP_ENTRY>>
    /\ \A k \in 1..n : W[k] = PostingsNext(post, p, k, W[k - 1])

\* trigram_postings takes a step per block.
LEMMA PostingsRule ==
    ASSUME NEW post, NEW p, NB(p.count) \in Nat, NEW W, PostingsRuleSteps(W, NB(p.count), post, p)
    PROVE  trigram_postings(post, p) = W[NB(p.count)][1]
<1>0. /\ W = [k \in 0..NB(p.count) |-> W[k]] /\ W[0] = <<<<>>, p.off + NB(p.count) * SKIP_ENTRY>>
      /\ \A k \in 1..NB(p.count) : W[k] = PostingsNext(post, p, k, W[k - 1])
  BY Zenon DEF PostingsRuleSteps
<1> DEFINE Body(f, k) == IF k = 0 THEN <<<<>>, p.off + NB(p.count) * SKIP_ENTRY>> ELSE PostingsNext(post, p, k, f[k - 1])
           E(f) == f = [k \in 0..NB(p.count) |-> Body(f, k)]
           it == CHOOSE f : E(f)
<1>1. \A k \in 0..NB(p.count) : W[k] = Body(W, k)
  <2>1. \A k \in 0..NB(p.count) : k = 0 \/ k \in 1..NB(p.count)
    OBVIOUS
  <2> QED BY <1>0, <2>1, Zenon
<1>2. E(W)
  <2> HIDE DEF Body
  <2>1. W = [k \in 0..NB(p.count) |-> Body(W, k)]
    BY <1>0, <1>1
  <2> QED BY <2>1, Zenon
<1>3. E(it)
  <2> HIDE DEF E
  <2> QED BY <1>2
<1>4. trigram_postings(post, p) = it[NB(p.count)][1]
  BY Zenon DEF trigram_postings, PostingsNext, NB
<1> HIDE DEF it
<1>5. \A k \in 0..NB(p.count) : it[k] = Body(it, k)
  <2>1. it = [k \in 0..NB(p.count) |-> Body(it, k)]
    BY <1>3
  <2> HIDE DEF Body
  <2> QED BY <2>1
<1> DEFINE P == {k \in 0..NB(p.count) : it[k] = W[k]}
<1>6. 0 \in P
  <2>1. 0 \in 0..NB(p.count)
    OBVIOUS
  <2>2. it[0] = <<<<>>, p.off + NB(p.count) * SKIP_ENTRY>>
    BY <1>5, <2>1, Zenon
  <2> QED BY <1>0, <2>1, <2>2
<1>7. ASSUME NEW k \in 1..NB(p.count), k - 1 \in P
      PROVE  k \in P
  <2>1. k \in 0..NB(p.count) /\ k # 0
    OBVIOUS
  <2>2. it[k - 1] = W[k - 1]
    BY <1>7
  <2>3. it[k] = PostingsNext(post, p, k, it[k - 1])
    BY <1>5, <2>1, Zenon
  <2>4. it[k] = W[k]
    BY <1>0, <2>2, <2>3, Zenon
  <2> QED BY <2>1, <2>4
<1> HIDE DEF P
<1>8. \A k \in 0..NB(p.count) : k \in P
  BY <1>6, <1>7, UpTo
<1>9. it[NB(p.count)] = W[NB(p.count)]
  BY <1>8 DEF P
<1> QED BY <1>4, <1>9, Zenon

\* trigram_postings gives back the list.
LEMMA PostingsRead ==
    ASSUME NEW post, NEW L, NEW off, NEW N, View(post, L, off, N), NEW p,
           p.off = off, p.count = Len(L), p.len = N * 2 + Ends(L)[Len(L)]
    PROVE  trigram_postings(post, p) = L
<1> DEFINE B == TRIGRAM_BLOCK
           n == Len(L)
           W == [b \in 0..N |-> Read(L, off, N, 0, Smaller(b * B, n))]
<1>1. /\ Region(L, off, N) /\ UpList(L) /\ L \in Seq(Nat) /\ n \in Nat /\ off \in Nat /\ N \in Nat /\ N = NB(n)
      /\ B \in Nat /\ B >= 1
  BY SearchAssumption DEF View, Region, UpList
<1>2. \A b \in Nat : b < N <=> b * B < n
  BY <1>1, BlockCount
<1>3. SliceRule(L, Nat)
  BY <1>1, SliceParts
<1>4. Ends(L)[0] = 0 /\ Ends(L)[n] \in Nat
  <2>1. EndsRule(L) /\ n \in 0..n
    BY <1>1, EndsFound
  <2> QED BY <2>1 DEF EndsRule
<1>5. p.off + p.len = Pos(L, off, N, n)
  <2> DEFINE f == Ends(L)[n]
  <2>1. p.len = N * 2 + f
    OBVIOUS
  <2> HIDE DEF f
  <2>2. off + (N * 2 + f) = off + N * 2 + f
    BY <1>1, <1>4 DEF f
  <2> QED BY <2>1, <2>2 DEF Pos, f
<1>6. W[0] = <<<<>>, p.off + NB(p.count) * SKIP_ENTRY>>
  <2>1. Smaller(0 * B, n) = 0 /\ 0 \in 0..n /\ 0 \in 0..N
    BY <1>1 DEF Smaller
  <2>2. Slice(L, 0, 0) = <<>>
    BY <1>3, <2>1 DEF SliceRule
  <2>3. Pos(L, off, N, 0) = off + N * 2
    <3>1. off + N * 2 + 0 = off + N * 2
      BY <1>1
    <3> QED BY <1>4, <3>1 DEF Pos
  <2>4. NB(p.count) * SKIP_ENTRY = N * 2
    BY <1>1 DEF SKIP_ENTRY
  <2> QED BY <2>1, <2>2, <2>3, <2>4 DEF Read
<1>7. ASSUME NEW k \in 1..N
      PROVE  W[k] = PostingsNext(post, p, k, W[k - 1])
  <2> DEFINE q == k - 1
             a == q * B
             c == Smaller(B, n - a)
             b == Smaller(k * B, n)
             blk == DecodeBlock(post, Pos(L, off, N, a), Pos(L, off, N, n), c)
             prev == W[k - 1]
  <2>1. q \in Nat /\ q < N /\ q \in 0..N /\ k \in 0..N /\ k \in Nat /\ k = q + 1
    BY <1>1
  <2> HIDE DEF q
  <2>2. a \in Nat /\ a < n /\ k * B = a + B
    <3>1. a \in Nat /\ k * B = a + B
      BY <1>1, <2>1
    <3> QED BY <1>2, <2>1, <3>1
  <2>3. W[k] = Read(L, off, N, 0, b)
    BY <2>1
  <2>4. prev = Read(L, off, N, 0, a)
    <3>1. prev = Read(L, off, N, 0, Smaller(a, n))
      BY <2>1 DEF q
    <3>2. Smaller(a, n) = a
      <4> HIDE DEF a
      <4> QED BY <1>1, <2>2 DEF Smaller
    <3> QED BY <3>1, <3>2
  <2>5. a = q * TRIGRAM_BLOCK
    OBVIOUS
  <2>6. b = Smaller(a + B, n)
    BY <2>2
  <2> HIDE DEF W, prev, a, b
  <2>7. c \in 0..TRIGRAM_BLOCK /\ Smaller(a + c, n) = b /\ a \in 0..n /\ b \in a..n /\ n \in 0..n /\ a <= n
    BY <1>1, <2>2, <2>6 DEF Smaller
  <2> HIDE DEF c
  <2>8. blk = Read(L, off, N, a, b)
    <3>1. blk = Read(L, off, N, a, Smaller(a + c, n))
      BY <2>1, <2>5, <2>7, BlockDecoded
    <3> QED BY <2>7, <3>1
  <2>9. PostingsNext(post, p, k, prev) = <<prev[1] \o blk[1], blk[2]>>
    <3>1. prev[2] = Pos(L, off, N, a)
      BY <2>4 DEF Read
    <3>2. Smaller(TRIGRAM_BLOCK, p.count - (k - 1) * TRIGRAM_BLOCK) = c
      BY DEF c, a, q
    <3> HIDE DEF n
    <3> QED BY <1>5, <3>1, <3>2, Zenon DEF PostingsNext
  <2> HIDE DEF blk
  <2>10. prev[1] = Slice(L, 0, a) /\ blk[1] = Slice(L, a, b) /\ blk[2] = Pos(L, off, N, b)
    BY <2>4, <2>8 DEF Read
  <2>11. Slice(L, 0, a) \o Slice(L, a, b) = Slice(L, 0, b)
    <3>1. 0 \in 0..Len(L) /\ a \in 0..Len(L) /\ b \in a..Len(L)
      BY <1>1, <2>7
    <3> QED BY <1>3, <3>1, Zenon DEF SliceRule
  <2>12. PostingsNext(post, p, k, prev) = Read(L, off, N, 0, b)
    BY <2>9, <2>10, <2>11, Zenon DEF Read
  <2> QED BY <2>3, <2>12 DEF prev
<1>8. W = [b \in 0..N |-> W[b]]
  OBVIOUS
<1>9. W[N] = Read(L, off, N, 0, n)
  <2> DEFINE a == N * B
  <2>1. a \in Nat /\ ~ (a < n)
    <3>1. a \in Nat /\ N \in Nat /\ ~ (N < N)
      BY <1>1
    <3> HIDE DEF n
    <3> QED BY <1>2, <3>1
  <2>2. W[N] = Read(L, off, N, 0, Smaller(a, n))
    BY <1>1
  <2> HIDE DEF a
  <2>3. Smaller(a, n) = n
    BY <1>1, <2>1 DEF Smaller
  <2> QED BY <2>2, <2>3
<1> HIDE DEF W, n
<1>10. NB(p.count) = N /\ N \in Nat
  BY <1>1 DEF n
<1>11. PostingsRuleSteps(W, NB(p.count), post, p)
  BY <1>6, <1>7, <1>8, <1>10 DEF PostingsRuleSteps
<1>12. trigram_postings(post, p) = W[NB(p.count)][1]
  BY <1>10, <1>11, PostingsRule
<1>13. W[N][1] = Slice(L, 0, n)
  BY <1>9 DEF Read
<1>14. Slice(L, 0, n) = L
  BY <1>3 DEF SliceRule, n
<1> QED BY <1>10, <1>12, <1>13, <1>14

\* Each region of the index holds its list.
LEMMA ViewOf ==
    ASSUME NEW I, NEW E, IndexFacts(I, E), NEW t \in Tris(E)
    PROVE  /\ View(I.post, ListOf(E, t), OfTri(I.dict, t).off, NB(Len(ListOf(E, t))))
           /\ OfTri(I.dict, t).count = Len(ListOf(E, t)) /\ OfTri(I.dict, t).tri = t
           /\ OfTri(I.dict, t).len = NB(Len(ListOf(E, t))) * 2 + Ends(ListOf(E, t))[Len(ListOf(E, t))]
           /\ trigram_postings(I.post, OfTri(I.dict, t)) = ListOf(E, t)
<1> DEFINE L == ListOf(E, t)
           p == OfTri(I.dict, t)
           N == NB(Len(L))
           f == Ends(L)[Len(L)]
           post == I.post
           n == DictEnd(I.dict)
<1>1. E \in Seq(Event) /\ DictFacts(I.dict, E) /\ OfRule(I.dict, E) /\ FullOf(post, I.dict, E)
  BY DEF IndexFacts
<1>2. Region(L, p.off, N) /\ EndOf(p) = p.off + (N * 2 + f)
  BY <1>1, RegionOf
<1>3. p \in Desc /\ Described(p, E, t)
  BY <1>1 DEF OfRule
<1>4. p.count = Len(L) /\ p.tri = t /\ p.len = N * 2 + f
  BY <1>3 DEF Described, RegionLen, SKIP_ENTRY
<1>5. Filled(post, L, p.off, N, Len(L))
  BY <1>1 DEF FullOf, FilledOf
<1>6. n \in Nat /\ Len(post) = n
  <2>1. n \in Nat
    BY <1>1 DEF DictFacts
  <2>2. post = [x \in 1..n |-> post[x]]
    BY <1>1 DEF FullOf
  <2> HIDE DEF n, post
  <2>3. post \in Seq({post[x] : x \in 1..n})
    BY <2>1, <2>2
  <2>4. DOMAIN post = 1..n
    BY <2>2
  <2> QED BY <2>1, <2>3, <2>4
<1>7. p.off \in Nat /\ N \in Nat /\ f \in Nat /\ p.len \in Nat /\ Len(L) >= 1
  <2>1. UpList(L) /\ p.off \in Nat /\ N \in Nat /\ Len(L) \in Nat
    BY <1>2 DEF Region, UpList
  <2>2. EndsRule(L) /\ Len(L) \in 0..Len(L)
    BY <2>1, EndsFound
  <2>3. ListFacts(E, t)
    BY <1>1, IdLists
  <2> QED BY <1>3, <2>1, <2>2, <2>3 DEF EndsRule, Desc, ListFacts
<1>8. EndOf(p) <= n
  <2>1. \A x \in Nat : (\E u \in Tris(E) : OfTri(I.dict, u).off < x /\ x <= EndOf(OfTri(I.dict, u))) => x \in 1..n
    BY <1>1 DEF OfRule
  <2>2. EndOf(p) \in Nat /\ EndOf(p) <= EndOf(p)
    BY <1>7 DEF EndOf
  <2>3. p.len > 0 => p.off < EndOf(p)
    BY <1>7 DEF EndOf
  <2>4. p.len > 0
    <3>1. f > 0
      <4>1. EndsRule(L) /\ Len(L) \in Nat /\ 0 \in 0..Len(L) /\ Len(L) \in 0..Len(L)
        <5>1. UpList(L) /\ Len(L) \in Nat
          BY <1>2 DEF Region, UpList
        <5> QED BY <5>1, EndsFound
      <4>2. Ends(L)[0] = 0 /\ Ends(L)[0] < Ends(L)[Len(L)]
        BY <1>7, <4>1 DEF EndsRule
      <4> QED BY <4>2
    <3> QED BY <1>4, <1>7, <3>1
  <2> HIDE DEF p
  <2> DEFINE x == EndOf(p)
  <2>5. x \in 1..n
    BY <2>1, <2>2, <2>3, <2>4 DEF p
  <2> QED BY <1>6, <2>5
<1> HIDE DEF p, N, f, n, L
<1>9. p.off + N * 2 + f <= Len(post)
  BY <1>2, <1>6, <1>7, <1>8
<1>10. View(post, L, p.off, N)
  BY <1>2, <1>5, <1>6, <1>9 DEF View, f
<1>11. trigram_postings(post, p) = L
  BY <1>4, <1>10, PostingsRead DEF f
<1> QED BY <1>4, <1>10, <1>11 DEF p, N, f, L

RowsWith(table, t) == {r \in DOMAIN table : HasSubstring(Lower(table[r][1]), t)}

\* The ids of a trigram are the rows that have it, counted from 0.
LEMMA IdsAreRows ==
    ASSUME NEW table \in Seq(Text \X Int), NEW t \in Tris(visit(table))
    PROVE  /\ t \in Trigram
           /\ Ids(visit(table), t) = {r - 1 : r \in RowsWith(table, t)}
           /\ Len(ListOf(visit(table), t)) = Cardinality(RowsWith(table, t))
           /\ ListOf(visit(table), t) = InOrder({r - 1 : r \in RowsWith(table, t)}, <)
<1> DEFINE E == visit(table)
           R == RowsWith(table, t)
           D == {r - 1 : r \in R}
<1>1. EventsOf(E, table)
  BY Visited
<1>2. E \in Seq(Event)
  BY <1>1 DEF EventsOf
<1>3. t \in Trigram /\ ListFacts(E, t)
  <2>1. t \in Trigram
    BY <1>2 DEF Tris, Event
  <2> QED BY <1>2, <2>1, IdLists
<1>4. \A d \in Nat : <<t, d>> \in ToSet(E) <=> d + 1 \in 1..Len(table) /\ HasSubstring(Lower(table[d + 1][1]), t)
  BY <1>1, <1>3 DEF EventsOf
<1>5. R \in SUBSET (1..Len(table)) /\ Len(table) \in Nat /\ \A r \in 1..Len(table) : r \in R <=> HasSubstring(Lower(table[r][1]), t)
  BY DEF RowsWith
<1> HIDE DEF R, E
<1>6. \A d : d \in Ids(E, t) <=> d \in D
  <2>1. \A d : d \in Ids(E, t) <=> d \in Nat /\ d + 1 \in 1..Len(table) /\ d + 1 \in R
    BY <1>4, <1>5 DEF Ids
  <2>2. \A d : d \in D <=> d \in Nat /\ d + 1 \in 1..Len(table) /\ d + 1 \in R
    <3>1. ASSUME NEW d \in D
          PROVE  d \in Nat /\ d + 1 \in 1..Len(table) /\ d + 1 \in R
      <4>1. PICK r \in R : d = r - 1
        OBVIOUS
      <4>2. r \in 1..Len(table) /\ d + 1 = r /\ d \in Nat
        BY <1>5, <4>1
      <4> QED BY <4>2
    <3>2. ASSUME NEW d \in Nat, d + 1 \in R
          PROVE  d \in D
      <4>1. d = (d + 1) - 1
        OBVIOUS
      <4> QED BY <3>2, <4>1
    <3> HIDE DEF D
    <3> QED BY <3>1, <3>2
  <2> HIDE DEF D
  <2> QED BY <2>1, <2>2
<1>7. Ids(E, t) = D
  <2> HIDE DEF D
  <2> QED BY <1>6
<1>8. Cardinality(R) = Cardinality(D) /\ IsFiniteSet(R)
  <2>1. IsFiniteSet(R)
    <3>1. IsFiniteSet(1..Len(table))
      BY <1>5, FS_Interval
    <3> QED BY <1>5, <3>1, FS_Subset
  <2> DEFINE f == [r \in R |-> r - 1]
  <2>2. f \in Bijection(R, D)
    <3>1. f \in [R -> D]
      OBVIOUS
    <3>2. \A d \in D : \E r \in R : f[r] = d
      OBVIOUS
    <3>3. \A r, q \in R : f[r] = f[q] => r = q
      <4>1. \A r, q \in R : r \in Int /\ q \in Int /\ f[r] = r - 1 /\ f[q] = q - 1
        BY <1>5
      <4> HIDE DEF f
      <4> QED BY <4>1
    <3> HIDE DEF f, D
    <3>4. f \in Injection(R, D)
      BY <3>1, <3>3 DEF Injection, IsInjective
    <3>5. f \in Surjection(R, D)
      BY <3>1, <3>2 DEF Surjection
    <3> QED BY <3>4, <3>5 DEF Bijection
  <2> HIDE DEF f, D
  <2>3. Cardinality(R) = Cardinality(D)
    BY <2>1, <2>2, FS_Bijection DEF ExistsBijection
  <2> QED BY <2>1, <2>3
<1>9. Len(ListOf(E, t)) = Cardinality(R)
  BY <1>3, <1>7, <1>8 DEF ListFacts
<1>10. ListOf(E, t) = InOrder(D, <)
  <2> HIDE DEF D
  <2> QED BY <1>7, Zenon DEF ListOf
<1> QED BY <1>3, <1>7, <1>9, <1>10 DEF E, R

IndexRight(I, table) ==
    /\ DOMAIN I.post = 1..(IF I.dict = <<>> THEN 0 ELSE Last(I.dict).off + Last(I.dict).len)
    /\ \A p \in ToSet(I.dict) :
          /\ p.count = Cardinality(RowsWith(table, p.tri))
          /\ trigram_postings(I.post, p) = InOrder({r - 1 : r \in RowsWith(table, p.tri)}, <)

\* The index built over a table has every region filled with the rows.
LEMMA BuiltRight ==
    ASSUME NEW table \in Seq(Text \X Int)
    PROVE  IndexRight(build_trigram_index(table), table)
<1> DEFINE I == build_trigram_index(table)
           E == visit(table)
<1>1. IndexFacts(I, E)
  BY IndexBuilt
<1> HIDE DEF I
<1>2. DOMAIN I.post = 1..DictEnd(I.dict)
  BY <1>1 DEF IndexFacts, FullOf
<1>3. ASSUME NEW p \in ToSet(I.dict)
      PROVE  /\ p.count = Cardinality(RowsWith(table, p.tri))
             /\ trigram_postings(I.post, p) = InOrder({r - 1 : r \in RowsWith(table, p.tri)}, <)
  <2>1. PICK i \in 1..Len(I.dict) : p = I.dict[i]
    <3>1. I.dict \in Seq(Desc)
      BY <1>1 DEF IndexFacts, DictFacts
    <3> QED BY <3>1 DEF ToSet
  <2> DEFINE t == p.tri
  <2>2. t \in Tris(E) /\ OfTri(I.dict, t) = p
    BY <1>1, <2>1 DEF IndexFacts, OfRule
  <2> HIDE DEF t, E
  <2>3. OfTri(I.dict, t).count = Len(ListOf(E, t)) /\ trigram_postings(I.post, OfTri(I.dict, t)) = ListOf(E, t)
    BY <1>1, <2>2, ViewOf
  <2>4. /\ Len(ListOf(E, t)) = Cardinality(RowsWith(table, t))
        /\ ListOf(E, t) = InOrder({r - 1 : r \in RowsWith(table, t)}, <)
    BY <2>2, IdsAreRows DEF E
  <2> QED BY <2>2, <2>3, <2>4, Zenon DEF t
<1>4. IndexRight(I, table)
  BY <1>2, <1>3, Zenon DEF IndexRight, DictEnd
<1> QED BY <1>4 DEF I

-----------------------------------------------------------------------------
(* Binary searches.  f[<<lo, hi>>] is what a search of the rows lo + 1 to  *)
(* hi returns; C are the rows below the key, A the rows above it.          *)

Mid(lo, hi) == (lo + hi) \div 2

\* The middle of a range that is not empty.
LEMMA MidIn ==
    ASSUME NEW lo \in Nat, NEW hi \in Nat, lo < hi
    PROVE  Mid(lo, hi) \in Nat /\ lo <= Mid(lo, hi) /\ Mid(lo, hi) < hi
BY DEF Mid

Span(n) == (0..n) \X (0..n)

BoundBody(f, C, lo, hi) ==
    IF lo >= hi THEN lo
    ELSE IF Mid(lo, hi) + 1 \in C THEN f[<<Mid(lo, hi) + 1, hi>>] ELSE f[<<lo, Mid(lo, hi)>>]

BoundRule(f, n, C) == \A lo, hi \in 0..n : f[<<lo, hi>>] = BoundBody(f, C, lo, hi)

Clamp(c, lo, hi) == IF lo >= hi THEN lo ELSE IF c < lo THEN lo ELSE IF c > hi THEN hi ELSE c

\* The rows below the key are the first c.
CutAt(C, n, c) == n \in Nat /\ c \in 0..n /\ \A i \in 1..n : i \in C <=> i <= c

\* The closed form of the search satisfies its equation.
LEMMA ClampStep ==
    ASSUME NEW n, NEW C, NEW c, CutAt(C, n, c), NEW lo \in 0..n, NEW hi \in 0..n, lo < hi
    PROVE  /\ Mid(lo, hi) + 1 \in 0..n /\ Mid(lo, hi) \in 0..n
           /\ Mid(lo, hi) + 1 \in C => Clamp(c, lo, hi) = Clamp(c, Mid(lo, hi) + 1, hi)
           /\ Mid(lo, hi) + 1 \notin C => Clamp(c, lo, hi) = Clamp(c, lo, Mid(lo, hi))
           /\ hi - (Mid(lo, hi) + 1) < hi - lo /\ Mid(lo, hi) - lo < hi - lo
<1> DEFINE m == Mid(lo, hi)
<1>1. n \in Nat /\ c \in Nat /\ lo \in Nat /\ hi \in Nat /\ hi <= n /\ c <= n
  BY DEF CutAt
<1>2. m \in Nat /\ lo <= m /\ m < hi
  BY <1>1, MidIn
<1> HIDE DEF m
<1>3. m + 1 \in 1..n
  BY <1>1, <1>2
<1>4. m + 1 \in C <=> m + 1 <= c
  BY <1>3 DEF CutAt
<1>5. m + 1 <= c => Clamp(c, lo, hi) = Clamp(c, m + 1, hi)
  BY <1>1, <1>2 DEF Clamp
<1>6. ~ (m + 1 <= c) => Clamp(c, lo, hi) = Clamp(c, lo, m)
  BY <1>1, <1>2 DEF Clamp
<1>7. m + 1 \in 0..n /\ m \in 0..n /\ hi - (m + 1) < hi - lo /\ m - lo < hi - lo
  BY <1>1, <1>2
<1> QED BY <1>4, <1>5, <1>6, <1>7 DEF m

\* A search that satisfies the equation exists.
LEMMA BoundExists ==
    ASSUME NEW n, NEW C, NEW c, CutAt(C, n, c)
    PROVE  \E f : f = [p \in Span(n) |-> f[p]] /\ BoundRule(f, n, C)
<1> DEFINE f == [p \in Span(n) |-> Clamp(c, p[1], p[2])]
<1>1. f = [p \in Span(n) |-> f[p]]
  OBVIOUS
<1>2. \A lo, hi \in 0..n : f[<<lo, hi>>] = Clamp(c, lo, hi)
  BY DEF Span
<1> HIDE DEF f
<1>3. ASSUME NEW lo \in 0..n, NEW hi \in 0..n
      PROVE  f[<<lo, hi>>] = BoundBody(f, C, lo, hi)
  <2>1. CASE lo >= hi
    BY <1>2, <2>1 DEF BoundBody, Clamp
  <2>2. CASE ~ (lo >= hi)
    <3> DEFINE m == Mid(lo, hi)
    <3>1. lo < hi
      BY <2>2 DEF CutAt
    <3>2. /\ m + 1 \in 0..n /\ m \in 0..n
          /\ m + 1 \in C => Clamp(c, lo, hi) = Clamp(c, m + 1, hi)
          /\ m + 1 \notin C => Clamp(c, lo, hi) = Clamp(c, lo, m)
      BY <3>1, ClampStep
    <3> HIDE DEF m
    <3>3. BoundBody(f, C, lo, hi) = IF m + 1 \in C THEN f[<<m + 1, hi>>] ELSE f[<<lo, m>>]
      BY <2>2 DEF BoundBody, m
    <3>4. f[<<lo, hi>>] = Clamp(c, lo, hi) /\ f[<<m + 1, hi>>] = Clamp(c, m + 1, hi) /\ f[<<lo, m>>] = Clamp(c, lo, m)
      BY <1>2, <3>2
    <3> QED BY <3>2, <3>3, <3>4
  <2> QED BY <2>1, <2>2
<1> QED BY <1>1, <1>3 DEF BoundRule

\* Any that does returns the cut.
LEMMA BoundFound ==
    ASSUME NEW n, NEW C, NEW c, CutAt(C, n, c), NEW f, BoundRule(f, n, C)
    PROVE  \A lo, hi \in 0..n : f[<<lo, hi>>] = Clamp(c, lo, hi)
<1> DEFINE P == {k \in Nat : \A lo, hi \in 0..n : hi - lo <= k => f[<<lo, hi>>] = Clamp(c, lo, hi)}
<1>0. n \in Nat
  BY DEF CutAt
<1>1. 0 \in P
  <2> SUFFICES ASSUME NEW lo \in 0..n, NEW hi \in 0..n, hi - lo <= 0
               PROVE  f[<<lo, hi>>] = Clamp(c, lo, hi)
    OBVIOUS
  <2>1. lo >= hi
    BY <1>0
  <2>2. f[<<lo, hi>>] = BoundBody(f, C, lo, hi)
    BY DEF BoundRule
  <2> QED BY <2>1, <2>2 DEF BoundBody, Clamp
<1>2. ASSUME NEW k \in Nat, k \in P
      PROVE  k + 1 \in P
  <2> SUFFICES ASSUME NEW lo \in 0..n, NEW hi \in 0..n, hi - lo <= k + 1
               PROVE  f[<<lo, hi>>] = Clamp(c, lo, hi)
    OBVIOUS
  <2>1. CASE lo >= hi
    <3>1. f[<<lo, hi>>] = BoundBody(f, C, lo, hi)
      BY DEF BoundRule
    <3> QED BY <2>1, <3>1 DEF BoundBody, Clamp
  <2>2. CASE ~ (lo >= hi)
    <3> DEFINE m == Mid(lo, hi)
    <3>1. lo < hi
      BY <1>0, <2>2
    <3>2. /\ m + 1 \in 0..n /\ m \in 0..n
          /\ m + 1 \in C => Clamp(c, lo, hi) = Clamp(c, m + 1, hi)
          /\ m + 1 \notin C => Clamp(c, lo, hi) = Clamp(c, lo, m)
          /\ hi - (m + 1) < hi - lo /\ m - lo < hi - lo
      BY <3>1, ClampStep
    <3> HIDE DEF m
    <3>3. BoundBody(f, C, lo, hi) = IF m + 1 \in C THEN f[<<m + 1, hi>>] ELSE f[<<lo, m>>]
      BY <2>2 DEF BoundBody, m
    <3>4. hi - (m + 1) <= k /\ m - lo <= k
      BY <1>0, <3>2
    <3>5. f[<<m + 1, hi>>] = Clamp(c, m + 1, hi) /\ f[<<lo, m>>] = Clamp(c, lo, m)
      BY <1>2, <3>2, <3>4
    <3>6. f[<<lo, hi>>] = BoundBody(f, C, lo, hi)
      BY DEF BoundRule
    <3> QED BY <3>2, <3>3, <3>5, <3>6
  <2> QED BY <2>1, <2>2
<1>3. \A k \in Nat : k \in P
  <2> HIDE DEF P
  <2> QED BY <1>1, <1>2, NatSetInduction
<1>4. \A lo, hi \in 0..n : hi - lo <= n
  BY <1>0
<1> QED BY <1>0, <1>3, <1>4

KeyBody(f, C, A, g, lo, hi) ==
    IF lo >= hi THEN {}
    ELSE IF Mid(lo, hi) + 1 \in C THEN f[<<Mid(lo, hi) + 1, hi>>]
    ELSE IF Mid(lo, hi) + 1 \in A THEN f[<<lo, Mid(lo, hi)>>] ELSE {g[Mid(lo, hi) + 1]}

KeyedBy(f, n, C, A, g) == \A lo, hi \in 0..n : f[<<lo, hi>>] = KeyBody(f, C, A, g, lo, hi)

\* C is a first part of the rows, A a last part, at most one row is in neither.
Parted(C, A, n) ==
    /\ n \in Nat
    /\ \A i, j \in 1..n : i < j => /\ j \in C => i \in C
                                   /\ i \in A => j \in A
                                   /\ i \in C \/ j \in A
    /\ \A i \in 1..n : ~ (i \in C /\ i \in A)

Equal(C, A, g, lo, hi) == {g[i] : i \in {x \in (lo + 1)..hi : x \notin C /\ x \notin A}}

EqualParts(C, A, g, n, lo, hi, m) ==
    /\ m + 1 \in 0..n /\ m \in 0..n
    /\ m + 1 \in C => Equal(C, A, g, lo, hi) = Equal(C, A, g, m + 1, hi)
    /\ m + 1 \in A => Equal(C, A, g, lo, hi) = Equal(C, A, g, lo, m)
    /\ m + 1 \notin C /\ m + 1 \notin A => Equal(C, A, g, lo, hi) = {g[m + 1]}
    /\ hi - (m + 1) < hi - lo /\ m - lo < hi - lo

\* The rows that are neither below nor above, by halves.
LEMMA EqualStep ==
    ASSUME NEW n, NEW C, NEW A, NEW g, Parted(C, A, n), NEW lo \in 0..n, NEW hi \in 0..n, lo < hi
    PROVE  EqualParts(C, A, g, n, lo, hi, Mid(lo, hi))
<1> DEFINE m == Mid(lo, hi)
           X(a, b) == {x \in (a + 1)..b : x \notin C /\ x \notin A}
<1>1. n \in Nat /\ lo \in Nat /\ hi \in Nat /\ hi <= n
  BY DEF Parted
<1>2. m \in Nat /\ lo <= m /\ m < hi
  BY <1>1, MidIn
<1> HIDE DEF m
<1>3. m + 1 \in 1..n /\ m + 1 \in (lo + 1)..hi
  BY <1>1, <1>2
<1>4. \A i, j \in 1..n : i < j => (j \in C => i \in C) /\ (i \in A => j \in A) /\ (i \in C \/ j \in A)
  BY DEF Parted
<1>5. m + 1 \in C => X(lo, hi) = X(m + 1, hi)
  <2> SUFFICES ASSUME m + 1 \in C, NEW x \in (lo + 1)..hi, x \notin C PROVE x \in (m + 1 + 1)..hi
    BY <1>1, <1>2
  <2>1. x \in 1..n
    BY <1>1
  <2>2. ~ (x < m + 1) /\ x # m + 1
    BY <1>3, <1>4, <2>1
  <2> QED BY <1>1, <1>2, <2>1, <2>2
<1>6. m + 1 \in A => X(lo, hi) = X(lo, m)
  <2> SUFFICES ASSUME m + 1 \in A, NEW x \in (lo + 1)..hi, x \notin A PROVE x \in (lo + 1)..m
    BY <1>1, <1>2
  <2>1. x \in 1..n
    BY <1>1
  <2>2. ~ (m + 1 < x) /\ x # m + 1
    BY <1>3, <1>4, <2>1
  <2> QED BY <1>1, <1>2, <2>1, <2>2
<1>7. m + 1 \notin C /\ m + 1 \notin A => X(lo, hi) = {m + 1}
  <2> SUFFICES ASSUME m + 1 \notin C, m + 1 \notin A, NEW x \in (lo + 1)..hi, x \notin C, x \notin A PROVE x = m + 1
    BY <1>3
  <2>1. x \in 1..n
    BY <1>1
  <2>2. ~ (m + 1 < x) /\ ~ (x < m + 1)
    BY <1>3, <1>4, <2>1
  <2> QED BY <1>1, <1>2, <2>1, <2>2
<1>8. \A a, b : Equal(C, A, g, a, b) = {g[i] : i \in X(a, b)}
  BY DEF Equal
<1>9. m + 1 \in 0..n /\ m \in 0..n /\ hi - (m + 1) < hi - lo /\ m - lo < hi - lo
  BY <1>1, <1>2
<1> HIDE DEF X
<1>10. m + 1 \in C => Equal(C, A, g, lo, hi) = Equal(C, A, g, m + 1, hi)
  BY <1>5, <1>8
<1>11. m + 1 \in A => Equal(C, A, g, lo, hi) = Equal(C, A, g, lo, m)
  BY <1>6, <1>8
<1>12. m + 1 \notin C /\ m + 1 \notin A => Equal(C, A, g, lo, hi) = {g[m + 1]}
  BY <1>7, <1>8
<1> QED BY <1>9, <1>10, <1>11, <1>12 DEF m, EqualParts

\* No row in an empty range.
LEMMA EqualNone ==
    ASSUME NEW n \in Nat, NEW C, NEW A, NEW g, NEW lo \in 0..n, NEW hi \in 0..n, lo >= hi
    PROVE  Equal(C, A, g, lo, hi) = {}
<1>1. (lo + 1)..hi = {}
  OBVIOUS
<1> QED BY <1>1 DEF Equal

\* A three-way search that satisfies its equation exists.
LEMMA KeyedExists ==
    ASSUME NEW n, NEW C, NEW A, NEW g, Parted(C, A, n)
    PROVE  \E f : f = [p \in Span(n) |-> f[p]] /\ KeyedBy(f, n, C, A, g)
<1> DEFINE f == [p \in Span(n) |-> Equal(C, A, g, p[1], p[2])]
<1>0. n \in Nat
  BY DEF Parted
<1>1. f = [p \in Span(n) |-> f[p]]
  OBVIOUS
<1>2. \A lo, hi \in 0..n : f[<<lo, hi>>] = Equal(C, A, g, lo, hi)
  BY DEF Span
<1> HIDE DEF f
<1>3. ASSUME NEW lo \in 0..n, NEW hi \in 0..n
      PROVE  f[<<lo, hi>>] = KeyBody(f, C, A, g, lo, hi)
  <2>1. CASE lo >= hi
    BY <1>0, <1>2, <2>1, EqualNone DEF KeyBody
  <2>2. CASE ~ (lo >= hi)
    <3> DEFINE m == Mid(lo, hi)
    <3>1. lo < hi
      BY <1>0, <2>2
    <3>2. /\ m + 1 \in 0..n /\ m \in 0..n
          /\ m + 1 \in C => Equal(C, A, g, lo, hi) = Equal(C, A, g, m + 1, hi)
          /\ m + 1 \in A => Equal(C, A, g, lo, hi) = Equal(C, A, g, lo, m)
          /\ m + 1 \notin C /\ m + 1 \notin A => Equal(C, A, g, lo, hi) = {g[m + 1]}
      <4>1. EqualParts(C, A, g, n, lo, hi, m)
        BY <3>1, EqualStep
      <4> QED BY <4>1 DEF EqualParts
    <3> HIDE DEF m
    <3>3. KeyBody(f, C, A, g, lo, hi) = IF m + 1 \in C THEN f[<<m + 1, hi>>] ELSE IF m + 1 \in A THEN f[<<lo, m>>] ELSE {g[m + 1]}
      BY <2>2 DEF KeyBody, m
    <3>4. /\ f[<<lo, hi>>] = Equal(C, A, g, lo, hi) /\ f[<<m + 1, hi>>] = Equal(C, A, g, m + 1, hi)
          /\ f[<<lo, m>>] = Equal(C, A, g, lo, m)
      BY <1>2, <3>2
    <3> QED BY <3>2, <3>3, <3>4
  <2> QED BY <2>1, <2>2
<1> QED BY <1>1, <1>3 DEF KeyedBy

\* Any that does finds the row that is neither below nor above.
LEMMA KeyedFound ==
    ASSUME NEW n, NEW C, NEW A, NEW g, Parted(C, A, n), NEW f, KeyedBy(f, n, C, A, g)
    PROVE  \A lo, hi \in 0..n : f[<<lo, hi>>] = Equal(C, A, g, lo, hi)
<1> DEFINE P == {k \in Nat : \A lo, hi \in 0..n : hi - lo <= k => f[<<lo, hi>>] = Equal(C, A, g, lo, hi)}
<1>0. n \in Nat
  BY DEF Parted
<1>1. ASSUME NEW lo \in 0..n, NEW hi \in 0..n, lo >= hi
      PROVE  f[<<lo, hi>>] = Equal(C, A, g, lo, hi)
  <2>1. f[<<lo, hi>>] = KeyBody(f, C, A, g, lo, hi)
    BY DEF KeyedBy
  <2>2. Equal(C, A, g, lo, hi) = {}
    BY <1>0, <1>1, EqualNone
  <2> QED BY <1>1, <2>1, <2>2 DEF KeyBody
<1>2. 0 \in P
  <2>1. \A lo, hi \in 0..n : hi - lo <= 0 => lo >= hi
    BY <1>0
  <2> QED BY <1>1, <2>1
<1>3. ASSUME NEW k \in Nat, k \in P
      PROVE  k + 1 \in P
  <2> SUFFICES ASSUME NEW lo \in 0..n, NEW hi \in 0..n, hi - lo <= k + 1
               PROVE  f[<<lo, hi>>] = Equal(C, A, g, lo, hi)
    OBVIOUS
  <2>1. CASE lo >= hi
    BY <1>1, <2>1
  <2>2. CASE ~ (lo >= hi)
    <3> DEFINE m == Mid(lo, hi)
    <3>1. lo < hi
      BY <1>0, <2>2
    <3>2. /\ m + 1 \in 0..n /\ m \in 0..n
          /\ m + 1 \in C => Equal(C, A, g, lo, hi) = Equal(C, A, g, m + 1, hi)
          /\ m + 1 \in A => Equal(C, A, g, lo, hi) = Equal(C, A, g, lo, m)
          /\ m + 1 \notin C /\ m + 1 \notin A => Equal(C, A, g, lo, hi) = {g[m + 1]}
          /\ hi - (m + 1) < hi - lo /\ m - lo < hi - lo
      <4>1. EqualParts(C, A, g, n, lo, hi, m)
        BY <3>1, EqualStep
      <4> QED BY <4>1 DEF EqualParts
    <3> HIDE DEF m
    <3>3. KeyBody(f, C, A, g, lo, hi) = IF m + 1 \in C THEN f[<<m + 1, hi>>] ELSE IF m + 1 \in A THEN f[<<lo, m>>] ELSE {g[m + 1]}
      BY <2>2 DEF KeyBody, m
    <3>4. hi - (m + 1) <= k /\ m - lo <= k
      BY <1>0, <3>2
    <3>5. f[<<m + 1, hi>>] = Equal(C, A, g, m + 1, hi) /\ f[<<lo, m>>] = Equal(C, A, g, lo, m)
      BY <1>3, <3>2, <3>4
    <3>6. f[<<lo, hi>>] = KeyBody(f, C, A, g, lo, hi)
      BY DEF KeyedBy
    <3> QED BY <3>2, <3>3, <3>5, <3>6
  <2> QED BY <2>1, <2>2
<1>4. \A k \in Nat : k \in P
  <2> HIDE DEF P
  <2> QED BY <1>2, <1>3, NatSetInduction
<1>5. \A lo, hi \in 0..n : hi - lo <= n
  BY <1>0
<1> QED BY <1>0, <1>4, <1>5

\* trigram_lookup finds the entry that is neither below nor above.
LEMMA LookupSearch ==
    ASSUME NEW dict, NEW tri, NEW n, n = Len(dict), NEW C, C = {i \in 1..n : StrLess(dict[i].tri, tri)}, NEW A, A = {i \in 1..n : StrLess(tri, dict[i].tri)},
           Parted(C, A, n)
    PROVE  trigram_lookup(dict, tri) = Equal(C, A, dict, 0, n)
<1> DEFINE Body(f, p) == IF p[1] >= p[2] THEN {}
                         ELSE IF StrLess(dict[((p[1] + p[2]) \div 2) + 1].tri, tri) THEN f[<<((p[1] + p[2]) \div 2) + 1, p[2]>>]
                         ELSE IF StrLess(tri, dict[((p[1] + p[2]) \div 2) + 1].tri) THEN f[<<p[1], ((p[1] + p[2]) \div 2)>>] ELSE {dict[((p[1] + p[2]) \div 2) + 1]}
           E(f) == f = [p \in (0..n) \X (0..n) |-> Body(f, p)]
           it == CHOOSE f : E(f)
<1>1. n \in Nat
  BY DEF Parted
<1>2. PICK f : f = [z \in Span(n) |-> f[z]] /\ KeyedBy(f, n, C, A, dict)
  BY KeyedExists
<1>3. ASSUME NEW h, NEW lo \in 0..n, NEW hi \in 0..n
      PROVE  Body(h, <<lo, hi>>) = KeyBody(h, C, A, dict, lo, hi)
  <2> DEFINE m == Mid(lo, hi)
             pr == <<lo, hi>>
  <2>1. pr[1] = lo /\ pr[2] = hi /\ (pr[1] + pr[2]) \div 2 = m
    BY DEF Mid
  <2>2. Body(h, pr) = IF lo >= hi THEN {}
                     ELSE IF StrLess(dict[m + 1].tri, tri) THEN h[<<m + 1, hi>>]
                     ELSE IF StrLess(tri, dict[m + 1].tri) THEN h[<<lo, m>>] ELSE {dict[m + 1]}
    <3> HIDE DEF m, pr
    <3> QED BY <2>1, Zenon
  <2>3. CASE lo >= hi
    BY <2>2, <2>3 DEF KeyBody
  <2>4. CASE ~ (lo >= hi)
    <3>1. m \in Nat /\ m < hi
      BY <1>1, <2>4, MidIn
    <3> HIDE DEF m, Body
    <3>2. m + 1 \in 1..n
      BY <1>1, <3>1
    <3>3. (m + 1 \in C <=> StrLess(dict[m + 1].tri, tri)) /\ (m + 1 \in A <=> StrLess(tri, dict[m + 1].tri))
      BY <3>2
    <3>4. KeyBody(h, C, A, dict, lo, hi) = IF m + 1 \in C THEN h[<<m + 1, hi>>] ELSE IF m + 1 \in A THEN h[<<lo, m>>] ELSE {dict[m + 1]}
      BY <2>4 DEF KeyBody, m
    <3> QED BY <2>2, <2>4, <3>3, <3>4
  <2> QED BY <2>3, <2>4
<1>4. E(f)
  <2>1. ASSUME NEW z \in (0..n) \X (0..n)
        PROVE  f[z] = Body(f, z)
    <3>1. PICK lo \in 0..n, hi \in 0..n : z = <<lo, hi>>
      BY <2>1
    <3> HIDE DEF Body
    <3>2. f[<<lo, hi>>] = KeyBody(f, C, A, dict, lo, hi)
      BY <1>2 DEF KeyedBy
    <3>3. Body(f, <<lo, hi>>) = KeyBody(f, C, A, dict, lo, hi)
      BY <1>3
    <3> QED BY <3>1, <3>2, <3>3, Zenon
  <2> HIDE DEF Body
  <2> QED BY <1>2, <2>1 DEF Span
<1>5. E(it)
  <2> HIDE DEF E
  <2> QED BY <1>4
<1>6. trigram_lookup(dict, tri) = it[<<0, n>>]
  BY Zenon DEF trigram_lookup
<1> HIDE DEF it
<1>7. KeyedBy(it, n, C, A, dict)
  <2>1. ASSUME NEW lo \in 0..n, NEW hi \in 0..n
        PROVE  it[<<lo, hi>>] = KeyBody(it, C, A, dict, lo, hi)
    <3>1. it = [p \in (0..n) \X (0..n) |-> Body(it, p)]
      BY <1>5
    <3> HIDE DEF Body
    <3>2. it[<<lo, hi>>] = Body(it, <<lo, hi>>)
      BY <3>1
    <3> QED BY <1>3, <3>2
  <2> QED BY <2>1 DEF KeyedBy
<1>8. it[<<0, n>>] = Equal(C, A, dict, 0, n)
  <2>1. 0 \in 0..n /\ n \in 0..n
    BY <1>1
  <2> QED BY <1>7, <2>1, KeyedFound
<1> QED BY <1>6, <1>8, Zenon

\* Narrow finds the first block that is not below cand.
LEMMA NarrowSearch ==
    ASSUME NEW post, NEW p, NEW cand, NEW from, NEW n, NEW C, C = {i \in 1..n : MaxId(post, p, i - 1) < cand}, NEW c, CutAt(C, n, c), from \in 0..n
    PROVE  Narrow(post, p, cand, from, n) = Clamp(c, from, n)
<1> DEFINE Body(f, q) == IF q[1] >= q[2] THEN q[1]
                         ELSE IF MaxId(post, p, ((q[1] + q[2]) \div 2)) < cand THEN f[<<((q[1] + q[2]) \div 2) + 1, q[2]>>] ELSE f[<<q[1], ((q[1] + q[2]) \div 2)>>]
           E(f) == f = [q \in (0..n) \X (0..n) |-> Body(f, q)]
           it == CHOOSE f : E(f)
<1>1. n \in Nat
  BY DEF CutAt
<1>2. PICK f : f = [z \in Span(n) |-> f[z]] /\ BoundRule(f, n, C)
  BY BoundExists
<1>3. ASSUME NEW h, NEW lo \in 0..n, NEW hi \in 0..n
      PROVE  Body(h, <<lo, hi>>) = BoundBody(h, C, lo, hi)
  <2> DEFINE m == Mid(lo, hi)
             pr == <<lo, hi>>
  <2>1. pr[1] = lo /\ pr[2] = hi /\ (pr[1] + pr[2]) \div 2 = m
    BY DEF Mid
  <2>2. Body(h, pr) = IF lo >= hi THEN lo
                     ELSE IF MaxId(post, p, m) < cand THEN h[<<m + 1, hi>>] ELSE h[<<lo, m>>]
    <3> HIDE DEF m, pr
    <3> QED BY <2>1, Zenon
  <2>3. CASE lo >= hi
    BY <2>2, <2>3 DEF BoundBody
  <2>4. CASE ~ (lo >= hi)
    <3>1. m \in Nat /\ m < hi
      BY <1>1, <2>4, MidIn
    <3> HIDE DEF m, Body
    <3>2. m + 1 \in 1..n
      BY <1>1, <3>1
    <3>3. m + 1 \in C <=> MaxId(post, p, m) < cand
      <4>1. (m + 1) - 1 = m
        BY <3>1
      <4> QED BY <3>2, <4>1
    <3>4. BoundBody(h, C, lo, hi) = IF m + 1 \in C THEN h[<<m + 1, hi>>] ELSE h[<<lo, m>>]
      BY <2>4 DEF BoundBody, m
    <3> QED BY <2>2, <2>4, <3>3, <3>4
  <2> QED BY <2>3, <2>4
<1>4. E(f)
  <2>1. ASSUME NEW z \in (0..n) \X (0..n)
        PROVE  f[z] = Body(f, z)
    <3>1. PICK lo \in 0..n, hi \in 0..n : z = <<lo, hi>>
      BY <2>1
    <3> HIDE DEF Body
    <3>2. f[<<lo, hi>>] = BoundBody(f, C, lo, hi)
      BY <1>2 DEF BoundRule
    <3>3. Body(f, <<lo, hi>>) = BoundBody(f, C, lo, hi)
      BY <1>3
    <3> QED BY <3>1, <3>2, <3>3, Zenon
  <2> HIDE DEF Body
  <2> QED BY <1>2, <2>1 DEF Span
<1>5. E(it)
  <2> HIDE DEF E
  <2> QED BY <1>4
<1>6. Narrow(post, p, cand, from, n) = it[<<from, n>>]
  BY Zenon DEF Narrow
<1> HIDE DEF it
<1>7. BoundRule(it, n, C)
  <2>1. ASSUME NEW lo \in 0..n, NEW hi \in 0..n
        PROVE  it[<<lo, hi>>] = BoundBody(it, C, lo, hi)
    <3>1. it = [q \in (0..n) \X (0..n) |-> Body(it, q)]
      BY <1>5
    <3> HIDE DEF Body
    <3>2. it[<<lo, hi>>] = Body(it, <<lo, hi>>)
      BY <3>1
    <3> QED BY <1>3, <3>2
  <2> QED BY <2>1 DEF BoundRule
<1>8. it[<<from, n>>] = Clamp(c, from, n)
  <2>1. from \in 0..n /\ n \in 0..n
    BY <1>1
  <2> QED BY <1>7, <2>1, BoundFound
<1> QED BY <1>6, <1>8, Zenon

\* The entries of a dictionary below a trigram and the ones above it.
BelowAndAbove(D, t, n, C, A) ==
    /\ n = Len(D) /\ C = {i \in 1..n : StrLess(D[i].tri, t)} /\ A = {i \in 1..n : StrLess(t, D[i].tri)}

OnlyEqual(D, t, n, C, A) == \A i \in 1..n : i \notin C /\ i \notin A <=> D[i].tri = t

\* The entries of a dictionary are below a trigram, then equal to it, then
\* above it.
LEMMA LookupParts ==
    ASSUME NEW E \in Seq(Event), NEW D, DictFacts(D, E), NEW t \in Text, NEW n, NEW C, NEW A,
           BelowAndAbove(D, t, n, C, A)
    PROVE  Parted(C, A, n) /\ OnlyEqual(D, t, n, C, A)
<1>0. /\ n = Len(D) /\ C = {i \in 1..n : StrLess(D[i].tri, t)}
      /\ A = {i \in 1..n : StrLess(t, D[i].tri)}
  BY DEF BelowAndAbove
<1>1. n \in Nat /\ \A i, j \in 1..n : i < j => StrLess(D[i].tri, D[j].tri)
  BY <1>0 DEF DictFacts
<1>2. ASSUME NEW i \in 1..n PROVE D[i].tri \in Text
  <2>1. D \in Seq(Desc)
    BY DEF DictFacts
  <2>2. D[i] \in Desc
    BY <1>0, <2>1
  <2>3. D[i].tri \in Trigram
    BY <2>2 DEF Desc
  <2> QED BY <2>3 DEF Trigram
<1>3. ASSUME NEW i \in 1..n
      PROVE  (i \in C <=> StrLess(D[i].tri, t)) /\ (i \in A <=> StrLess(t, D[i].tri))
  BY <1>0
<1>4. ASSUME NEW i \in 1..n PROVE ~ (i \in C /\ i \in A)
  <2> SUFFICES ASSUME i \in C, i \in A PROVE FALSE
    OBVIOUS
  <2>1. StrLess(D[i].tri, t) /\ StrLess(t, D[i].tri)
    BY <1>3
  <2>2. D[i].tri \in Text
    BY <1>2
  <2>3. StrLess(t, t)
    BY <2>1, <2>2, StrTransitive
  <2> QED BY <2>3, StrIrreflexive
<1>5. ASSUME NEW i \in 1..n PROVE i \notin C /\ i \notin A <=> D[i].tri = t
  <2>1. D[i].tri \in Text
    BY <1>2
  <2>2. D[i].tri = t => ~ StrLess(D[i].tri, t) /\ ~ StrLess(t, D[i].tri)
    BY <2>1, StrIrreflexive
  <2>3. D[i].tri # t => StrLess(D[i].tri, t) \/ StrLess(t, D[i].tri)
    BY <2>1, StrTotal
  <2> QED BY <1>3, <2>2, <2>3
<1>6. ASSUME NEW i \in 1..n, NEW j \in 1..n, i < j
      PROVE  /\ j \in C => i \in C
             /\ i \in A => j \in A
             /\ i \in C \/ j \in A
  <2>1. StrLess(D[i].tri, D[j].tri) /\ D[i].tri \in Text /\ D[j].tri \in Text
    BY <1>1, <1>2, <1>6
  <2>2. j \in C => i \in C
    BY <1>3, <2>1, StrTransitive
  <2>3. i \in A => j \in A
    BY <1>3, <2>1, StrTransitive
  <2>4. ASSUME i \notin C PROVE j \in A
    <3>1. i \in A \/ D[i].tri = t
      BY <1>5, <2>4
    <3> QED BY <1>3, <2>1, <2>3, <3>1
  <2> QED BY <2>2, <2>3, <2>4
<1>7. Parted(C, A, n)
  BY <1>1, <1>4, <1>6 DEF Parted
<1> QED BY <1>5, <1>7 DEF OnlyEqual

\* trigram_lookup finds the descriptor of a trigram some name has, and
\* nothing for any other.
LEMMA LookupFound ==
    ASSUME NEW E \in Seq(Event), NEW D, DictFacts(D, E), OfRule(D, E), NEW t \in Text
    PROVE  /\ t \in Tris(E) => trigram_lookup(D, t) = {OfTri(D, t)}
           /\ t \notin Tris(E) => trigram_lookup(D, t) = {}
<1> DEFINE n == Len(D)
           C == {i \in 1..n : StrLess(D[i].tri, t)}
           A == {i \in 1..n : StrLess(t, D[i].tri)}
<1>0. n = Len(D) /\ C = {i \in 1..n : StrLess(D[i].tri, t)} /\ A = {i \in 1..n : StrLess(t, D[i].tri)}
  OBVIOUS
<1> HIDE DEF n, C, A
<1>a. BelowAndAbove(D, t, n, C, A)
  BY <1>0 DEF BelowAndAbove
<1>b. Parted(C, A, n) /\ OnlyEqual(D, t, n, C, A)
  BY <1>a, LookupParts
<1>1. Parted(C, A, n) /\ \A i \in 1..n : i \notin C /\ i \notin A <=> D[i].tri = t
  BY <1>b DEF OnlyEqual
<1>2. trigram_lookup(D, t) = Equal(C, A, D, 0, n)
  BY <1>0, <1>1, LookupSearch
<1>3. n \in Nat
  BY DEF DictFacts, n
<1>4. \A x : x \in Equal(C, A, D, 0, n) <=> \E i \in 1..n : D[i].tri = t /\ x = D[i]
  <2>1. (0 + 1)..n = 1..n
    BY <1>3
  <2> QED BY <1>1, <2>1 DEF Equal
<1>5. \A i \in 1..n : D[i].tri \in Tris(E) /\ OfTri(D, D[i].tri) = D[i]
  BY DEF OfRule, n
<1>6. t \in Tris(E) => \E i \in 1..n : D[i].tri = t
  BY DEF DictFacts, n
<1>7. ASSUME t \in Tris(E) PROVE Equal(C, A, D, 0, n) = {OfTri(D, t)}
  <2>1. PICK i \in 1..n : D[i].tri = t
    BY <1>6, <1>7
  <2>2. D[i] = OfTri(D, t)
    BY <1>5, <2>1
  <2>3. \A x : x \in Equal(C, A, D, 0, n) <=> x = OfTri(D, t)
    BY <1>4, <1>5, <2>1, <2>2
  <2> QED BY <2>3
<1>8. ASSUME t \notin Tris(E) PROVE Equal(C, A, D, 0, n) = {}
  BY <1>4, <1>5, <1>8
<1> QED BY <1>2, <1>7, <1>8

-----------------------------------------------------------------------------
(* The gallop: from a block below cand, in doubling steps; the blocks      *)
(* before c are the ones below cand.                                       *)

Places2(n) == (0..n) \X (1..(2 * n + 2))
GNext(q)   == <<q[1] + q[2], 2 * q[2]>>

GBody(f, n, c, q) ==
    IF q[1] + q[2] < c THEN f[GNext(q)] ELSE <<q[1], Smaller(q[1] + q[2], n)>>

GallopRule(f, n, c) == \A q \in Places2(n) : f[q] = GBody(f, n, c, q)

\* A step of the gallop stays in its domain and moves on.
LEMMA GallopNext ==
    ASSUME NEW n \in Nat, NEW c \in 0..n, NEW q \in Places2(n)
    PROVE  /\ q[1] \in Nat /\ q[2] \in Nat /\ q[1] <= n /\ q[2] >= 1 /\ q = <<q[1], q[2]>>
           /\ q[1] + q[2] < c => GNext(q) \in Places2(n) /\ GNext(q)[1] = q[1] + q[2]
           /\ <<q[1], Smaller(q[1] + q[2], n)>> \in Nat \X Nat
<1>1. PICK lo \in 0..n, st \in 1..(2 * n + 2) : q = <<lo, st>>
  BY DEF Places2
<1>2. q[1] = lo /\ q[2] = st
  BY <1>1
<1>3. lo \in Nat /\ st \in Nat /\ lo <= n /\ st >= 1
  OBVIOUS
<1>4. lo + st < c => lo + st \in 0..n /\ 2 * st \in 1..(2 * n + 2)
  BY <1>3
<1>5. GNext(q) = <<lo + st, 2 * st>>
  BY <1>2 DEF GNext
<1>6. lo + st < c => GNext(q) \in Places2(n) /\ GNext(q)[1] = lo + st
  BY <1>4, <1>5 DEF Places2
<1>7. Smaller(lo + st, n) \in Nat
  BY <1>3 DEF Smaller
<1> QED BY <1>1, <1>2, <1>3, <1>6, <1>7

\* There is a function the gallop's equation holds of.
LEMMA GallopExists ==
    ASSUME NEW n \in Nat, NEW c \in 0..n
    PROVE  \E f : f = [q \in Places2(n) |-> f[q]] /\ GallopRule(f, n, c)
<1> DEFINE D == Places2(n)
           S == Nat \X Nat
           rank == [q \in D |-> n - q[1]]
           N == n + 1
           T == [y \in D \X [D -> S] |-> GBody(y[2], n, c, y[1])]
<1>1. ASSUME NEW q \in D, NEW f \in [D -> S]
      PROVE  GBody(f, n, c, q) \in S /\ T[<<q, f>>] = GBody(f, n, c, q)
  <2>1. q[1] + q[2] < c => GNext(q) \in D
    BY GallopNext
  <2>2. <<q[1], Smaller(q[1] + q[2], n)>> \in S
    BY GallopNext
  <2>3. q[1] + q[2] < c => f[GNext(q)] \in S
    BY <2>1
  <2>4. GBody(f, n, c, q) \in S
    BY <2>2, <2>3 DEF GBody
  <2>5. T[<<q, f>>] = GBody(f, n, c, q)
    <3> HIDE DEF D, S
    <3>1. <<q, f>> \in D \X [D -> S]
      BY <1>1
    <3> QED BY <3>1
  <2> QED BY <2>4, <2>5
<1>2. T \in [D \X [D -> S] -> S]
  <2> HIDE DEF D, S
  <2>1. \A y \in D \X [D -> S] : GBody(y[2], n, c, y[1]) \in S
    BY <1>1
  <2> QED BY <2>1
<1>3. rank \in [D -> Nat] /\ (\A q \in D : rank[q] < N) /\ N \in Nat
  <2>1. ASSUME NEW q \in D PROVE n - q[1] \in Nat /\ n - q[1] < n + 1
    <3>1. q[1] \in Nat /\ q[1] <= n
      BY GallopNext
    <3> QED BY <3>1
  <2> QED BY <2>1
<1>4. ASSUME NEW q \in D, NEW f \in [D -> S], NEW g \in [D -> S], \A y \in D : rank[y] < rank[q] => f[y] = g[y]
      PROVE  T[<<q, f>>] = T[<<q, g>>]
  <2>1. q[1] + q[2] < c => GNext(q) \in D /\ GNext(q)[1] = q[1] + q[2]
    BY GallopNext
  <2>2. q[1] \in Nat /\ q[2] \in Nat /\ q[1] <= n /\ q[2] >= 1
    BY GallopNext
  <2>3. ASSUME q[1] + q[2] < c PROVE f[GNext(q)] = g[GNext(q)]
    <3>1. GNext(q) \in D /\ GNext(q)[1] = q[1] + q[2]
      BY <2>1, <2>3
    <3>2. rank[GNext(q)] = n - (q[1] + q[2]) /\ rank[q] = n - q[1]
      BY <3>1
    <3>3. rank[GNext(q)] < rank[q]
      BY <2>2, <3>2
    <3> QED BY <1>4, <3>1, <3>3
  <2>4. GBody(f, n, c, q) = GBody(g, n, c, q)
    BY <2>3 DEF GBody
  <2>5. T[<<q, f>>] = GBody(f, n, c, q) /\ T[<<q, g>>] = GBody(g, n, c, q)
    <3> HIDE DEF T, D, S
    <3> QED BY <1>1, <1>4
  <2> QED BY <2>4, <2>5, Zenon
<1>5. S # {}
  <2>1. <<0, 0>> \in S
    OBVIOUS
  <2> QED BY <2>1
<1> HIDE DEF D, S, rank, N, T
<1>6. LowerOnly(D, S, rank, N, T)
  BY <1>2, <1>3, <1>4, <1>5 DEF LowerOnly
<1>7. PICK f \in [D -> S] : \A q \in D : f[q] = T[<<q, f>>]
  BY <1>6, Recursion
<1>8. \A q \in D : f[q] = GBody(f, n, c, q)
  BY <1>1, <1>7
<1>9. f = [q \in D |-> f[q]]
  BY <1>7
<1> QED BY <1>8, <1>9 DEF GallopRule, D

\* A bracket of the cut c, at or after lo.
Brackets(r, lo, c, n) ==
    r = <<r[1], r[2]>> /\ r[1] \in Nat /\ r[2] \in Nat /\ lo <= r[1] /\ r[1] < c /\ c <= r[2] /\ r[2] <= n

\* Started below the cut, the gallop ends with a bracket of it.
LEMMA GallopFound ==
    ASSUME NEW n \in Nat, NEW c \in 0..n, NEW f, GallopRule(f, n, c)
    PROVE  \A q \in Places2(n) : q[1] < c => Brackets(f[q], q[1], c, n)
<1> DEFINE P == {k \in Nat : \A q \in Places2(n) : n - q[1] <= k /\ q[1] < c => Brackets(f[q], q[1], c, n)}
<1>1. 0 \in P
  <2>1. ASSUME NEW q \in Places2(n), n - q[1] <= 0 PROVE ~ (q[1] < c)
    <3>1. q[1] \in Nat /\ q[1] <= n
      BY GallopNext
    <3> QED BY <2>1, <3>1
  <2> QED BY <2>1
<1>2. ASSUME NEW k \in Nat, k \in P
      PROVE  k + 1 \in P
  <2> SUFFICES ASSUME NEW q \in Places2(n), n - q[1] <= k + 1, q[1] < c
               PROVE  Brackets(f[q], q[1], c, n)
    OBVIOUS
  <2>1. f[q] = GBody(f, n, c, q)
    BY DEF GallopRule
  <2>2. q[1] \in Nat /\ q[2] \in Nat /\ q[1] <= n /\ q[2] >= 1
    BY GallopNext
  <2>3. CASE q[1] + q[2] < c
    <3> DEFINE z == GNext(q)
    <3>1. z \in Places2(n) /\ z[1] = q[1] + q[2]
      BY <2>3, GallopNext
    <3>2. f[q] = f[z]
      BY <2>1, <2>3 DEF GBody
    <3> HIDE DEF z
    <3>3. n - z[1] <= k /\ z[1] < c
      BY <2>2, <2>3, <3>1
    <3>4. Brackets(f[z], z[1], c, n)
      BY <1>2, <3>1, <3>3
    <3> QED BY <2>2, <3>1, <3>2, <3>4 DEF Brackets
  <2>4. CASE ~ (q[1] + q[2] < c)
    <3> DEFINE a == q[1]
               b == Smaller(q[1] + q[2], n)
    <3>1. f[q] = <<a, b>>
      BY <2>1, <2>4 DEF GBody
    <3>2. b \in Nat /\ c <= b /\ b <= n /\ a \in Nat
      BY <2>2, <2>4 DEF Smaller
    <3> HIDE DEF a, b
    <3>3. f[q] = <<f[q][1], f[q][2]>> /\ f[q][1] = a /\ f[q][2] = b
      BY <3>1
    <3>4. a < c /\ a <= a /\ q[1] = a
      BY <3>2 DEF a
    <3> QED BY <3>2, <3>3, <3>4 DEF Brackets
  <2> QED BY <2>3, <2>4
<1>3. \A k \in Nat : k \in P
  <2> HIDE DEF P
  <2> QED BY <1>1, <1>2, NatSetInduction
<1>4. ASSUME NEW q \in Places2(n) PROVE n - q[1] <= n
  <2>1. q[1] \in Nat /\ q[1] <= n
    BY GallopNext
  <2> QED BY <2>1
<1> QED BY <1>3, <1>4

\* The blocks of the list of p are below cand up to block c.
BlockCut(post, p, n, cand, c) ==
    n \in Nat /\ c \in 0..n /\ \A b \in Nat : b < n => (MaxId(post, p, b) < cand <=> b < c)

\* Bracket finds a bracket of the cut.
LEMMA BracketFound ==
    ASSUME NEW post, NEW p, NEW cand, NEW n, NEW c, BlockCut(post, p, n, cand, c),
           NEW from \in Nat, from < c
    PROVE  Brackets(Bracket(post, p, cand, n, from), from, c, n)
<1> DEFINE Body(g, q) == IF q[1] + q[2] < n /\ MaxId(post, p, q[1] + q[2]) < cand
                         THEN g[<<q[1] + q[2], 2 * q[2]>>]
                         ELSE <<q[1], Smaller(q[1] + q[2], n)>>
           E(g) == g = [q \in (0..n) \X (1..(2 * n + 2)) |-> Body(g, q)]
           it == CHOOSE g : E(g)
<1>1. n \in Nat /\ c \in 0..n
  BY DEF BlockCut
<1>2. PICK f : f = [q \in Places2(n) |-> f[q]] /\ GallopRule(f, n, c)
  BY <1>1, GallopExists
<1>3. ASSUME NEW h, NEW q \in Places2(n)
      PROVE  Body(h, q) = GBody(h, n, c, q)
  <2>1. q[1] \in Nat /\ q[2] \in Nat
    BY <1>1, GallopNext
  <2>2. q[1] + q[2] \in Nat
    BY <2>1
  <2>3. q[1] + q[2] < n /\ MaxId(post, p, q[1] + q[2]) < cand <=> q[1] + q[2] < c
    <3> DEFINE b == q[1] + q[2]
    <3> HIDE DEF b
    <3>1. b \in Nat
      BY <2>2 DEF b
    <3>2. b < n => (MaxId(post, p, b) < cand <=> b < c)
      BY <3>1 DEF BlockCut
    <3>3. b < c => b < n
      BY <1>1, <3>1
    <3>4. b < n /\ MaxId(post, p, b) < cand <=> b < c
      BY <3>2, <3>3, Zenon
    <3> QED BY <3>4 DEF b
  <2> QED BY <2>3, Zenon DEF GBody, GNext
<1>4. E(f)
  <2>1. \A q \in Places2(n) : f[q] = Body(f, q)
    <3> HIDE DEF Body
    <3> QED BY <1>2, <1>3 DEF GallopRule
  <2> HIDE DEF Body
  <2> QED BY <1>2, <2>1 DEF Places2
<1>5. E(it)
  <2> HIDE DEF E
  <2> QED BY <1>4
<1>6. Bracket(post, p, cand, n, from) = it[<<from, 1>>]
  BY Zenon DEF Bracket
<1> HIDE DEF it
<1>7. GallopRule(it, n, c)
  <2>1. ASSUME NEW q \in Places2(n)
        PROVE  it[q] = GBody(it, n, c, q)
    <3>1. it = [z \in (0..n) \X (1..(2 * n + 2)) |-> Body(it, z)]
      BY <1>5
    <3> HIDE DEF Body
    <3>2. it[q] = Body(it, q)
      BY <3>1 DEF Places2
    <3> QED BY <1>3, <3>2
  <2> QED BY <2>1 DEF GallopRule
<1>8. <<from, 1>> \in Places2(n)
  BY <1>1 DEF Places2
<1> DEFINE s == <<from, 1>>
<1>9. s \in Places2(n) /\ s[1] = from
  BY <1>8
<1> HIDE DEF s
<1>10. Brackets(it[s], from, c, n)
  <2>1. s[1] < c
    BY <1>9
  <2>2. Brackets(it[s], s[1], c, n)
    BY <1>1, <1>7, <1>9, <2>1, GallopFound
  <2> QED BY <1>9, <2>2
<1> QED BY <1>6, <1>10, Zenon DEF s

\* From a hint that is not past it, FirstBlock finds the first block that
\* is not below cand.
LEMMA FirstBlockFound ==
    ASSUME NEW post, NEW p, NEW cand, NEW c, BlockCut(post, p, NB(p.count), cand, c),
           NEW hint \in Nat, hint <= c
    PROVE  FirstBlock(post, p, cand, hint) = c
<1> DEFINE n == NB(p.count)
           k == Smaller(hint, n)
           r == Bracket(post, p, cand, n, k)
<1>1. n \in Nat /\ c \in Nat /\ c <= n
  BY DEF BlockCut
<1>2. FirstBlock(post, p, cand, hint) = IF k < n /\ MaxId(post, p, k) < cand
                                        THEN Narrow(post, p, cand, r[1] + 1, r[2]) ELSE k
  BY Zenon DEF FirstBlock, NB
<1>3. BlockCut(post, p, n, cand, c)
  OBVIOUS
<1> HIDE DEF n
<1>4. k = hint
  BY <1>1 DEF Smaller
<1> HIDE DEF k, r
<1>5. k < n => (MaxId(post, p, k) < cand <=> k < c)
  BY <1>3, <1>4 DEF BlockCut
<1>6. CASE k < n /\ MaxId(post, p, k) < cand
  <2>1. k < c /\ k \in Nat
    BY <1>4, <1>5, <1>6
  <2>2. Brackets(r, k, c, n)
    BY <1>3, <2>1, BracketFound DEF r
  <2> DEFINE m == r[2]
             C == {i \in 1..m : MaxId(post, p, i - 1) < cand}
  <2>3. m \in Nat /\ m <= n /\ c <= m /\ r[1] \in Nat /\ r[1] < c
    BY <2>2 DEF Brackets
  <2> HIDE DEF m
  <2>4. ASSUME NEW i \in 1..m PROVE i \in C <=> i <= c
    <3> DEFINE b == i - 1
    <3>1. b \in Nat /\ b < n /\ (b < c <=> i <= c)
      BY <1>1, <2>3
    <3> HIDE DEF b
    <3>2. MaxId(post, p, b) < cand <=> b < c
      BY <1>3, <3>1 DEF BlockCut
    <3>3. i \in C <=> MaxId(post, p, b) < cand
      BY DEF b
    <3> QED BY <3>1, <3>2, <3>3
  <2>5. CutAt(C, m, c)
    <3> HIDE DEF C
    <3> QED BY <1>1, <2>3, <2>4 DEF CutAt
  <2>6. r[1] + 1 \in 0..m
    BY <1>1, <2>3
  <2>7. Narrow(post, p, cand, r[1] + 1, m) = Clamp(c, r[1] + 1, m)
    BY <2>5, <2>6, NarrowSearch
  <2>8. Clamp(c, r[1] + 1, m) = c
    BY <1>1, <2>3 DEF Clamp
  <2> QED BY <1>2, <1>6, <2>7, <2>8 DEF m
<1>7. CASE ~ (k < n /\ MaxId(post, p, k) < cand)
  <2>1. FirstBlock(post, p, cand, hint) = k
    BY <1>2, <1>7, Zenon
  <2>2. k = c
    <3>1. CASE k < n
      <4>1. ~ (k < c)
        BY <1>5, <1>7, <3>1
      <4> QED BY <1>1, <1>4, <4>1
    <3>2. CASE ~ (k < n)
      BY <1>1, <1>4, <3>2
    <3> QED BY <3>1, <3>2
  <2> QED BY <2>1, <2>2
<1> QED BY <1>6, <1>7

\* p describes the list L in post.
ListAt(post, p, L) ==
    /\ View(post, L, p.off, NB(Len(L))) /\ Len(L) \in Nat /\ Len(L) >= 1
    /\ p.count = Len(L) /\ p.len = NB(Len(L)) * 2 + Ends(L)[Len(L)]

\* The end of a block in the list.
BlockEnd(L, b) == Smaller((b + 1) * TRIGRAM_BLOCK, Len(L))

BlockFacts(post, p, L, b) ==
    /\ b * TRIGRAM_BLOCK \in Nat /\ b * TRIGRAM_BLOCK < Len(L)
    /\ (b + 1) * TRIGRAM_BLOCK = b * TRIGRAM_BLOCK + TRIGRAM_BLOCK
    /\ BlockEnd(L, b) \in 1..Len(L) /\ b * TRIGRAM_BLOCK < BlockEnd(L, b)
    /\ b + 1 < NB(Len(L)) => BlockEnd(L, b) = (b + 1) * TRIGRAM_BLOCK
    /\ ~ (b + 1 < NB(Len(L))) => BlockEnd(L, b) = Len(L)
    /\ MaxId(post, p, b) = L[BlockEnd(L, b)] /\ L[BlockEnd(L, b)] \in Nat
    /\ p.off + BlockOff(post, p, b) = Pos(L, p.off, NB(Len(L)), b * TRIGRAM_BLOCK)

\* What the skip entry of a block says.
LEMMA BlockEntry ==
    ASSUME NEW post, NEW p, NEW L, ListAt(post, p, L), NEW b \in Nat, b < NB(Len(L))
    PROVE  BlockFacts(post, p, L, b)
<1> DEFINE B == TRIGRAM_BLOCK
           k == b * B
           k1 == (b + 1) * B
           m == Len(L)
           N == NB(m)
           off == p.off
           e == BlockEnd(L, b)
<1>1. B \in Nat /\ B >= 1
  BY SearchAssumption
<1>2. m \in Nat /\ UpList(L) /\ off \in Nat /\ N \in Nat /\ Filled(post, L, off, N, m)
  BY DEF ListAt, View, Region
<1>3. k < m /\ (b + 1 < N <=> k1 < m)
  <2>1. \A d \in Nat : d < N <=> d * B < m
    BY <1>2, BlockCount
  <2>2. b + 1 \in Nat
    OBVIOUS
  <2> HIDE DEF N, m, B
  <2> QED BY <2>1, <2>2 DEF N, m
<1>4. k \in Nat /\ k1 = k + B
  <2> HIDE DEF B
  <2> QED BY <1>1
<1>5. /\ post[off + b * 2 + 1] = L[e]
      /\ post[off + b * 2 + 2] = N * 2 + Ends(L)[k]
  BY <1>2 DEF Filled, BlockEnd
<1>6. MaxId(post, p, b) = L[e] /\ BlockOff(post, p, b) = N * 2 + Ends(L)[k]
  BY <1>5 DEF MaxId, BlockOff, SKIP_ENTRY
<1>7. e = Smaller(k1, m)
  BY DEF BlockEnd
<1>8. Ends(L)[k] \in Nat
  <2>1. EndsRule(L)
    BY <1>2, EndsFound
  <2>2. k \in 0..Len(L)
    <3> HIDE DEF k
    <3> QED BY <1>2, <1>3, <1>4
  <2> HIDE DEF k
  <2> QED BY <2>1, <2>2 DEF EndsRule
<1> HIDE DEF k, k1, m, N, off, e, B
<1>9. e \in 1..m /\ k < e /\ (b + 1 < N => e = k1) /\ (~ (b + 1 < N) => e = m)
  BY <1>1, <1>2, <1>3, <1>4, <1>7 DEF Smaller
<1>10. L[e] \in Nat
  <2>1. L \in Seq(Nat) /\ m = Len(L)
    BY <1>2 DEF UpList, m
  <2> QED BY <1>9, <2>1
<1>11. off + BlockOff(post, p, b) = off + N * 2 + Ends(L)[k]
  <2> DEFINE x == Ends(L)[k]
             y == N * 2
  <2>1. x \in Nat /\ y \in Nat
    BY <1>2, <1>8
  <2> HIDE DEF x, y
  <2>2. off + (y + x) = off + y + x
    BY <1>2, <2>1
  <2> QED BY <1>6, <2>2 DEF x, y
<1> QED BY <1>3, <1>4, <1>6, <1>9, <1>10, <1>11 DEF BlockFacts, Pos, k, k1, m, N, off, e, B

\* The largest ids of the blocks ascend, so the ones below cand come first.
LEMMA CutFound ==
    ASSUME NEW post, NEW p, NEW L, ListAt(post, p, L), NEW cand \in Nat
    PROVE  \E c \in Nat : BlockCut(post, p, NB(p.count), cand, c)
<1> DEFINE n == NB(Len(L))
           S == {b \in Nat : b < n /\ ~ (MaxId(post, p, b) < cand)} \cup {n}
<1>1. n \in Nat /\ NB(p.count) = n
  BY DEF ListAt, View, Region
<1>2. \A b \in Nat : b < n => BlockFacts(post, p, L, b)
  BY BlockEntry
<1>3. UpList(L)
  BY DEF ListAt, View, Region
<1>4. ASSUME NEW b \in Nat, NEW d \in Nat, b < d, d < n
      PROVE  MaxId(post, p, b) \in Nat /\ MaxId(post, p, d) \in Nat /\ MaxId(post, p, b) < MaxId(post, p, d)
  <2> DEFINE x == BlockEnd(L, b)
             y == BlockEnd(L, d)
  <2>0. b < n /\ b + 1 < n
    BY <1>1, <1>4
  <2>1. x = (b + 1) * TRIGRAM_BLOCK /\ x \in 1..Len(L) /\ MaxId(post, p, b) = L[x] /\ L[x] \in Nat
    BY <1>2, <2>0 DEF BlockFacts
  <2>2. d * TRIGRAM_BLOCK \in Nat /\ d * TRIGRAM_BLOCK < y /\ y \in 1..Len(L) /\ MaxId(post, p, d) = L[y] /\ L[y] \in Nat
    BY <1>2, <1>4 DEF BlockFacts
  <2>3. (b + 1) * TRIGRAM_BLOCK <= d * TRIGRAM_BLOCK
    <3>1. TRIGRAM_BLOCK \in Nat
      BY SearchAssumption
    <3>2. b + 1 <= d
      BY <1>4
    <3>3. \A i, j, q \in Nat : i <= j => i * q <= j * q
      OBVIOUS
    <3> QED BY <3>1, <3>2, <3>3
  <2> HIDE DEF x, y
  <2>4. x < y
    BY <2>1, <2>2, <2>3
  <2>5. L[x] < L[y]
    BY <1>3, <2>1, <2>2, <2>4 DEF UpList
  <2> QED BY <2>1, <2>2, <2>5
<1>5. S \in SUBSET Nat /\ S # {}
  BY <1>1
<1> HIDE DEF n
<1>6. PICK c \in S : \A b \in S : c <= b
  <2> HIDE DEF S
  <2> QED BY <1>5, LeastNat
<1>7. c \in 0..n
  BY <1>1, <1>6
<1>8. ASSUME NEW b \in Nat, b < n
      PROVE  MaxId(post, p, b) < cand <=> b < c
  <2>1. b < c => MaxId(post, p, b) < cand
    BY <1>6, <1>7, <1>8
  <2>2. ASSUME b >= c PROVE ~ (MaxId(post, p, b) < cand)
    <3>1. c < n
      BY <1>1, <1>7, <1>8, <2>2
    <3>2. ~ (MaxId(post, p, c) < cand)
      BY <1>1, <1>6, <3>1
    <3>3. CASE c = b
      BY <3>2, <3>3
    <3>4. CASE c < b
      <4>1. MaxId(post, p, c) \in Nat /\ MaxId(post, p, b) \in Nat /\ MaxId(post, p, c) < MaxId(post, p, b)
        BY <1>4, <1>7, <1>8, <3>4
      <4> QED BY <3>2, <4>1
    <3> QED BY <1>7, <2>2, <3>3, <3>4
  <2> QED BY <1>7, <2>1, <2>2
<1> QED BY <1>1, <1>7, <1>8 DEF BlockCut

\* A candidate is in the list exactly when it is in the block at the cut.
LEMMA InCutBlock ==
    ASSUME NEW post, NEW p, NEW L, ListAt(post, p, L), NEW cand \in Nat,
           NEW c, BlockCut(post, p, NB(p.count), cand, c), NEW i \in 1..Len(L), L[i] = cand
    PROVE  c < NB(Len(L)) /\ c * TRIGRAM_BLOCK < i /\ i <= BlockEnd(L, c)
<1> DEFINE n == NB(Len(L))
<1>1. n \in Nat /\ NB(p.count) = n /\ Len(L) \in Nat
  BY DEF ListAt, View, Region
<1>2. c \in Nat /\ c <= n /\ \A b \in Nat : b < n => (MaxId(post, p, b) < cand <=> b < c)
  BY <1>1 DEF BlockCut
<1>3. \A b \in Nat : b < n => BlockFacts(post, p, L, b)
  BY BlockEntry
<1>4. UpList(L) /\ n >= 1
  <2>1. Len(L) >= 1 /\ UpList(L)
    BY DEF ListAt, View, Region
  <2>2. 0 < n <=> 0 * TRIGRAM_BLOCK < Len(L)
    BY <1>1, BlockCount
  <2>3. 0 * TRIGRAM_BLOCK = 0
    BY SearchAssumption
  <2> HIDE DEF n
  <2> QED BY <1>1, <2>1, <2>2, <2>3
<1> HIDE DEF n
<1>5. ASSUME NEW b \in Nat, b < c
      PROVE  BlockEnd(L, b) < i
  <2>1. BlockEnd(L, b) \in 1..Len(L) /\ L[BlockEnd(L, b)] < cand /\ L[BlockEnd(L, b)] \in Nat
    <3>1. b < n
      BY <1>1, <1>2, <1>5
    <3>2. BlockFacts(post, p, L, b) /\ MaxId(post, p, b) < cand
      BY <1>2, <1>3, <1>5, <3>1
    <3> QED BY <3>2 DEF BlockFacts
  <2> DEFINE x == BlockEnd(L, b)
  <2> HIDE DEF x
  <2>2. x \in 1..Len(L) /\ L[x] < L[i] /\ L[x] \in Nat /\ L[i] \in Nat
    BY <2>1 DEF x
  <2>3. ~ (i <= x)
    <3>1. i = x => ~ (L[x] < L[i])
      BY <2>2
    <3>2. i < x => L[i] < L[x]
      BY <1>4, <2>2 DEF UpList
    <3>3. ~ (L[i] < L[x])
      BY <2>2
    <3> QED BY <1>1, <2>2, <3>1, <3>2, <3>3
  <2>4. x < i
    BY <1>1, <2>2, <2>3
  <2> QED BY <2>4 DEF x
<1>6. c < n
  <2> SUFFICES ASSUME ~ (c < n) PROVE FALSE
    OBVIOUS
  <2> DEFINE b == n - 1
  <2>1. b \in Nat /\ b < c /\ b < n /\ ~ (b + 1 < n)
    BY <1>1, <1>2, <1>4
  <2> HIDE DEF b
  <2>2. BlockEnd(L, b) = Len(L)
    <3>1. BlockFacts(post, p, L, b)
      BY <1>3, <2>1
    <3> QED BY <2>1, <3>1 DEF BlockFacts, n
  <2>3. Len(L) < i
    BY <1>5, <2>1, <2>2
  <2> QED BY <1>1, <2>3
<1>7. c * TRIGRAM_BLOCK < i
  <2>1. CASE c = 0
    <3>1. 0 * TRIGRAM_BLOCK = 0
      BY SearchAssumption
    <3> QED BY <2>1, <3>1
  <2>2. CASE c # 0
    <3> DEFINE b == c - 1
    <3>1. b \in Nat /\ b < c /\ b + 1 = c /\ b < n /\ b + 1 < n
      BY <1>1, <1>2, <1>6, <2>2
    <3> HIDE DEF b
    <3>2. BlockEnd(L, b) = (b + 1) * TRIGRAM_BLOCK
      <4>1. BlockFacts(post, p, L, b)
        BY <1>3, <3>1
      <4> QED BY <3>1, <4>1 DEF BlockFacts, n
    <3> QED BY <1>5, <3>1, <3>2
  <2> QED BY <2>1, <2>2
<1>8. i <= BlockEnd(L, c)
  <2> DEFINE x == BlockEnd(L, c)
  <2>1. BlockFacts(post, p, L, c) /\ ~ (MaxId(post, p, c) < cand)
    BY <1>2, <1>3, <1>6
  <2>2. x \in 1..Len(L) /\ ~ (L[x] < L[i]) /\ L[x] \in Nat
    BY <2>1 DEF BlockFacts
  <2> HIDE DEF x
  <2>3. ~ (x < i)
    BY <1>4, <2>2 DEF UpList
  <2>4. i <= x
    BY <1>1, <2>2, <2>3
  <2> QED BY <2>4 DEF x
<1> QED BY <1>6, <1>7, <1>8 DEF n

\* The ids decoded at the cut.
LEMMA CutBlockRead ==
    ASSUME NEW post, NEW p, NEW L, ListAt(post, p, L), NEW c \in Nat, c < NB(Len(L)),
           NEW end, end = IF c + 1 < NB(Len(L)) THEN p.off + BlockOff(post, p, c + 1) ELSE p.off + p.len
    PROVE  DecodeBlock(post, p.off + BlockOff(post, p, c), end, TRIGRAM_BLOCK)[1]
             = Slice(L, c * TRIGRAM_BLOCK, BlockEnd(L, c))
<1> DEFINE N == NB(Len(L))
           off == p.off
           k == c * TRIGRAM_BLOCK
           e == BlockEnd(L, c)
           B == TRIGRAM_BLOCK
<1>1. BlockFacts(post, p, L, c)
  BY BlockEntry
<1>2. View(post, L, off, N) /\ N \in Nat /\ Len(L) \in Nat
  BY DEF ListAt, View, Region
<1>3. off + BlockOff(post, p, c) = Pos(L, off, N, k)
  BY <1>1 DEF BlockFacts
<1>4. end = Pos(L, off, N, e)
  <2>1. CASE c + 1 < N
    <3>1. BlockFacts(post, p, L, c + 1)
      BY <2>1, BlockEntry
    <3>2. off + BlockOff(post, p, c + 1) = Pos(L, off, N, (c + 1) * B)
      BY <3>1 DEF BlockFacts
    <3>3. e = (c + 1) * B
      BY <1>1, <2>1 DEF BlockFacts
    <3> QED BY <2>1, <3>2, <3>3
  <2>2. CASE ~ (c + 1 < N)
    <3>1. e = Len(L)
      BY <1>1, <2>2 DEF BlockFacts
    <3>2. p.off + p.len = off + N * 2 + Ends(L)[Len(L)]
      <4> DEFINE x == Ends(L)[Len(L)]
                 y == N * 2
      <4>1. p.len = y + x
        BY DEF ListAt
      <4>2. off \in Nat /\ y \in Nat /\ x \in Nat
        <5>1. UpList(L) /\ off \in Nat
          BY DEF ListAt, View, Region
        <5>2. EndsRule(L)
          BY <5>1, EndsFound
        <5>3. Len(L) \in 0..Len(L)
          BY <1>2
        <5>4. x \in Nat
          BY <5>2, <5>3 DEF EndsRule
        <5> QED BY <1>2, <5>1, <5>4
      <4> HIDE DEF x, y, off
      <4>3. off + p.len = off + y + x
        BY <4>1, <4>2
      <4> QED BY <4>3 DEF x, y, off
    <3> QED BY <2>2, <3>1, <3>2 DEF Pos
  <2> QED BY <2>1, <2>2
<1>5. e \in 0..Len(L) /\ k <= e /\ k \in Nat /\ B \in 0..B
  <2>1. k \in Nat /\ e \in 1..Len(L) /\ k < e
    BY <1>1 DEF BlockFacts
  <2>2. B \in 0..B
    BY SearchAssumption
  <2> HIDE DEF k, e, B
  <2> QED BY <1>2, <2>1, <2>2
<1>6. Smaller(k + B, e) = e
  <2>1. (c + 1) * B = k + B
    BY <1>1 DEF BlockFacts
  <2>2. e <= (c + 1) * B
    <3>1. (c + 1) * B \in Nat
      BY SearchAssumption
    <3> DEFINE x == (c + 1) * B
    <3>2. e = Smaller(x, Len(L))
      BY DEF BlockEnd
    <3> HIDE DEF x, e
    <3> QED BY <1>2, <3>1, <3>2 DEF Smaller, x
  <2>3. k + B \in Nat
    <3> HIDE DEF k
    <3> QED BY <1>5, SearchAssumption
  <2> HIDE DEF k, e
  <2> QED BY <1>5, <2>1, <2>2, <2>3 DEF Smaller
<1>7. DecodeBlock(post, Pos(L, off, N, k), Pos(L, off, N, e), B) = Read(L, off, N, k, Smaller(k + B, e))
  <2>1. k = c * TRIGRAM_BLOCK
    OBVIOUS
  <2> HIDE DEF k, e, off, N
  <2> QED BY <1>2, <1>5, <2>1, BlockDecoded
<1>8. Read(L, off, N, k, e)[1] = Slice(L, k, e)
  BY DEF Read
<1> QED BY <1>3, <1>4, <1>6, <1>7, <1>8, Zenon

\* trigram_contains, from a hint that is not past the cut, says whether the
\* candidate is in the list, and returns the cut as the next hint.
LEMMA ContainsFound ==
    ASSUME NEW post, NEW p, NEW L, ListAt(post, p, L), NEW cand \in Nat,
           NEW c, BlockCut(post, p, NB(p.count), cand, c), NEW hint \in Nat, hint <= c
    PROVE  trigram_contains(post, p, cand, hint) = <<cand \in ToSet(L), c>>
<1> DEFINE n == NB(p.count)
           b == FirstBlock(post, p, cand, hint)
           end == IF b + 1 < n THEN p.off + BlockOff(post, p, b + 1) ELSE p.off + p.len
           ids == DecodeBlock(post, p.off + BlockOff(post, p, b), end, TRIGRAM_BLOCK)[1]
<1>1. trigram_contains(post, p, cand, hint) = IF n = 0 THEN <<FALSE, 0>>
                                              ELSE IF b >= n THEN <<FALSE, n>>
                                              ELSE <<cand \in ToSet(ids), b>>
  BY Zenon DEF trigram_contains, NB
<1>2. n = NB(Len(L)) /\ n \in Nat /\ Len(L) \in Nat /\ UpList(L)
  BY DEF ListAt, View, Region
<1>3. n >= 1
  <2>1. Len(L) >= 1
    BY DEF ListAt
  <2>2. 0 < n <=> 0 * TRIGRAM_BLOCK < Len(L)
    BY <1>2, BlockCount
  <2>3. 0 * TRIGRAM_BLOCK = 0
    BY SearchAssumption
  <2> HIDE DEF n
  <2> QED BY <1>2, <2>1, <2>2, <2>3
<1>4. b = c
  BY FirstBlockFound
<1>5. c \in Nat /\ c <= n
  BY DEF BlockCut
<1>6. L \in Seq(Nat) /\ ToSet(L) = RowsIn(L)
  <2>1. L \in Seq(Nat)
    BY <1>2 DEF UpList
  <2> QED BY <2>1, ElementsOf
<1>7. \A i \in 1..Len(L) : L[i] = cand => c < n /\ c * TRIGRAM_BLOCK < i /\ i <= BlockEnd(L, c)
  BY <1>2, InCutBlock
<1> HIDE DEF n, b
<1>8. CASE c >= n
  <2>1. cand \notin ToSet(L)
    <3>1. ~ (c < n)
      BY <1>2, <1>5, <1>8
    <3> QED BY <1>6, <1>7, <3>1 DEF RowsIn
  <2>2. c = n /\ n # 0
    BY <1>2, <1>3, <1>5, <1>8
  <2>3. trigram_contains(post, p, cand, hint) = <<FALSE, n>>
    <3> HIDE DEF ids
    <3> QED BY <1>1, <1>4, <1>8, <2>2, Zenon
  <2>4. FALSE = (cand \in ToSet(L))
    BY <2>1
  <2> QED BY <2>2, <2>3, <2>4, Zenon
<1>9. CASE ~ (c >= n)
  <2>1. c < n
    BY <1>2, <1>5, <1>9
  <2>2. ids = Slice(L, c * TRIGRAM_BLOCK, BlockEnd(L, c))
    <3>1. end = IF c + 1 < NB(Len(L)) THEN p.off + BlockOff(post, p, c + 1) ELSE p.off + p.len
      BY <1>2, <1>4, Zenon
    <3> HIDE DEF end
    <3>2. c < NB(Len(L))
      BY <1>2, <2>1
    <3>3. DecodeBlock(post, p.off + BlockOff(post, p, c), end, TRIGRAM_BLOCK)[1]
            = Slice(L, c * TRIGRAM_BLOCK, BlockEnd(L, c))
      BY <1>5, <3>1, <3>2, CutBlockRead
    <3> QED BY <1>4, <3>3, Zenon
  <2> DEFINE k == c * TRIGRAM_BLOCK
             e == BlockEnd(L, c)
             s == Slice(L, k, e)
  <2>3. k \in Nat /\ e \in 1..Len(L) /\ k < e
    <3>1. BlockFacts(post, p, L, c)
      BY <1>2, <1>5, <2>1, BlockEntry
    <3> QED BY <3>1 DEF BlockFacts
  <2> HIDE DEF k, e
  <2>4. s \in Seq(Nat) /\ Len(s) = e - k /\ \A i \in 1..(e - k) : s[i] = L[k + i]
    <3>1. k \in 0..Len(L) /\ e \in k..Len(L)
      BY <1>2, <2>3
    <3> QED BY <1>6, <3>1, SliceAt
  <2>5. ToSet(s) = RowsIn(s)
    BY <2>4, ElementsOf
  <2> HIDE DEF s
  <2>6. cand \in ToSet(s) <=> cand \in ToSet(L)
    <3>1. ASSUME cand \in ToSet(s) PROVE cand \in ToSet(L)
      <4>1. PICK i \in 1..(e - k) : s[i] = cand
        BY <2>4, <2>5, <3>1 DEF RowsIn
      <4>2. k + i \in 1..Len(L) /\ L[k + i] = cand
        BY <1>2, <2>3, <2>4, <4>1
      <4> QED BY <1>6, <4>2 DEF RowsIn
    <3>2. ASSUME cand \in ToSet(L) PROVE cand \in ToSet(s)
      <4>1. PICK i \in 1..Len(L) : L[i] = cand
        BY <1>6, <3>2 DEF RowsIn
      <4>2. k < i /\ i <= e
        BY <1>7, <4>1 DEF k, e
      <4>3. i - k \in 1..(e - k) /\ k + (i - k) = i
        BY <1>2, <2>3, <4>2
      <4>4. s[i - k] = cand
        BY <2>4, <4>1, <4>3
      <4>5. i - k \in 1..Len(s)
        BY <2>4, <4>3
      <4> QED BY <2>5, <4>4, <4>5 DEF RowsIn
    <3> QED BY <3>1, <3>2
  <2>7. ids = s
    BY <2>2 DEF s, k, e
  <2> HIDE DEF ids
  <2>8. trigram_contains(post, p, cand, hint) = <<cand \in ToSet(s), c>>
    <3>1. n # 0
      BY <1>3, <1>2
    <3> QED BY <1>1, <1>4, <1>9, <2>7, <3>1, Zenon
  <2>9. (cand \in ToSet(s)) = (cand \in ToSet(L))
    BY <2>6
  <2> QED BY <2>8, <2>9, Zenon
<1> QED BY <1>8, <1>9

-----------------------------------------------------------------------------
(* Probing the other lists.                                                *)

ProbeNext(cand, k, before) ==
    LET r == trigram_contains(ix.post, others[k], cand, cursor[k])
    IN  IF ~before[1] THEN before ELSE <<r[1], [before[2] EXCEPT ![k] = r[2]]>>

ProbeRuleSteps(W, n, cand) ==
    /\ W = [k \in 0..n |-> W[k]] /\ W[0] = <<TRUE, cursor>>
    /\ \A k \in 1..n : W[k] = ProbeNext(cand, k, W[k - 1])

\* ProbeAll takes a step per list.
LEMMA ProbeRule ==
    ASSUME NEW cand, Len(others) \in Nat, NEW W, ProbeRuleSteps(W, Len(others), cand)
    PROVE  ProbeAll(cand) = W[Len(others)]
<1>0. /\ W = [k \in 0..Len(others) |-> W[k]] /\ W[0] = <<TRUE, cursor>>
      /\ \A k \in 1..Len(others) : W[k] = ProbeNext(cand, k, W[k - 1])
  BY Zenon DEF ProbeRuleSteps
<1> DEFINE Body(f, k) == IF k = 0 THEN <<TRUE, cursor>> ELSE ProbeNext(cand, k, f[k - 1])
           E(f) == f = [k \in 0..Len(others) |-> Body(f, k)]
           it == CHOOSE f : E(f)
<1>1. \A k \in 0..Len(others) : W[k] = Body(W, k)
  <2>1. \A k \in 0..Len(others) : k = 0 \/ k \in 1..Len(others)
    OBVIOUS
  <2> QED BY <1>0, <2>1, Zenon
<1>2. E(W)
  <2> HIDE DEF Body
  <2>1. W = [k \in 0..Len(others) |-> Body(W, k)]
    BY <1>0, <1>1
  <2> QED BY <2>1, Zenon
<1>3. E(it)
  <2> HIDE DEF E
  <2> QED BY <1>2
<1>4. ProbeAll(cand) = it[Len(others)]
  BY Zenon DEF ProbeAll, ProbeNext
<1> HIDE DEF it
<1>5. \A k \in 0..Len(others) : it[k] = Body(it, k)
  <2>1. it = [k \in 0..Len(others) |-> Body(it, k)]
    BY <1>3
  <2> HIDE DEF Body
  <2> QED BY <2>1
<1> DEFINE P == {k \in 0..Len(others) : it[k] = W[k]}
<1>6. 0 \in P
  <2>1. 0 \in 0..Len(others)
    OBVIOUS
  <2>2. it[0] = <<TRUE, cursor>>
    BY <1>5, <2>1, Zenon
  <2> QED BY <1>0, <2>1, <2>2
<1>7. ASSUME NEW k \in 1..Len(others), k - 1 \in P
      PROVE  k \in P
  <2>1. k \in 0..Len(others) /\ k # 0
    OBVIOUS
  <2>2. it[k - 1] = W[k - 1]
    BY <1>7
  <2>3. it[k] = ProbeNext(cand, k, it[k - 1])
    BY <1>5, <2>1, Zenon
  <2>4. it[k] = W[k]
    BY <1>0, <2>2, <2>3, Zenon
  <2> QED BY <2>1, <2>4
<1> HIDE DEF P
<1>8. \A k \in 0..Len(others) : k \in P
  BY <1>6, <1>7, UpTo
<1>9. it[Len(others)] = W[Len(others)]
  BY <1>8 DEF P
<1> QED BY <1>4, <1>9, Zenon

\* Before a probe of cand the cursor of every list is not past the cut.
Ready(Ls, cut, cand) ==
    /\ others = [k \in 1..Len(others) |-> others[k]] /\ Len(others) \in Nat
    /\ cursor = [k \in 1..Len(others) |-> cursor[k]]
    /\ \A k \in 1..Len(others) :
          /\ ListAt(ix.post, others[k], Ls[k])
          /\ BlockCut(ix.post, others[k], NB(others[k].count), cand, cut[k])
          /\ cursor[k] \in Nat /\ cursor[k] <= cut[k] /\ cut[k] \in Nat

\* The lists cand is in.
Has(Ls, cand) == {k \in 1..Len(others) : cand \in ToSet(Ls[k])}

\* The cursors when the first k lists were probed as far as they hit.
CursorTo(Ls, cut, cand, k) ==
    [i \in 1..Len(others) |->
        IF i <= k /\ 1..(i - 1) \subseteq Has(Ls, cand) THEN cut[i] ELSE cursor[i]]

\* ProbeAll finds whether all other lists have the candidate.
LEMMA ProbeFound ==
    ASSUME NEW Ls, NEW cut, NEW cand \in Nat, Ready(Ls, cut, cand)
    PROVE  ProbeAll(cand) = <<1..Len(others) \subseteq Has(Ls, cand), CursorTo(Ls, cut, cand, Len(others))>>
<1> DEFINE n == Len(others)
           G == Has(Ls, cand)
           W == [k \in 0..n |-> <<1..k \subseteq G, CursorTo(Ls, cut, cand, k)>>]
<1>1. n \in Nat
  BY DEF Ready
<1>2. ASSUME NEW k \in 1..n
      PROVE  trigram_contains(ix.post, others[k], cand, cursor[k]) = <<k \in G, cut[k]>>
  <2>1. trigram_contains(ix.post, others[k], cand, cursor[k]) = <<cand \in ToSet(Ls[k]), cut[k]>>
    BY ContainsFound DEF Ready
  <2>2. k \in G <=> cand \in ToSet(Ls[k])
    BY DEF Has
  <2> HIDE DEF G
  <2>3. (k \in G) = (cand \in ToSet(Ls[k]))
    BY <2>2
  <2> QED BY <2>1, <2>3, Zenon
<1>3. ASSUME NEW k \in 1..n, 1..(k - 1) \subseteq G
      PROVE  [CursorTo(Ls, cut, cand, k - 1) EXCEPT ![k] = cut[k]] = CursorTo(Ls, cut, cand, k)
  <2> HIDE DEF G
  <2>1. ASSUME NEW i \in 1..n PROVE (i <= k - 1 <=> i <= k /\ i # k)
    BY <1>1
  <2> DEFINE u == CursorTo(Ls, cut, cand, k - 1)
             v == CursorTo(Ls, cut, cand, k)
  <2>2. u = [i \in 1..n |-> IF i <= k - 1 /\ 1..(i - 1) \subseteq G THEN cut[i] ELSE cursor[i]]
    BY DEF CursorTo, G
  <2>3. v = [i \in 1..n |-> IF i <= k /\ 1..(i - 1) \subseteq G THEN cut[i] ELSE cursor[i]]
    BY DEF CursorTo, G
  <2> HIDE DEF u, v
  <2>4. ASSUME NEW i \in 1..n PROVE [u EXCEPT ![k] = cut[k]][i] = v[i]
    <3>1. CASE i = k
      <4>1. k <= k
        BY <1>1
      <4>2. v[k] = cut[k]
        BY <1>3, <2>3, <4>1
      <4>3. [u EXCEPT ![k] = cut[k]][k] = cut[k]
        BY <2>2
      <4> QED BY <3>1, <4>2, <4>3
    <3>2. CASE i # k
      <4>1. u[i] = v[i]
        BY <2>1, <2>2, <2>3, <3>2
      <4>2. [u EXCEPT ![k] = cut[k]][i] = u[i]
        BY <2>2, <3>2
      <4> QED BY <4>1, <4>2
    <3> QED BY <3>1, <3>2
  <2> DEFINE w == [u EXCEPT ![k] = cut[k]]
  <2>5. DOMAIN w = 1..n /\ w = [i \in 1..n |-> w[i]]
    BY <2>2
  <2>6. v = [i \in 1..n |-> v[i]]
    BY <2>3
  <2>7. \A i \in 1..n : w[i] = v[i]
    BY <2>4
  <2> HIDE DEF w
  <2>8. w = v
    BY <2>5, <2>6, <2>7
  <2> QED BY <2>8, Zenon DEF w, u, v
<1>4. ASSUME NEW k \in 1..n, ~ (1..(k - 1) \subseteq G)
      PROVE  CursorTo(Ls, cut, cand, k - 1) = CursorTo(Ls, cut, cand, k)
  <2> HIDE DEF G
  <2>1. ASSUME NEW i \in 1..n
        PROVE  i <= k - 1 /\ 1..(i - 1) \subseteq G <=> i <= k /\ 1..(i - 1) \subseteq G
    <3>1. CASE i = k
      BY <1>4, <3>1
    <3>2. CASE i # k
      <4>1. i <= k - 1 <=> i <= k
        BY <1>1, <3>2
      <4> QED BY <4>1
    <3> QED BY <3>1, <3>2
  <2>2. ASSUME NEW i \in 1..n
        PROVE  (IF i <= k - 1 /\ 1..(i - 1) \subseteq G THEN cut[i] ELSE cursor[i])
                 = (IF i <= k /\ 1..(i - 1) \subseteq G THEN cut[i] ELSE cursor[i])
    BY <2>1, Zenon
  <2> QED BY <2>2 DEF CursorTo, G
<1>5. ASSUME NEW k \in 1..n
      PROVE  W[k] = ProbeNext(cand, k, W[k - 1])
  <2> DEFINE u == CursorTo(Ls, cut, cand, k - 1)
             v == CursorTo(Ls, cut, cand, k)
             before == W[k - 1]
  <2>1. k - 1 \in 0..n /\ k \in 0..n
    BY <1>1
  <2>2. W[k - 1] = <<1..(k - 1) \subseteq G, u>> /\ W[k] = <<1..k \subseteq G, v>>
    <3> HIDE DEF u, v, G
    <3> QED BY <2>1 DEF u, v
  <2> HIDE DEF W, u, v, G
  <2>3. before[1] = (1..(k - 1) \subseteq G) /\ before[2] = u /\ before = <<1..(k - 1) \subseteq G, u>>
    BY <2>2
  <2>4. CASE 1..(k - 1) \subseteq G
    <3>1. before[1]
      BY <2>3, <2>4
    <3>2. (1..k \subseteq G) = (k \in G)
      <4>1. 1..k = 1..(k - 1) \cup {k}
        BY <1>1
      <4> QED BY <2>4, <4>1
    <3>3. [u EXCEPT ![k] = cut[k]] = v
      BY <1>3, <2>4 DEF u, v
    <3>4. ProbeNext(cand, k, before) = <<k \in G, [u EXCEPT ![k] = cut[k]]>>
      <4> DEFINE r == trigram_contains(ix.post, others[k], cand, cursor[k])
      <4>1. r = <<k \in G, cut[k]>>
        BY <1>2
      <4> HIDE DEF r
      <4>2. r[1] = (k \in G) /\ r[2] = cut[k]
        BY <4>1
      <4>3. ProbeNext(cand, k, before) = IF ~ before[1] THEN before ELSE <<r[1], [before[2] EXCEPT ![k] = r[2]]>>
        BY Zenon DEF ProbeNext, r
      <4> HIDE DEF before
      <4>4. ProbeNext(cand, k, before) = <<r[1], [before[2] EXCEPT ![k] = r[2]]>>
        BY <3>1, <4>3, Zenon
      <4> QED BY <2>3, <4>2, <4>4, Zenon
    <3> QED BY <2>2, <3>2, <3>3, <3>4, Zenon
  <2>5. CASE ~ (1..(k - 1) \subseteq G)
    <3>1. ~ before[1]
      BY <2>3, <2>5
    <3>2. ProbeNext(cand, k, before) = before
      <4> HIDE DEF before
      <4> QED BY <3>1, Zenon DEF ProbeNext
    <3>3. (1..k \subseteq G) = (1..(k - 1) \subseteq G)
      <4>1. 1..(k - 1) \subseteq 1..k
        BY <1>1
      <4> QED BY <2>5, <4>1
    <3>4. u = v
      BY <1>4, <2>5 DEF u, v
    <3> QED BY <2>2, <3>2, <3>3, <3>4, Zenon
  <2> QED BY <2>4, <2>5
<1>6. W[0] = <<TRUE, cursor>>
  <2>1. 0 \in 0..n
    BY <1>1
  <2>2. (1..0 \subseteq G) = TRUE
    OBVIOUS
  <2>3. CursorTo(Ls, cut, cand, 0) = cursor
    <3>1. cursor = [k \in 1..n |-> cursor[k]]
      BY DEF Ready
    <3>2. \A i \in 1..n : ~ (i <= 0)
      BY <1>1
    <3> QED BY <3>1, <3>2 DEF CursorTo
  <2>4. W[0] = <<1..0 \subseteq G, CursorTo(Ls, cut, cand, 0)>>
    <3> HIDE DEF G
    <3> QED BY <2>1
  <2> HIDE DEF W, G
  <2> QED BY <2>2, <2>3, <2>4, Zenon
<1>7. W = [k \in 0..n |-> W[k]]
  <2> HIDE DEF G
  <2> QED OBVIOUS
<1>8. W[n] = <<1..n \subseteq G, CursorTo(Ls, cut, cand, n)>>
  <2> HIDE DEF G
  <2> QED BY <1>1
<1> HIDE DEF W, G
<1>9. ProbeRuleSteps(W, n, cand)
  BY <1>5, <1>6, <1>7 DEF ProbeRuleSteps
<1>10. ProbeAll(cand) = W[n]
  BY <1>1, <1>9, ProbeRule
<1> QED BY <1>8, <1>10 DEF G

-----------------------------------------------------------------------------
(* The search through the trigram index.                                   *)

\* What a serial scan has found after j rows.
OutUpTo(j) == FirstDistinct(Col2(Keep(Slice(names, 0, j), Hits)), query.limit)

OutRule ==
    /\ OutUpTo(0) = <<>> /\ OutUpTo(Len(names)) = SerialScan /\ Len(names) \in Nat
    /\ \A j \in 0..Len(names) : OutUpTo(j) \in Seq(Int) /\ Len(OutUpTo(j)) \in Nat

\* It starts with nothing and ends with the serial result.
LEMMA OutEnds ==
    ASSUME SearchTyped
    PROVE  OutRule
<1> DEFINE R == Text \X Int
           m == query.limit
<1>1. names \in Seq(R) /\ m \in Nat
  BY DEF SearchTyped
<1>2. SliceRule(names, R) /\ KeepRule(R, Hits) /\ Col2Rule(Text, Int) /\ FirstRule(Int, m) /\ Len(names) \in Nat
  BY <1>1, SliceParts, KeepOne, Col2Facts, FirstOne
<1>3. Slice(names, 0, 0) = <<>> /\ Slice(names, 0, Len(names)) = names
  <2>1. 0 \in 0..Len(names)
    BY <1>2
  <2> QED BY <1>2, <2>1 DEF SliceRule
<1>4. OutUpTo(0) = <<>>
  BY <1>2, <1>3 DEF OutUpTo, KeepRule, Col2Rule, FirstRule
<1>5. OutUpTo(Len(names)) = SerialScan
  <2>1. SerialScan = FirstDistinct(Col2(MatchingRows), m) /\ MatchingRows = Keep(names, Hits)
    BY SerialFound
  <2> QED BY <1>3, <2>1 DEF OutUpTo
<1>6. ASSUME NEW j \in 0..Len(names)
      PROVE  OutUpTo(j) \in Seq(Int) /\ Len(OutUpTo(j)) \in Nat
  <2>1. Slice(names, 0, j) \in Seq(R)
    <3>1. 0 \in 0..Len(names) /\ j \in 0..Len(names)
      BY <1>2
    <3> QED BY <1>2, <3>1 DEF SliceRule
  <2>2. Keep(Slice(names, 0, j), Hits) \in Seq(R)
    BY <1>2, <2>1 DEF KeepRule
  <2>3. Col2(Keep(Slice(names, 0, j), Hits)) \in Seq(Int)
    BY <1>2, <2>2 DEF Col2Rule
  <2>4. OutUpTo(j) \in Seq(Int)
    BY <1>2, <2>3 DEF FirstRule, OutUpTo
  <2> QED BY <2>4
<1> QED BY <1>2, <1>4, <1>5, <1>6 DEF OutRule

\* One row more.
LEMMA OutNext ==
    ASSUME SearchTyped, NEW j \in Nat, j < Len(names)
    PROVE  /\ ~ Matches(names[j + 1][1]) => OutUpTo(j + 1) = OutUpTo(j)
           /\ Matches(names[j + 1][1]) /\ names[j + 1][2] \in ToSet(OutUpTo(j))
                => OutUpTo(j + 1) = OutUpTo(j)
           /\ Matches(names[j + 1][1]) /\ names[j + 1][2] \notin ToSet(OutUpTo(j)) /\ Len(OutUpTo(j)) < query.limit
                => OutUpTo(j + 1) = Append(OutUpTo(j), names[j + 1][2])
<1> DEFINE R == Text \X Int
           m == query.limit
           row == names[j + 1]
           s == Slice(names, 0, j)
           t == Keep(s, Hits)
           u == Col2(t)
<1>1. names \in Seq(R) /\ m \in Nat
  BY DEF SearchTyped
<1>2. SliceRule(names, R) /\ KeepRule(R, Hits) /\ Col2Rule(Text, Int) /\ FirstRule(Int, m) /\ Len(names) \in Nat
  BY <1>1, SliceParts, KeepOne, Col2Facts, FirstOne
<1>3. s \in Seq(R) /\ row \in R /\ Slice(names, 0, j + 1) = Append(s, row)
  <2>1. 0 \in 0..Len(names) /\ j \in 0..Len(names)
    BY <1>2
  <2> QED BY <1>2, <2>1 DEF SliceRule
<1>4. row \in Hits <=> Matches(row[1])
  <2>1. j + 1 \in 1..Len(names) /\ ToSet(names) = RowsIn(names)
    BY <1>1, <1>2, ElementsOf
  <2>2. row \in ToSet(names)
    BY <2>1 DEF RowsIn
  <2> QED BY <2>2 DEF Hits
<1> HIDE DEF row, s
<1>5. t \in Seq(R) /\ Keep(Append(s, row), Hits) = IF row \in Hits THEN Append(t, row) ELSE t
  BY <1>2, <1>3 DEF KeepRule
<1> HIDE DEF t
<1>6. u \in Seq(Int) /\ Col2(Append(t, row)) = Append(u, row[2]) /\ row[2] \in Int
  BY <1>2, <1>3, <1>5 DEF Col2Rule
<1>7. OutUpTo(j) = FirstDistinct(u, m) /\ OutUpTo(j + 1) = FirstDistinct(Col2(Keep(Append(s, row), Hits)), m)
  BY <1>3 DEF OutUpTo, u, t, s
<1> HIDE DEF u
<1>8. ~ Matches(row[1]) => OutUpTo(j + 1) = OutUpTo(j)
  BY <1>4, <1>5, <1>7 DEF u
<1>9. ASSUME Matches(row[1])
      PROVE  OutUpTo(j + 1) = FirstDistinct(Append(u, row[2]), m)
  BY <1>4, <1>5, <1>6, <1>7, <1>9
<1>10. Matches(row[1]) /\ row[2] \in ToSet(OutUpTo(j)) => OutUpTo(j + 1) = OutUpTo(j)
  BY <1>2, <1>6, <1>7, <1>9 DEF FirstRule
<1>11. ASSUME Matches(row[1]), row[2] \notin ToSet(OutUpTo(j)), Len(OutUpTo(j)) < m
       PROVE  OutUpTo(j + 1) = Append(OutUpTo(j), row[2])
  <2> DEFINE f == FirstDistinct(u, m)
  <2>1. Len(f) \in Nat
    <3>1. f \in Seq(Int)
      BY <1>2, <1>6 DEF FirstRule
    <3> QED BY <3>1
  <2>2. ~ (Len(f) >= m) /\ row[2] \notin ToSet(f)
    <3> HIDE DEF f
    <3>1. f = OutUpTo(j)
      BY <1>7 DEF f
    <3> QED BY <1>1, <1>11, <2>1, <3>1
  <2>3. FirstDistinct(Append(u, row[2]), m) = Append(f, row[2])
    BY <1>2, <1>6, <2>2 DEF FirstRule
  <2> QED BY <1>7, <1>9, <1>11, <2>3
<1> QED BY <1>8, <1>10, <1>11 DEF row

NoHits(a, b) == \A r \in (a + 1)..b : ~ Matches(names[r][1])

\* Rows that do not match change nothing, and neither does anything once
\* the limit is reached.
LEMMA OutSame ==
    ASSUME SearchTyped, NEW a \in 0..Len(names), NEW b \in a..Len(names)
    PROVE  /\ NoHits(a, b) => OutUpTo(b) = OutUpTo(a)
           /\ Len(OutUpTo(a)) >= query.limit => OutUpTo(b) = OutUpTo(a)
<1> DEFINE R == Text \X Int
           m == query.limit
           s == Slice(names, 0, a)
           w == Slice(names, a, b)
           t == Keep(s, Hits)
           v == Keep(w, Hits)
<1>1. names \in Seq(R) /\ m \in Nat
  BY DEF SearchTyped
<1>2. SliceRule(names, R) /\ KeepRule(R, Hits) /\ Col2Rule(Text, Int) /\ FirstRule(Int, m) /\ Len(names) \in Nat
  BY <1>1, SliceParts, KeepOne, Col2Facts, FirstOne
<1>3. s \in Seq(R) /\ w \in Seq(R) /\ s \o w = Slice(names, 0, b)
  <2>1. 0 \in 0..Len(names) /\ a \in 0..Len(names) /\ b \in a..Len(names)
    BY <1>2
  <2>2. a \in Nat
    BY <1>2
  <2> QED BY <1>2, <2>1, <2>2 DEF SliceRule
<1>4. w \in Seq(R) /\ Len(w) = b - a /\ \A i \in 1..(b - a) : w[i] = names[a + i]
  BY <1>1, <1>3, SliceAt
<1> HIDE DEF s, w
<1>5. t \in Seq(R) /\ v \in Seq(R) /\ Keep(s \o w, Hits) = t \o v /\ ToSet(v) = ToSet(w) \cap Hits
  <2>1. t \in Seq(R) /\ v \in Seq(R)
    BY <1>2, <1>3 DEF KeepRule
  <2>2. Keep(s \o w, Hits) = t \o v
    BY <1>3, KeepConcat
  <2>3. ToSet(v) = ToSet(w) \cap Hits
    BY <1>3, KeepElements
  <2> QED BY <2>1, <2>2, <2>3
<1> HIDE DEF t, v
<1>6. Col2(t) \in Seq(Int) /\ Col2(v) \in Seq(Int) /\ Col2(t \o v) = Col2(t) \o Col2(v)
  BY <1>2, <1>5 DEF Col2Rule
<1>7. OutUpTo(a) = FirstDistinct(Col2(t), m) /\ OutUpTo(b) = FirstDistinct(Col2(t) \o Col2(v), m)
  BY <1>3, <1>5, <1>6 DEF OutUpTo, s, t
<1>8. ASSUME NoHits(a, b) PROVE OutUpTo(b) = OutUpTo(a)
  <2>1. ToSet(v) = {}
    <3> SUFFICES ASSUME NEW x \in ToSet(w), x \in Hits PROVE FALSE
      BY <1>5
    <3>1. ToSet(w) = RowsIn(w)
      BY <1>4, ElementsOf
    <3>2. PICK i \in 1..Len(w) : w[i] = x
      BY <3>1 DEF RowsIn
    <3>3. a + i \in (a + 1)..b /\ x = names[a + i]
      BY <1>2, <1>4, <3>2
    <3>4. ~ Matches(names[a + i][1])
      BY <1>8, <3>3 DEF NoHits
    <3> QED BY <3>3, <3>4 DEF Hits
  <2>2. v = <<>>
    <3>1. ToSet(v) = RowsIn(v)
      BY <1>5, ElementsOf
    <3>2. Len(v) \in Nat
      BY <1>5
    <3>3. ~ (1 \in 1..Len(v))
      BY <2>1, <3>1 DEF RowsIn
    <3>4. Len(v) = 0
      BY <3>2, <3>3
    <3> QED BY <1>5, <3>4
  <2>3. Col2(v) = <<>>
    BY <1>2, <2>2 DEF Col2Rule
  <2>4. Col2(t) \o <<>> = Col2(t)
    BY <1>6, ConcatMore
  <2> QED BY <1>7, <2>3, <2>4
<1>9. Len(OutUpTo(a)) >= m => OutUpTo(b) = OutUpTo(a)
  BY <1>6, <1>7, FirstFull
<1> QED BY <1>8, <1>9

\* The index is the one of the name table.
Events  == visit(names)
Indexed == SearchTyped /\ IndexFacts(ix, Events) /\ EventsOf(Events, names)

IdsOf(t) == ListOf(Events, t)

\* The index that build_trigram_index makes is.
LEMMA IndexedFound ==
    ASSUME SearchTyped, ix = build_trigram_index(names)
    PROVE  Indexed
<1>1. names \in Seq(Text \X Int)
  BY DEF SearchTyped
<1>2. IndexFacts(build_trigram_index(names), visit(names))
  BY <1>1, IndexBuilt
<1>3. EventsOf(visit(names), names)
  BY <1>1, Visited
<1> QED BY <1>2, <1>3 DEF Indexed, Events

GramFacts(t) ==
    /\ ListAt(ix.post, OfTri(ix.dict, t), IdsOf(t)) /\ UpList(IdsOf(t))
    /\ Len(IdsOf(t)) \in Nat /\ Len(IdsOf(t)) >= 1
    /\ trigram_postings(ix.post, OfTri(ix.dict, t)) = IdsOf(t)
    /\ \A d \in Nat : d \in ToSet(IdsOf(t)) <=> <<t, d>> \in ToSet(Events)
    /\ \A i \in 1..Len(IdsOf(t)) : IdsOf(t)[i] \in Nat /\ IdsOf(t)[i] < Len(names) /\ IdsOf(t)[i] \in ToSet(IdsOf(t))

\* What the index says of a trigram that some name has.
LEMMA GramFound ==
    ASSUME Indexed, NEW t \in Tris(Events)
    PROVE  GramFacts(t) /\ t \in Trigram
<1> DEFINE L == IdsOf(t)
           E == Events
           p == OfTri(ix.dict, t)
<1>1. IndexFacts(ix, E) /\ E \in Seq(Event) /\ EventsOf(E, names)
  BY DEF Indexed, IndexFacts
<1>2. ListFacts(E, t)
  BY <1>1, IdLists
<1>3. /\ View(ix.post, L, p.off, NB(Len(L))) /\ p.count = Len(L)
      /\ p.len = NB(Len(L)) * 2 + Ends(L)[Len(L)]
      /\ trigram_postings(ix.post, p) = L
  BY <1>1, ViewOf DEF IdsOf
<1>4. UpList(L) /\ Len(L) \in Nat /\ Len(L) >= 1
  BY <1>2 DEF ListFacts, IdsOf
<1>5. ListAt(ix.post, p, L)
  BY <1>3, <1>4 DEF ListAt
<1>6. L \in Seq(Nat) /\ ToSet(L) = RowsIn(L)
  <2>1. L \in Seq(Nat)
    BY <1>4 DEF UpList
  <2> QED BY <2>1, ElementsOf
<1>7. ASSUME NEW d \in Nat PROVE d \in ToSet(L) <=> <<t, d>> \in ToSet(E)
  <2>1. <<t, d>> \in ToSet(E) <=> \E i \in 1..Len(L) : L[i] = d
    BY <1>2 DEF ListFacts, IdsOf
  <2> QED BY <1>6, <2>1 DEF RowsIn
<1>8. t \in Trigram
  BY <1>1, RegionSized
<1>9. ASSUME NEW i \in 1..Len(L) PROVE L[i] \in Nat /\ L[i] < Len(names) /\ L[i] \in ToSet(L)
  <2>1. L[i] \in Nat /\ L[i] \in ToSet(L)
    BY <1>6 DEF RowsIn
  <2>2. <<t, L[i]>> \in ToSet(E)
    BY <1>7, <2>1
  <2>3. L[i] + 1 \in 1..Len(names)
    BY <1>1, <1>8, <2>1, <2>2 DEF EventsOf
  <2>4. Len(names) \in Nat
    BY DEF Indexed, SearchTyped
  <2> HIDE DEF L
  <2> QED BY <2>1, <2>3, <2>4
<1> HIDE DEF L, p
<1> QED BY <1>3, <1>4, <1>5, <1>7, <1>8, <1>9 DEF GramFacts, L, p

\* A row that matches is in the list of every trigram of the needle.
LEMMA MatchHas ==
    ASSUME Indexed, NEW r \in 1..Len(names), Matches(names[r][1]), NEW t \in Grams
    PROVE  t \in Tris(Events) /\ r - 1 \in ToSet(IdsOf(t))
<1> DEFINE s == names[r][1]
           q == query.needle
<1>1. names \in Seq(Text \X Int) /\ q \in Text /\ Len(names) \in Nat
  BY DEF Indexed, SearchTyped
<1>2. s \in Text
  <2>1. names[r] \in Text \X Int
    BY <1>1
  <2> QED BY <2>1
<1>3. Lower(s) \in Text /\ Lower(q) \in Text
  BY <1>1, <1>2, Lowered
<1>4. HasSubstring(Lower(s), Lower(q))
  <2>1. CASE query.ignore_case
    BY <2>1 DEF Matches
  <2>2. CASE ~ query.ignore_case
    <3>1. HasSubstring(s, q)
      BY <2>2 DEF Matches
    <3> QED BY <1>1, <1>2, <3>1, LowerSubstring
  <2> QED BY <2>1, <2>2
<1>5. t \in Trigram /\ HasSubstring(Lower(q), t)
  <2>1. Windows(Lower(q)) \in Seq(Trigram) /\ \A u \in Trigram : u \in ToSet(Windows(Lower(q))) <=> HasSubstring(Lower(q), u)
    BY <1>3, WindowsOf
  <2>2. t \in ToSet(Windows(Lower(q)))
    BY DEF Grams
  <2>3. t \in Trigram
    BY <2>1, <2>2, ElementsOf
  <2> QED BY <2>1, <2>2, <2>3
<1>6. HasSubstring(Lower(s), t)
  BY <1>3, <1>4, <1>5, SubstringWindows
<1> DEFINE d == r - 1
<1>7. d \in Nat /\ d + 1 = r
  BY <1>1
<1> HIDE DEF d
<1>8. <<t, d>> \in ToSet(Events)
  <2>1. EventsOf(Events, names)
    BY DEF Indexed
  <2>2. d + 1 \in 1..Len(names) /\ HasSubstring(Lower(names[d + 1][1]), t)
    BY <1>6, <1>7
  <2> QED BY <1>5, <1>7, <2>1, <2>2 DEF EventsOf
<1>9. t \in Tris(Events)
  <2>1. Events \in Seq(Event)
    BY DEF Indexed, EventsOf
  <2>2. ToSet(Events) = RowsIn(Events)
    BY <2>1, ElementsOf
  <2>3. PICK i \in 1..Len(Events) : Events[i] = <<t, d>>
    BY <1>8, <2>2 DEF RowsIn
  <2>4. Events[i][1] = t
    BY <2>3
  <2> QED BY <2>4 DEF Tris
<1>10. d \in ToSet(IdsOf(t))
  BY <1>7, <1>8, <1>9, GramFound DEF GramFacts
<1> QED BY <1>9, <1>10 DEF d

\* A later candidate has a later cut.
LEMMA CutMoves ==
    ASSUME NEW post, NEW p, NEW L, ListAt(post, p, L), NEW cand \in Nat, NEW next \in Nat, cand <= next,
           NEW c, BlockCut(post, p, NB(p.count), cand, c), NEW d, BlockCut(post, p, NB(p.count), next, d)
    PROVE  c <= d
<1> DEFINE n == NB(p.count)
<1>1. n = NB(Len(L)) /\ n \in Nat
  BY DEF ListAt, View, Region
<1>2. c \in Nat /\ c <= n /\ d \in Nat /\ d <= n
  BY DEF BlockCut
<1>3. \A b \in Nat : b < n => (MaxId(post, p, b) < cand <=> b < c) /\ (MaxId(post, p, b) < next <=> b < d)
  BY DEF BlockCut
<1> HIDE DEF n
<1> SUFFICES ASSUME d < c PROVE FALSE
  BY <1>2
<1>4. d < n
  BY <1>1, <1>2
<1>5. MaxId(post, p, d) < cand /\ ~ (MaxId(post, p, d) < next)
  BY <1>2, <1>3, <1>4
<1>6. MaxId(post, p, d) \in Nat
  <2>1. BlockFacts(post, p, L, d)
    BY <1>1, <1>2, <1>4, BlockEntry
  <2> QED BY <2>1 DEF BlockFacts
<1> QED BY <1>5, <1>6

After(L, a)  == IF a = 0 THEN 0 ELSE L[a] + 1
Before(L, a) == IF a < Len(L) THEN L[a + 1] ELSE Len(names)

\* No row between two ids of the list of a trigram of the needle matches.
LEMMA OutBetween ==
    ASSUME Indexed, NEW t \in Grams, t \in Tris(Events), NEW a \in 0..Len(IdsOf(t))
    PROVE  OutUpTo(Before(IdsOf(t), a)) = OutUpTo(After(IdsOf(t), a))
<1> DEFINE L == IdsOf(t)
           lo == After(L, a)
           hi == Before(L, a)
<1>1. GramFacts(t) /\ SearchTyped /\ Len(names) \in Nat
  BY GramFound DEF Indexed, SearchTyped
<1>2. UpList(L) /\ Len(L) \in Nat /\ \A i \in 1..Len(L) : L[i] \in Nat /\ L[i] < Len(names)
  BY <1>1 DEF GramFacts
<1>3. ToSet(L) = RowsIn(L)
  <2>1. L \in Seq(Nat)
    BY <1>2 DEF UpList
  <2> QED BY <2>1, ElementsOf
<1>4. \A r \in 1..Len(names) : Matches(names[r][1]) => r - 1 \in ToSet(L)
  BY MatchHas
<1> HIDE DEF L
<1>5. lo \in Nat /\ hi \in Nat /\ lo <= hi /\ hi <= Len(names)
  <2>1. CASE a = 0
    BY <1>1, <1>2, <2>1 DEF After, Before
  <2>2. CASE a # 0
    <3>1. a \in 1..Len(L) /\ L[a] \in Nat /\ L[a] < Len(names) /\ lo = L[a] + 1
      BY <1>2, <2>2 DEF After, L
    <3>2. CASE a < Len(L)
      <4>1. a + 1 \in 1..Len(L) /\ hi = L[a + 1] /\ L[a] < L[a + 1]
        BY <1>2, <3>1, <3>2 DEF Before, UpList
      <4> HIDE DEF lo, hi
      <4> QED BY <1>1, <1>2, <3>1, <4>1
    <3>3. CASE ~ (a < Len(L))
      <4>1. hi = Len(names)
        BY <3>3 DEF Before
      <4> HIDE DEF lo, hi
      <4> QED BY <1>1, <3>1, <4>1
    <3> QED BY <3>2, <3>3
  <2> QED BY <2>1, <2>2
<1>6. NoHits(lo, hi)
  <2> SUFFICES ASSUME NEW r \in (lo + 1)..hi, Matches(names[r][1]) PROVE FALSE
    BY DEF NoHits
  <2>1. r \in 1..Len(names) /\ lo < r /\ r <= hi
    <3> HIDE DEF lo, hi
    <3> QED BY <1>1, <1>5
  <2>2. PICK i \in 1..Len(L) : L[i] = r - 1
    BY <1>3, <1>4, <2>1 DEF RowsIn
  <2>3. ~ (i <= a)
    <3> SUFFICES ASSUME i <= a PROVE FALSE
      OBVIOUS
    <3>1. a \in 1..Len(L) /\ a # 0 /\ lo = L[a] + 1 /\ L[a] \in Nat /\ L[i] \in Nat
      BY <1>2 DEF After, L
    <3>2. L[i] <= L[a]
      <4>1. CASE i = a
        BY <3>1, <4>1
      <4>2. CASE i # a
        <5>1. i < a
          BY <1>2, <4>2
        <5>2. L[i] < L[a]
          BY <1>2, <3>1, <5>1 DEF UpList
        <5> QED BY <3>1, <5>2
      <4> QED BY <4>1, <4>2
    <3> HIDE DEF lo, hi
    <3> QED BY <1>5, <2>1, <2>2, <3>1, <3>2
  <2>4. a < i
    BY <1>2, <2>3 DEF L
  <2>5. a < Len(L) /\ a + 1 \in 1..Len(L) /\ hi = L[a + 1]
    BY <1>2, <2>4 DEF Before, L
  <2>6. L[a + 1] \in Nat /\ L[i] \in Nat
    BY <1>2, <2>5
  <2>7. L[a + 1] <= L[i]
    <3>1. CASE i = a + 1
      BY <2>6, <3>1
    <3>2. CASE i # a + 1
      <4>1. a + 1 < i
        BY <1>2, <2>4, <3>2 DEF L
      <4>2. L[a + 1] < L[i]
        BY <1>2, <2>5, <4>1 DEF UpList
      <4> QED BY <2>6, <4>2
    <3> QED BY <3>1, <3>2
  <2> HIDE DEF lo, hi
  <2> QED BY <1>5, <2>1, <2>2, <2>5, <2>6, <2>7
<1>7. lo \in 0..Len(names) /\ hi \in lo..Len(names)
  <2> HIDE DEF lo, hi
  <2> QED BY <1>1, <1>5
<1> HIDE DEF lo, hi
<1>8. OutUpTo(hi) = OutUpTo(lo)
  BY <1>1, <1>6, <1>7, OutSame
<1> QED BY <1>8 DEF lo, hi, L

\* A cursor is not past the cut of cand in its list.
CursorAt(t, k, cand) ==
    /\ cursor[k] \in Nat
    /\ \A c \in Nat : BlockCut(ix.post, OfTri(ix.dict, t), NB(OfTri(ix.dict, t).count), cand, c)
                         => cursor[k] <= c

\* Probing, with a candidates of the list of t tried; u are the other
\* trigrams of the needle.
Probing(t, u, a) ==
    /\ t \in Grams /\ t \in Tris(Events)
    /\ Len(u) \in Nat /\ \A k \in 1..Len(u) : u[k] \in Grams /\ u[k] \in Tris(Events)
    /\ others = [k \in 1..Len(u) |-> OfTri(ix.dict, u[k])]
    /\ cursor = [k \in 1..Len(u) |-> cursor[k]]
    /\ a \in Nat /\ a < Len(IdsOf(t)) /\ todo = Slice(IdsOf(t), a, Len(IdsOf(t)))
    /\ \A k \in 1..Len(u) : CursorAt(u[k], k, IdsOf(t)[a + 1])
    /\ out = OutUpTo(IdsOf(t)[a + 1]) /\ Len(out) < query.limit

\* The cursors make a probe possible.
LEMMA ProbeReady ==
    ASSUME Indexed, NEW t, NEW u, NEW a, Probing(t, u, a), NEW cand, cand = IdsOf(t)[a + 1],
           NEW Ls, Ls = [k \in 1..Len(u) |-> IdsOf(u[k])]
    PROVE  /\ cand \in Nat /\ Len(others) = Len(u)
           /\ \E cut : Ready(Ls, cut, cand)
<1> DEFINE m == Len(u)
           p(k) == OfTri(ix.dict, u[k])
           Cut(k, c) == BlockCut(ix.post, p(k), NB(p(k).count), cand, c)
           cut == [k \in 1..m |-> CHOOSE c \in Nat : Cut(k, c)]
<1>1. m \in Nat /\ a \in Nat /\ a < Len(IdsOf(t)) /\ t \in Tris(Events)
  BY DEF Probing
<1>2. GramFacts(t)
  BY <1>1, GramFound
<1>3. cand \in Nat
  <2>1. a + 1 \in 1..Len(IdsOf(t))
    BY <1>1, <1>2 DEF GramFacts
  <2> QED BY <1>2, <2>1 DEF GramFacts
<1>4. others = [k \in 1..m |-> p(k)]
  BY DEF Probing
<1>5. Len(others) = m
  <2> DEFINE o == [k \in 1..m |-> p(k)]
  <2>1. o \in Seq({p(k) : k \in 1..m})
    BY <1>1
  <2>2. DOMAIN o = 1..m
    OBVIOUS
  <2> HIDE DEF o
  <2>3. Len(o) = m
    BY <1>1, <2>1, <2>2
  <2> QED BY <1>4, <2>3 DEF o
<1>6. ASSUME NEW k \in 1..m
      PROVE  /\ ListAt(ix.post, p(k), IdsOf(u[k])) /\ cut[k] \in Nat /\ Cut(k, cut[k])
             /\ cursor[k] \in Nat /\ cursor[k] <= cut[k]
  <2>1. u[k] \in Tris(Events) /\ CursorAt(u[k], k, cand)
    BY DEF Probing
  <2>2. GramFacts(u[k])
    BY <2>1, GramFound
  <2>3. ListAt(ix.post, p(k), IdsOf(u[k]))
    BY <2>2 DEF GramFacts
  <2>4. \E c \in Nat : Cut(k, c)
    BY <1>3, <2>3, CutFound
  <2> HIDE DEF Cut
  <2>5. cut[k] \in Nat /\ Cut(k, cut[k])
    BY <2>4
  <2>6. cursor[k] \in Nat /\ cursor[k] <= cut[k]
    <3> HIDE DEF cut
    <3> QED BY <2>1, <2>5 DEF CursorAt, Cut
  <2> QED BY <2>3, <2>5, <2>6
<1>7. cursor = [k \in 1..m |-> cursor[k]]
  BY DEF Probing
<1> HIDE DEF m, p, cut
<1>8. ASSUME NEW k \in 1..m
      PROVE  /\ ListAt(ix.post, others[k], Ls[k])
             /\ BlockCut(ix.post, others[k], NB(others[k].count), cand, cut[k])
  <2>1. others[k] = p(k) /\ Ls[k] = IdsOf(u[k])
    BY <1>4 DEF m
  <2>2. ListAt(ix.post, p(k), IdsOf(u[k])) /\ BlockCut(ix.post, p(k), NB(p(k).count), cand, cut[k])
    BY <1>6
  <2> QED BY <2>1, <2>2
<1>9. others = [k \in 1..m |-> others[k]]
  BY <1>4
<1>10. Ready(Ls, cut, cand)
  BY <1>1, <1>5, <1>6, <1>7, <1>8, <1>9 DEF Ready, m
<1> QED BY <1>3, <1>5, <1>10 DEF m

\* A step that leaves the table, the index and the query alone.
LEMMA SameSearch ==
    ASSUME UNCHANGED <<names, ix, query>>
    PROVE  /\ names' = names /\ ix' = ix /\ query' = query
           /\ Events' = Events /\ Grams' = Grams /\ SerialScan' = SerialScan
           /\ \A t : IdsOf(t)' = IdsOf(t)
           /\ \A j : OutUpTo(j)' = OutUpTo(j)
<1>1. names' = names /\ ix' = ix /\ query' = query
  OBVIOUS
<1>2. Hits' = Hits /\ MatchingRows' = MatchingRows
  BY <1>1 DEF Hits, MatchingRows, Matches
<1>3. Events' = Events /\ Grams' = Grams /\ SerialScan' = SerialScan
  BY <1>1, <1>2 DEF Events, Grams, SerialScan
<1>4. \A t : IdsOf(t)' = IdsOf(t)
  BY <1>3 DEF IdsOf
<1>5. \A j : OutUpTo(j)' = OutUpTo(j)
  BY <1>1, <1>2 DEF OutUpTo
<1> QED BY <1>1, <1>3, <1>4, <1>5

\* The verification of a candidate makes out what the serial scan has after
\* its row, and the cursors stay at or before the cut.
LEMMA ProbeOne ==
    ASSUME Indexed, NEW t, NEW u, NEW a, Probing(t, u, a), Probe, NEW cand, cand = IdsOf(t)[a + 1]
    PROVE  /\ out' = OutUpTo(cand + 1) /\ cand \in Nat
           /\ cursor' = [k \in 1..Len(u) |-> cursor'[k]]
           /\ \A k \in 1..Len(u) : /\ cursor'[k] \in Nat
                                   /\ \E c \in Nat : /\ BlockCut(ix.post, OfTri(ix.dict, u[k]), NB(OfTri(ix.dict, u[k]).count), cand, c)
                                                     /\ cursor'[k] <= c
<1> DEFINE L == IdsOf(t)
           Ls == [k \in 1..Len(u) |-> IdsOf(u[k])]
           r == ProbeAll(cand)
           sym == names[cand + 1][2]
           m == Len(u)
<1>1. cand \in Nat /\ Len(others) = Len(u) /\ \E cut : Ready(Ls, cut, cand)
  <2>1. Ls = [k \in 1..Len(u) |-> IdsOf(u[k])]
    OBVIOUS
  <2> HIDE DEF Ls
  <2> QED BY <2>1, ProbeReady
<1>2. PICK cut : Ready(Ls, cut, cand)
  BY <1>1
<1>3. m \in Nat /\ a \in Nat /\ a < Len(L) /\ t \in Tris(Events) /\ todo = Slice(L, a, Len(L))
  BY DEF Probing
<1>4. GramFacts(t)
  BY <1>3, GramFound
<1>5. a + 1 \in 1..Len(L) /\ cand < Len(names) /\ Head(todo) = cand
  <2>1. a + 1 \in 1..Len(L) /\ Len(L) \in Nat /\ L \in Seq(Nat)
    BY <1>3, <1>4 DEF GramFacts, UpList
  <2>2. cand < Len(names)
    BY <1>4, <2>1 DEF GramFacts
  <2>3. a \in 0..Len(L) /\ Len(L) \in a..Len(L) /\ 1 \in 1..(Len(L) - a)
    BY <1>3, <2>1
  <2> HIDE DEF L
  <2>4. Slice(L, a, Len(L)) \in Seq(Nat) /\ Slice(L, a, Len(L))[1] = L[a + 1] /\ Len(Slice(L, a, Len(L))) = Len(L) - a
    BY <2>1, <2>3, SliceAt
  <2> QED BY <1>3, <2>1, <2>2, <2>4 DEF L
<1> HIDE DEF Ls
<1>6. r = <<1..Len(others) \subseteq Has(Ls, cand), CursorTo(Ls, cut, cand, Len(others))>>
  BY <1>1, <1>2, ProbeFound
<1> HIDE DEF r
<1>7. r[1] = (1..m \subseteq Has(Ls, cand)) /\ r[2] = CursorTo(Ls, cut, cand, m)
  <2>1. r = <<1..m \subseteq Has(Ls, cand), CursorTo(Ls, cut, cand, m)>>
    BY <1>1, <1>6, Zenon
  <2> QED BY <2>1
<1>8. /\ cursor' = r[2]
      /\ out' = IF r[1] /\ Matches(names[cand + 1][1]) /\ sym \notin ToSet(out) THEN Append(out, sym) ELSE out
  BY <1>5 DEF Probe, r
<1>9. Matches(names[cand + 1][1]) => r[1]
  <2> SUFFICES ASSUME Matches(names[cand + 1][1]), NEW k \in 1..m PROVE k \in Has(Ls, cand)
    BY <1>7
  <2>1. u[k] \in Grams
    BY DEF Probing
  <2>2. cand + 1 \in 1..Len(names) /\ (cand + 1) - 1 = cand
    <3>1. Len(names) \in Nat
      BY DEF Indexed, SearchTyped
    <3> QED BY <1>1, <1>5, <3>1
  <2>3. (cand + 1) - 1 \in ToSet(IdsOf(u[k]))
    BY <2>1, <2>2, MatchHas
  <2>4. Ls[k] = IdsOf(u[k])
    BY DEF Ls
  <2> QED BY <1>1, <2>2, <2>3, <2>4 DEF Has
<1>10. out' = OutUpTo(cand + 1)
  <2>1. out = OutUpTo(cand) /\ Len(out) < query.limit /\ SearchTyped
    BY DEF Probing, Indexed
  <2>2. CASE ~ Matches(names[cand + 1][1])
    <3>1. out' = out
      BY <1>8, <2>2, Zenon
    <3>2. OutUpTo(cand + 1) = OutUpTo(cand)
      BY <1>1, <1>5, <2>1, <2>2, OutNext
    <3> QED BY <2>1, <3>1, <3>2
  <2>3. CASE Matches(names[cand + 1][1]) /\ sym \in ToSet(out)
    <3>1. out' = out
      BY <1>8, <2>3, Zenon
    <3>2. OutUpTo(cand + 1) = OutUpTo(cand)
      BY <1>1, <1>5, <2>1, <2>3, OutNext
    <3> QED BY <2>1, <3>1, <3>2
  <2>4. CASE Matches(names[cand + 1][1]) /\ sym \notin ToSet(out)
    <3>1. out' = Append(out, sym)
      BY <1>8, <1>9, <2>4, Zenon
    <3>2. OutUpTo(cand + 1) = Append(OutUpTo(cand), sym)
      BY <1>1, <1>5, <2>1, <2>4, OutNext
    <3> QED BY <2>1, <3>1, <3>2
  <2> QED BY <2>2, <2>3, <2>4
<1>11. cursor' = [k \in 1..m |-> cursor'[k]]
  <2>1. cursor' = CursorTo(Ls, cut, cand, m)
    BY <1>7, <1>8, Zenon
  <2> QED BY <1>1, <2>1 DEF CursorTo
<1>12. ASSUME NEW k \in 1..m
       PROVE  /\ cursor'[k] \in Nat /\ cut[k] \in Nat /\ cursor'[k] <= cut[k]
              /\ BlockCut(ix.post, OfTri(ix.dict, u[k]), NB(OfTri(ix.dict, u[k]).count), cand, cut[k])
  <2>1. cursor' = CursorTo(Ls, cut, cand, m)
    BY <1>7, <1>8, Zenon
  <2>2. cursor'[k] = cut[k] \/ cursor'[k] = cursor[k]
    BY <1>1, <2>1 DEF CursorTo
  <2>3. /\ BlockCut(ix.post, others[k], NB(others[k].count), cand, cut[k])
        /\ cursor[k] \in Nat /\ cursor[k] <= cut[k] /\ cut[k] \in Nat
    BY <1>1, <1>2 DEF Ready
  <2>4. others[k] = OfTri(ix.dict, u[k])
    BY DEF Probing
  <2>5. cursor'[k] \in Nat /\ cursor'[k] <= cut[k]
    BY <2>2, <2>3
  <2> QED BY <2>3, <2>4, <2>5
<1> QED BY <1>1, <1>10, <1>11, <1>12

\* After a candidate the probing goes on with the next one, or ends with
\* what the serial scan returns.
LEMMA ProbeStep ==
    ASSUME Indexed, NEW t, NEW u, NEW a, Probing(t, u, a), Probe
    PROVE  \/ pc' = "probe" /\ Probing(t, u, a + 1)'
           \/ pc' = "done" /\ out' = SerialScan'
<1> DEFINE L == IdsOf(t)
           cand == L[a + 1]
           m == Len(u)
           p(k) == OfTri(ix.dict, u[k])
           Cut(k, x, c) == BlockCut(ix.post, p(k), NB(p(k).count), x, c)
<1>1. /\ t \in Grams /\ t \in Tris(Events) /\ m \in Nat
      /\ \A k \in 1..m : u[k] \in Grams /\ u[k] \in Tris(Events)
      /\ others = [k \in 1..m |-> p(k)]
      /\ a \in Nat /\ a < Len(L) /\ todo = Slice(L, a, Len(L))
  BY DEF Probing
<1>2. GramFacts(t)
  BY <1>1, GramFound
<1>3. Len(L) \in Nat /\ UpList(L) /\ L \in Seq(Nat) /\ \A i \in 1..Len(L) : L[i] \in Nat /\ L[i] < Len(names)
  BY <1>2 DEF GramFacts, UpList
<1>4. /\ out' = OutUpTo(cand + 1) /\ cand \in Nat
      /\ cursor' = [k \in 1..m |-> cursor'[k]]
      /\ \A k \in 1..m : cursor'[k] \in Nat /\ \E c \in Nat : Cut(k, cand, c) /\ cursor'[k] <= c
  BY ProbeOne
<1>5. /\ UNCHANGED <<names, ix, query>> /\ UNCHANGED others /\ todo' = Tail(todo)
      /\ pc' = IF Len(out') >= query.limit \/ todo' = <<>> THEN "done" ELSE "probe"
  BY DEF Probe
<1>6. /\ names' = names /\ ix' = ix /\ query' = query
      /\ Events' = Events /\ Grams' = Grams /\ SerialScan' = SerialScan
      /\ IdsOf(t)' = IdsOf(t)
      /\ \A j : OutUpTo(j)' = OutUpTo(j)
  BY <1>5, SameSearch
<1>7. SearchTyped /\ Len(names) \in Nat /\ query.limit \in Nat
  BY DEF Indexed, SearchTyped
<1>8. cand < Len(names) /\ a + 1 \in 1..Len(L)
  BY <1>1, <1>3
<1>9. OutRule
  BY <1>7, OutEnds
<1> HIDE DEF L, cand, p
<1>10. todo' = Slice(L, a + 1, Len(L)) /\ (todo' = <<>> <=> a + 1 = Len(L))
  <2> DEFINE s == Slice(L, a, Len(L))
             v == Slice(L, a + 1, Len(L))
  <2>1. a \in 0..Len(L) /\ Len(L) \in a..Len(L) /\ a + 1 \in 0..Len(L) /\ Len(L) \in (a + 1)..Len(L)
    BY <1>1, <1>3
  <2>2. s \in Seq(Nat) /\ Len(s) = Len(L) - a /\ \A i \in 1..(Len(L) - a) : s[i] = L[a + i]
    BY <1>3, <2>1, SliceAt
  <2>3. v \in Seq(Nat) /\ Len(v) = Len(L) - (a + 1) /\ \A i \in 1..(Len(L) - (a + 1)) : v[i] = L[(a + 1) + i]
    BY <1>3, <2>1, SliceAt
  <2> HIDE DEF s, v
  <2> DEFINE w == Tail(s)
  <2>4. s # <<>>
    BY <1>1, <1>3, <2>2
  <2>5. w \in Seq(Nat) /\ Len(w) = Len(s) - 1 /\ \A i \in 1..Len(w) : w[i] = s[i + 1]
    BY <2>2, <2>4
  <2> HIDE DEF w
  <2>6. Len(w) = Len(v)
    BY <1>1, <1>3, <2>2, <2>3, <2>5
  <2>7. ASSUME NEW i \in 1..Len(w) PROVE w[i] = v[i]
    <3>1. i + 1 \in 1..(Len(L) - a) /\ a + (i + 1) = (a + 1) + i /\ i \in 1..(Len(L) - (a + 1))
      BY <1>1, <1>3, <2>3, <2>6
    <3> QED BY <2>2, <2>3, <2>5, <3>1
  <2>8. w = v
    BY <2>3, <2>5, <2>6, <2>7, SameList
  <2>9. v = <<>> <=> Len(v) = 0
    BY <2>3
  <2>10. Len(v) = 0 <=> a + 1 = Len(L)
    BY <1>1, <1>3, <2>3
  <2>11. todo' = w
    BY <1>1, <1>5 DEF w, s
  <2> QED BY <2>8, <2>9, <2>10, <2>11 DEF v
<1>11. CASE Len(out') >= query.limit
  <2>1. pc' = "done"
    BY <1>5, <1>11
  <2>2. cand + 1 \in 0..Len(names) /\ Len(names) \in (cand + 1)..Len(names)
    BY <1>4, <1>7, <1>8
  <2>3. Len(OutUpTo(cand + 1)) >= query.limit
    BY <1>4, <1>11
  <2>4. OutUpTo(Len(names)) = OutUpTo(cand + 1)
    BY <1>7, <2>2, <2>3, OutSame
  <2>5. out' = SerialScan'
    BY <1>4, <1>6, <1>9, <2>4 DEF OutRule
  <2> QED BY <2>1, <2>5
<1>12. a + 1 # 0 /\ After(L, a + 1) = cand + 1
  BY <1>1 DEF After, cand
<1>13. OutUpTo(Before(L, a + 1)) = OutUpTo(cand + 1)
  <2>1. a + 1 \in 0..Len(IdsOf(t))
    BY <1>8, <1>3 DEF L
  <2>2. OutUpTo(Before(IdsOf(t), a + 1)) = OutUpTo(After(IdsOf(t), a + 1))
    BY <1>1, <2>1, OutBetween
  <2> QED BY <1>12, <2>2 DEF L
<1>14. CASE todo' = <<>>
  <2>1. pc' = "done"
    BY <1>5, <1>14
  <2>2. Before(L, a + 1) = Len(names)
    BY <1>1, <1>3, <1>10, <1>14 DEF Before
  <2>3. out' = SerialScan'
    BY <1>4, <1>6, <1>9, <1>13, <2>2 DEF OutRule
  <2> QED BY <2>1, <2>3
<1>15. CASE ~ (Len(out') >= query.limit) /\ todo' # <<>>
  <2>0. PICK next : next = L[(a + 1) + 1]
    OBVIOUS
  <2>1. pc' = "probe"
    BY <1>5, <1>15
  <2>2. a + 1 \in Nat /\ a + 1 < Len(L) /\ (a + 1) + 1 \in 1..Len(L)
    BY <1>1, <1>3, <1>10, <1>15
  <2>3. next \in Nat /\ cand <= next
    <3>1. next \in Nat
      BY <1>3, <2>0, <2>2
    <3>2. cand < next
      <4>1. a + 1 < (a + 1) + 1
        BY <2>2
      <4> QED BY <1>3, <1>8, <2>0, <2>2, <4>1 DEF UpList, cand
    <3> QED BY <1>4, <3>1, <3>2
  <2>4. out' = OutUpTo(next)
    <3>1. Before(L, a + 1) = next
      BY <2>0, <2>2 DEF Before
    <3> QED BY <1>4, <1>13, <3>1
  <2>5. Len(out') < query.limit
    <3>1. cand + 1 \in 0..Len(names)
      BY <1>4, <1>7, <1>8
    <3>2. Len(out') \in Nat
      BY <1>4, <1>9, <3>1 DEF OutRule
    <3> QED BY <1>7, <1>15, <3>2
  <2>6. ASSUME NEW k \in 1..m, NEW c \in Nat, Cut(k, next, c)
        PROVE  cursor'[k] <= c
    <3>1. PICK d \in Nat : Cut(k, cand, d) /\ cursor'[k] <= d
      BY <1>4
    <3>2. u[k] \in Tris(Events)
      BY <1>1
    <3>3. ListAt(ix.post, p(k), IdsOf(u[k]))
      BY <3>2, GramFound DEF GramFacts, p
    <3>4. d <= c
      BY <1>4, <2>3, <2>6, <3>1, <3>3, CutMoves
    <3>5. cursor'[k] \in Nat
      BY <1>4
    <3> QED BY <3>1, <3>4, <3>5
  <2>7. ASSUME NEW k \in 1..m
        PROVE  CursorAt(u[k], k, next)'
    <3>1. cursor'[k] \in Nat
      BY <1>4
    <3>2. \A c \in Nat : BlockCut(ix.post, OfTri(ix.dict, u[k]), NB(OfTri(ix.dict, u[k]).count), next, c) => cursor'[k] <= c
      BY <2>6 DEF p
    <3> QED BY <1>6, <3>1, <3>2 DEF CursorAt
  <2>8. L = IdsOf(t)' /\ L = IdsOf(t)
    BY <1>6 DEF L
  <2>9. Probing(t, u, a + 1)'
    <3>1. (t \in Grams /\ t \in Tris(Events))'
      BY <1>1, <1>6
    <3>2. (\A k \in 1..Len(u) : u[k] \in Grams /\ u[k] \in Tris(Events))'
      BY <1>1, <1>6
    <3>3. (others = [k \in 1..Len(u) |-> OfTri(ix.dict, u[k])])'
      BY <1>1, <1>5, <1>6 DEF p
    <3>4. (cursor = [k \in 1..Len(u) |-> cursor[k]])'
      BY <1>4
    <3>5. (a + 1 \in Nat /\ a + 1 < Len(IdsOf(t)) /\ todo = Slice(IdsOf(t), a + 1, Len(IdsOf(t))))'
      BY <1>10, <2>2, <2>8
    <3>6. (\A k \in 1..Len(u) : CursorAt(u[k], k, IdsOf(t)[(a + 1) + 1]))'
      BY <2>0, <2>7, <2>8
    <3>7. (out = OutUpTo(IdsOf(t)[(a + 1) + 1]) /\ Len(out) < query.limit)'
      <4>1. IdsOf(t)'[(a + 1) + 1] = next
        BY <2>0, <2>8
      <4>2. OutUpTo(next)' = OutUpTo(next)
        BY <1>6
      <4> QED BY <1>6, <2>4, <2>5, <2>8, <4>1, <4>2 DEF OutUpTo
    <3>8. Len(u) \in Nat
      BY <1>1
    <3> QED BY <3>1, <3>2, <3>3, <3>4, <3>5, <3>6, <3>7, <3>8 DEF Probing
  <2> QED BY <2>1, <2>9
<1> QED BY <1>11, <1>14, <1>15

\* RemoveAt moves the later elements up.
LEMMA RemovedAt ==
    ASSUME NEW V, NEW s \in Seq(V), NEW i \in 1..Len(s)
    PROVE  RemoveAt(s, i) = [k \in 1..(Len(s) - 1) |-> IF k < i THEN s[k] ELSE s[k + 1]]
<1> DEFINE n == Len(s)
           a == SubSeq(s, 1, i - 1)
           b == SubSeq(s, i + 1, n)
           w == [k \in 1..(n - 1) |-> IF k < i THEN s[k] ELSE s[k + 1]]
<1>1. n \in Nat /\ i \in Nat /\ i >= 1 /\ i <= n
  OBVIOUS
<1>2. a \in Seq(V) /\ Len(a) = i - 1 /\ \A k \in 1..(i - 1) : a[k] = s[k]
  BY <1>1
<1>3. b \in Seq(V) /\ Len(b) = n - i /\ \A k \in 1..(n - i) : b[k] = s[i + k]
  <2>1. i \in 0..Len(s) /\ n \in i..Len(s)
    BY <1>1
  <2> QED BY <2>1, SliceAt DEF Slice
<1>4. w \in Seq(V) /\ Len(w) = n - 1
  <2>1. n - 1 \in Nat
    BY <1>1
  <2>2. \A k \in 1..(n - 1) : (IF k < i THEN s[k] ELSE s[k + 1]) \in V
    BY <1>1
  <2> QED BY <2>1, <2>2
<1>5. RemoveAt(s, i) = a \o b
  BY DEF RemoveAt
<1>6. \A k \in 1..(n - 1) : w[k] = IF k < i THEN s[k] ELSE s[k + 1]
  OBVIOUS
<1> HIDE DEF a, b, w, n
<1>7. /\ a \o b \in Seq(V) /\ Len(a \o b) = Len(a) + Len(b)
      /\ \A k \in 1..Len(a) : (a \o b)[k] = a[k]
      /\ \A k \in (Len(a) + 1)..(Len(a) + Len(b)) : (a \o b)[k] = b[k - Len(a)]
  BY <1>2, <1>3, ConcatAt, ZenonT(40)
<1>8. Len(a \o b) = n - 1
  BY <1>1, <1>2, <1>3, <1>7
<1>9. ASSUME NEW k \in 1..(n - 1) PROVE (a \o b)[k] = w[k]
  <2>1. CASE k < i
    <3>1. k \in 1..(i - 1)
      BY <1>1, <2>1
    <3> QED BY <1>2, <1>6, <1>7, <2>1, <3>1
  <2>2. CASE ~ (k < i)
    <3>1. k \in (Len(a) + 1)..(Len(a) + Len(b)) /\ k - Len(a) \in 1..(n - i) /\ i + (k - Len(a)) = k + 1
      BY <1>1, <1>2, <1>3, <2>2
    <3>2. (a \o b)[k] = b[k - Len(a)] /\ b[k - Len(a)] = s[i + (k - Len(a))]
      BY <1>3, <1>7, <3>1
    <3> QED BY <1>6, <2>2, <3>1, <3>2
  <2> QED BY <2>1, <2>2
<1>10. a \o b = w
  BY <1>4, <1>7, <1>8, <1>9, SameList
<1> QED BY <1>5, <1>10 DEF w, n

\* The first shortest list.
Shortest(list, n, i) ==
    /\ \A j \in 1..n : list[i].count <= list[j].count
    /\ \A j \in 1..(i - 1) : list[i].count < list[j].count

\* There is one.
LEMMA ShortestExists ==
    ASSUME NEW n \in Nat, n >= 1, NEW list, \A i \in 1..n : list[i].count \in Nat
    PROVE  \E i \in 1..n : Shortest(list, n, i)
<1> DEFINE S == {list[i].count : i \in 1..n}
<1>1. S \in SUBSET Nat
  OBVIOUS
<1>2. S # {}
  <2>1. list[1].count \in S
    OBVIOUS
  <2> QED BY <2>1
<1>3. PICK m \in S : \A x \in S : m <= x
  <2> HIDE DEF S
  <2> QED BY <1>1, <1>2, LeastNat
<1> DEFINE Q == {i \in 1..n : list[i].count = m}
<1>4. Q \in SUBSET Nat
  OBVIOUS
<1>5. Q # {}
  BY <1>3
<1>6. PICK i \in Q : \A x \in Q : i <= x
  <2> HIDE DEF Q
  <2> QED BY <1>4, <1>5, LeastNat
<1>7. i \in 1..n /\ list[i].count = m /\ m \in Nat
  BY <1>1, <1>3
<1>8. \A j \in 1..n : m <= list[j].count
  BY <1>3
<1>9. ASSUME NEW j \in 1..(i - 1) PROVE m < list[j].count
  <2>1. j \in 1..n /\ ~ (i <= j)
    BY <1>7
  <2>2. list[j].count # m
    BY <1>6, <2>1
  <2>3. list[j].count \in Nat /\ m <= list[j].count
    BY <1>8, <2>1
  <2> HIDE DEF S, Q
  <2> QED BY <1>7, <2>2, <2>3
<1> HIDE DEF S, Q
<1> QED BY <1>7, <1>8, <1>9 DEF Shortest

\* The trigrams of the needle in order.
LEMMA GramsListed ==
    ASSUME Indexed, Len(query.needle) >= 3, NEW T, T = InOrder(Grams, StrLess)
    PROVE  /\ T \in Seq(Grams) /\ Len(T) \in Nat /\ Len(T) >= 1 /\ RowsIn(T) = Grams
           /\ \A i \in 1..Len(T) : T[i] \in Text
<1> DEFINE q == Lower(query.needle)
           w == Windows(q)
           S == Grams
<1>1. query.needle \in Text
  BY DEF Indexed, SearchTyped
<1>2. q \in Text /\ Len(q) >= 3
  BY <1>1, Lowered
<1>3. w \in Seq(Trigram) /\ ToSet(w) # {}
  BY <1>2, WindowsOf
<1>4. S = ToSet(w) /\ S = RowsIn(w)
  BY <1>3, ElementsOf DEF Grams
<1> HIDE DEF w, q
<1>5. S \in SUBSET Text
  BY <1>3, <1>4, ElementsOf DEF Trigram
<1>6. IsFiniteSet(S)
  <2> DEFINE f == [i \in 1..Len(w) |-> w[i]]
  <2>1. f \in Surjection(1..Len(w), S)
    BY <1>4 DEF Surjection, RowsIn
  <2>2. IsFiniteSet(1..Len(w))
    <3>1. Len(w) \in Nat
      BY <1>3
    <3> QED BY <3>1, FS_Interval
  <2> HIDE DEF f, S
  <2> QED BY <2>1, <2>2, FS_Surjection
<1>7. S # {}
  BY <1>3, <1>4
<1>8. Listed(T, S, StrOrder)
  BY <1>5, <1>6, StringsListed
<1>9. T \in Seq(S) /\ Len(T) \in Nat /\ RowsIn(T) = S
  BY <1>8 DEF Listed
<1> HIDE DEF S
<1>10. Len(T) >= 1
  <2> SUFFICES ASSUME Len(T) = 0 PROVE FALSE
    BY <1>9
  <2>1. RowsIn(T) = {}
    BY DEF RowsIn
  <2> QED BY <1>7, <1>9, <2>1
<1>11. ASSUME NEW i \in 1..Len(T) PROVE T[i] \in Text
  <2>1. T[i] \in S
    BY <1>9
  <2> QED BY <1>5, <2>1
<1> QED BY <1>9, <1>10, <1>11 DEF S

\* The trigram search starts to probe, or has found that no row matches.
LEMMA TrigramStarts ==
    ASSUME Indexed, StartTrigram, out = <<>>
    PROVE  \/ pc' = "done" /\ out' = SerialScan'
           \/ pc' = "probe" /\ \E t, u : Probing(t, u, 0)'
<1> DEFINE tris  == InOrder(Grams, StrLess)
           posts == [i \in DOMAIN tris |-> trigram_lookup(ix.dict, tris[i])]
           list  == [i \in DOMAIN tris |-> CHOOSE p \in posts[i] : TRUE]
           drv   == CHOOSE i \in DOMAIN tris :
                        /\ \A j \in DOMAIN tris : list[i].count <= list[j].count
                        /\ \A j \in 1..(i - 1) : list[i].count < list[j].count
           none  == \E i \in DOMAIN tris : posts[i] = {}
           n     == Len(tris)
<1>1. /\ query.limit # 0 /\ Len(query.needle) >= 3
      /\ IF none THEN pc' = "done" /\ UNCHANGED <<todo, others, cursor>>
         ELSE /\ pc' = "probe"
              /\ todo' = trigram_postings(ix.post, list[drv])
              /\ others' = RemoveAt(list, drv)
              /\ cursor' = [i \in 1..(Len(list) - 1) |-> 0]
      /\ UNCHANGED <<names, ix, query>> /\ out' = out
  BY Zenon DEF StartTrigram
<1>2. /\ names' = names /\ ix' = ix /\ query' = query
      /\ Events' = Events /\ Grams' = Grams /\ SerialScan' = SerialScan
      /\ \A t : IdsOf(t)' = IdsOf(t)
      /\ \A j : OutUpTo(j)' = OutUpTo(j)
  BY <1>1, SameSearch
<1>3. SearchTyped /\ Len(names) \in Nat /\ query.limit \in Nat /\ OutRule
  BY OutEnds DEF Indexed, SearchTyped
<1>4. Events \in Seq(Event) /\ DictFacts(ix.dict, Events) /\ OfRule(ix.dict, Events)
  BY DEF Indexed, IndexFacts
<1>5. /\ tris \in Seq(Grams) /\ n \in Nat /\ n >= 1 /\ \A i \in 1..n : tris[i] \in Text /\ tris[i] \in Grams
      /\ DOMAIN tris = 1..n
  <2>1. tris \in Seq(Grams) /\ n \in Nat /\ n >= 1 /\ \A i \in 1..n : tris[i] \in Text
    BY <1>1, GramsListed
  <2> HIDE DEF tris
  <2> QED BY <2>1
<1> HIDE DEF tris
<1>6. \A i \in 1..n : posts[i] = trigram_lookup(ix.dict, tris[i])
  BY <1>5
<1> HIDE DEF n
<1>7. ASSUME NEW i \in 1..n
      PROVE  /\ tris[i] \in Tris(Events) => posts[i] = {OfTri(ix.dict, tris[i])}
             /\ tris[i] \notin Tris(Events) => posts[i] = {}
  <2>1. tris[i] \in Text
    BY <1>5
  <2> HIDE DEF posts
  <2> QED BY <1>4, <1>6, <2>1, LookupFound
<1> HIDE DEF posts
<1>8. CASE none
  <2>1. PICK i \in 1..n : posts[i] = {}
    BY <1>5, <1>8
  <2>2. tris[i] \notin Tris(Events) /\ tris[i] \in Grams
    BY <1>5, <1>7, <2>1
  <2>3. NoHits(0, Len(names))
    <3> SUFFICES ASSUME NEW r \in (0 + 1)..Len(names), Matches(names[r][1]) PROVE FALSE
      BY DEF NoHits
    <3>1. r \in 1..Len(names)
      BY <1>3
    <3> QED BY <2>2, <3>1, MatchHas
  <2>4. OutUpTo(Len(names)) = OutUpTo(0)
    <3>1. 0 \in 0..Len(names) /\ Len(names) \in 0..Len(names)
      BY <1>3
    <3> QED BY <1>3, <2>3, <3>1, OutSame
  <2>5. out' = SerialScan'
    BY <1>1, <1>2, <1>3, <2>4 DEF OutRule
  <2>6. pc' = "done"
    BY <1>1, <1>8
  <2> QED BY <2>5, <2>6
<1>9. CASE ~ none
  <2>1. ASSUME NEW i \in 1..n
        PROVE  /\ tris[i] \in Tris(Events) /\ list[i] = OfTri(ix.dict, tris[i])
               /\ list[i] \in Desc /\ list[i].count \in Nat
    <3>1. posts[i] # {}
      BY <1>5, <1>9
    <3>2. tris[i] \in Tris(Events) /\ posts[i] = {OfTri(ix.dict, tris[i])}
      BY <1>7, <3>1
    <3>3. list[i] = CHOOSE p \in posts[i] : TRUE
      BY <1>5
    <3>4. list[i] = OfTri(ix.dict, tris[i])
      BY <3>2, <3>3
    <3>5. OfTri(ix.dict, tris[i]) \in Desc
      BY <1>4, <3>2 DEF OfRule
    <3> QED BY <3>2, <3>4, <3>5 DEF Desc
  <2>2. list = [i \in 1..n |-> list[i]]
    BY <1>5
  <2> HIDE DEF list
  <2>3. list \in Seq(Desc) /\ Len(list) = n
    <3>1. list \in [1..n -> Desc]
      BY <2>1, <2>2
    <3> QED BY <1>5, <3>1
  <2>4. drv \in 1..n
    <3>1. \E i \in 1..n : Shortest(list, n, i)
      BY <1>5, <2>1, ShortestExists
    <3>2. drv = CHOOSE i \in 1..n : Shortest(list, n, i)
      BY <1>5, Zenon DEF Shortest
    <3> HIDE DEF drv
    <3> QED BY <3>1, <3>2
  <2> HIDE DEF drv
  <2>5. PICK d \in 1..n : d = drv
    BY <2>4
  <2>6. PICK t : t = tris[d]
    OBVIOUS
  <2>7. PICK u : u = [k \in 1..(n - 1) |-> IF k < d THEN tris[k] ELSE tris[k + 1]]
    OBVIOUS
  <2>8. PICK m \in Nat : m = n - 1
    BY <1>5
  <2>9. t \in Grams /\ t \in Tris(Events) /\ list[drv] = OfTri(ix.dict, t)
    BY <1>5, <2>1, <2>5, <2>6
  <2>10. ASSUME NEW k \in 1..m PROVE k \in 1..n /\ k + 1 \in 1..n
    BY <1>5, <2>8
  <2>11. Len(u) = m /\ \A k \in 1..m : u[k] \in Grams /\ u[k] \in Tris(Events)
    <3>1. ASSUME NEW k \in 1..m
          PROVE  u[k] = (IF k < d THEN tris[k] ELSE tris[k + 1])
      BY <2>7, <2>8
    <3>2. ASSUME NEW k \in 1..m
          PROVE  u[k] \in Grams /\ u[k] \in Tris(Events)
      BY <1>5, <2>1, <2>10, <3>1
    <3>3. u \in [1..m -> Grams]
      BY <2>7, <2>8, <3>2
    <3>4. Len(u) = m
      BY <2>8, <3>3
    <3> QED BY <3>2, <3>4
  <2>12. others' = [k \in 1..m |-> OfTri(ix.dict, u[k])]
    <3>1. others' = RemoveAt(list, drv)
      BY <1>1, <1>9
    <3>2. drv \in 1..Len(list) /\ Len(list) - 1 = m
      BY <2>3, <2>4, <2>8
    <3>3. RemoveAt(list, drv) = [k \in 1..m |-> IF k < drv THEN list[k] ELSE list[k + 1]]
      BY <2>3, <3>2, RemovedAt
    <3>4. ASSUME NEW k \in 1..m
          PROVE  (IF k < drv THEN list[k] ELSE list[k + 1]) = OfTri(ix.dict, u[k])
      <4>1. u[k] = IF k < drv THEN tris[k] ELSE tris[k + 1]
        BY <2>5, <2>7, <2>8
      <4>2. list[k] = OfTri(ix.dict, tris[k]) /\ list[k + 1] = OfTri(ix.dict, tris[k + 1])
        BY <2>1, <2>10
      <4> QED BY <4>1, <4>2
    <3> QED BY <3>1, <3>3, <3>4
  <2>13. cursor' = [i \in 1..m |-> 0]
    <3>1. cursor' = [i \in 1..(Len(list) - 1) |-> 0]
      BY <1>1, <1>9
    <3>2. Len(list) - 1 = m
      BY <2>3, <2>8
    <3> QED BY <3>1, <3>2
  <2>14. GramFacts(t)
    BY <2>9, GramFound
  <2>15. PICK L : L = IdsOf(t)
    OBVIOUS
  <2>16. Len(L) \in Nat /\ Len(L) >= 1 /\ L \in Seq(Nat) /\ todo' = L /\ 0 < Len(L) /\ 0 + 1 = 1
    <3>1. todo' = trigram_postings(ix.post, OfTri(ix.dict, t))
      BY <1>1, <1>9, <2>9
    <3>2. Len(L) \in Nat /\ Len(L) >= 1 /\ L \in Seq(Nat)
      BY <2>14, <2>15 DEF GramFacts, UpList
    <3>3. trigram_postings(ix.post, OfTri(ix.dict, t)) = L
      BY <2>14, <2>15 DEF GramFacts
    <3> QED BY <3>1, <3>2, <3>3
  <2>17. Slice(L, 0, Len(L)) = L
    BY <2>16, SliceParts DEF SliceRule
  <2>18. OutUpTo(L[1]) = <<>>
    <3>1. 0 \in 0..Len(IdsOf(t))
      BY <2>15, <2>16
    <3>2. OutUpTo(Before(IdsOf(t), 0)) = OutUpTo(After(IdsOf(t), 0))
      BY <2>9, <3>1, OutBetween
    <3>3. Before(IdsOf(t), 0) = L[1] /\ After(IdsOf(t), 0) = 0
      BY <2>15, <2>16 DEF Before, After
    <3> QED BY <1>3, <3>2, <3>3 DEF OutRule
  <2>19. IdsOf(t)' = L
    BY <1>2, <2>15
  <2>20. ASSUME NEW k \in 1..m PROVE CursorAt(u[k], k, L[0 + 1])'
    <3>1. cursor'[k] = 0
      BY <2>13
    <3> QED BY <3>1 DEF CursorAt
  <2>21. Probing(t, u, 0)'
    <3>1. (t \in Grams /\ t \in Tris(Events))'
      BY <1>2, <2>9
    <3>2. (Len(u) \in Nat /\ \A k \in 1..Len(u) : u[k] \in Grams /\ u[k] \in Tris(Events))'
      BY <1>2, <2>11
    <3>3. (others = [k \in 1..Len(u) |-> OfTri(ix.dict, u[k])])'
      BY <1>2, <2>11, <2>12
    <3>4. (cursor = [k \in 1..Len(u) |-> cursor[k]])'
      BY <2>11, <2>13
    <3>5. (0 \in Nat /\ 0 < Len(IdsOf(t)) /\ todo = Slice(IdsOf(t), 0, Len(IdsOf(t))))'
      BY <2>16, <2>17, <2>19
    <3>6. (\A k \in 1..Len(u) : CursorAt(u[k], k, IdsOf(t)[0 + 1]))'
      BY <2>11, <2>19, <2>20
    <3>7. (out = OutUpTo(IdsOf(t)[0 + 1]) /\ Len(out) < query.limit)'
      <4>1. PICK x : x = L[1]
        OBVIOUS
      <4>2. OutUpTo(x)' = <<>>
        BY <1>2, <2>18, <4>1
      <4>3. out' = <<>> /\ Len(out') < query.limit
        BY <1>1, <1>3
      <4>4. IdsOf(t)'[0 + 1] = x
        BY <2>16, <2>19, <4>1
      <4> QED BY <1>2, <4>2, <4>3, <4>4
    <3> QED BY <3>1, <3>2, <3>3, <3>4, <3>5, <3>6, <3>7 DEF Probing
  <2>22. pc' = "probe"
    BY <1>1, <1>9
  <2> QED BY <2>21, <2>22
<1> QED BY <1>8, <1>9
=============================================================================
