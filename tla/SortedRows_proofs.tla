-------------------------- MODULE SortedRows_proofs --------------------------
(***************************************************************************)
(* What sorting and merging tables of rows gives.  Rows of one width are   *)
(* totally ordered by LexLess, so a table is determined by the set of its  *)
(* rows: Sorted lists each row once, and any ascending list of the rows is *)
(* that one.                                                               *)
(***************************************************************************)
EXTENDS SortedRows, Induction

-----------------------------------------------------------------------------
(* The order of rows.                                                      *)

\* A row is not below itself.
LEMMA LexIrreflexive ==
    ASSUME NEW k \in Nat, NEW a \in Tuple(k)
    PROVE  ~ LexLess(a, a)
BY DEF LexLess, Tuple

\* The order is transitive.
LEMMA LexTransitive ==
    ASSUME NEW k \in Nat, NEW a \in Tuple(k), NEW b \in Tuple(k), NEW c \in Tuple(k),
           LexLess(a, b), LexLess(b, c)
    PROVE  LexLess(a, c)
<1>1. PICK i \in 1..k : a[i] < b[i] /\ \A j \in 1..(i - 1) : a[j] = b[j]
  BY DEF LexLess, Tuple
<1>2. PICK h \in 1..k : b[h] < c[h] /\ \A j \in 1..(h - 1) : b[j] = c[j]
  BY DEF LexLess, Tuple
<1>3. \A j \in 1..k : a[j] \in Int /\ b[j] \in Int /\ c[j] \in Int
  BY DEF Tuple
<1>4. CASE i <= h
  <2>1. a[i] < c[i]
    <3>1. CASE i = h
      BY <1>1, <1>2, <1>3, <3>1
    <3>2. CASE i < h
      <4>1. b[i] = c[i]
        BY <1>2, <3>2
      <4> QED BY <1>1, <4>1
    <3> QED BY <1>4, <3>1, <3>2
  <2>2. \A j \in 1..(i - 1) : a[j] = c[j]
    BY <1>1, <1>2, <1>4
  <2> QED BY <2>1, <2>2 DEF LexLess, Tuple
<1>5. CASE h < i
  <2>1. a[h] < c[h]
    <3>1. a[h] = b[h]
      BY <1>1, <1>5
    <3> QED BY <1>2, <3>1
  <2>2. \A j \in 1..(h - 1) : a[j] = c[j]
    BY <1>1, <1>2, <1>5
  <2> QED BY <2>1, <2>2 DEF LexLess, Tuple
<1> QED BY <1>4, <1>5

\* Two different rows are ordered one way or the other.
LEMMA LexTotal ==
    ASSUME NEW k \in Nat, NEW a \in Tuple(k), NEW b \in Tuple(k), a # b
    PROVE  LexLess(a, b) \/ LexLess(b, a)
<1> DEFINE B == {i \in 1..k : a[i] # b[i]}
<1>1. B \in SUBSET Nat /\ B # {}
  <2>1. a = [i \in 1..k |-> a[i]] /\ b = [i \in 1..k |-> b[i]]
    BY DEF Tuple
  <2>2. \E i \in 1..k : a[i] # b[i]
    BY <2>1
  <2> QED BY <2>2
<1>2. PICK i \in B : \A j \in B : i <= j
  <2> HIDE DEF B
  <2> QED BY <1>1, LeastNat
<1>3. i \in 1..k /\ a[i] # b[i]
  BY <1>2
<1>4. \A j \in 1..(i - 1) : a[j] = b[j] /\ b[j] = a[j]
  BY <1>2, <1>3
<1>5. a[i] \in Int /\ b[i] \in Int /\ DOMAIN a = 1..k /\ DOMAIN b = 1..k
  BY <1>3 DEF Tuple
<1>6. a[i] < b[i] \/ b[i] < a[i]
  BY <1>3, <1>5
<1> HIDE DEF B
<1> QED BY <1>3, <1>4, <1>5, <1>6 DEF LexLess

-----------------------------------------------------------------------------
(* Ascending lists.                                                        *)

\* s lists rows of k columns, each one above those before it.
Ascending(s, k) ==
    /\ s \in Seq(Tuple(k))
    /\ \A i, j \in 1..Len(s) : i < j => LexLess(s[i], s[j])

\* The rows of a list.
RowsIn(s) == {s[i] : i \in 1..Len(s)}

\* Two ascending lists of the same rows are equal: one of them cannot have
\* gone past a row the other still lists.
LEMMA AscendingUnique ==
    ASSUME NEW k \in Nat, NEW s, NEW t, Ascending(s, k), Ascending(t, k), RowsIn(s) = RowsIn(t)
    PROVE  s = t
<1>0. /\ s \in Seq(Tuple(k)) /\ t \in Seq(Tuple(k)) /\ Len(s) \in Nat /\ Len(t) \in Nat
      /\ \A i \in 1..Len(s) : s[i] \in Tuple(k)
      /\ \A i \in 1..Len(t) : t[i] \in Tuple(k)
  BY DEF Ascending
<1>1. /\ \A i, j \in 1..Len(s) : i < j => LexLess(s[i], s[j])
      /\ \A i, j \in 1..Len(t) : i < j => LexLess(t[i], t[j])
  BY DEF Ascending
<1>2. /\ \A i \in 1..Len(s) : \E j \in 1..Len(t) : t[j] = s[i]
      /\ \A j \in 1..Len(t) : \E i \in 1..Len(s) : s[i] = t[j]
  BY DEF RowsIn
<1>3. \A a, b \in Tuple(k) : ~ (LexLess(a, b) /\ LexLess(b, a)) /\ ~ LexLess(a, a)
  BY LexIrreflexive, LexTransitive
<1> DEFINE S == {n \in Nat : n <= Len(s) => n <= Len(t) /\ \A i \in 1..n : s[i] = t[i]}
<1>4. 0 \in S
  BY <1>0
<1>5. ASSUME NEW n \in Nat, n \in S PROVE n + 1 \in S
  <2> SUFFICES ASSUME n + 1 <= Len(s)
               PROVE  n + 1 <= Len(t) /\ \A i \in 1..(n + 1) : s[i] = t[i]
    OBVIOUS
  <2>1. n <= Len(t) /\ \A i \in 1..n : s[i] = t[i]
    BY <1>0, <1>5
  <2>2. n + 1 \in 1..Len(s)
    BY <1>0
  <2>3. PICK j \in 1..Len(t) : t[j] = s[n + 1]
    BY <1>2, <2>2
  <2>4. ~ (j <= n)
    <3> SUFFICES ASSUME j <= n PROVE FALSE
      OBVIOUS
    <3>1. s[j] = s[n + 1] /\ j \in 1..Len(s) /\ j < n + 1
      BY <1>0, <2>1, <2>2, <2>3
    <3>2. LexLess(s[j], s[n + 1])
      BY <1>1, <2>2, <3>1
    <3> QED BY <1>0, <1>3, <2>2, <3>1, <3>2
  <2>5. n + 1 \in 1..Len(t)
    BY <1>0, <2>3, <2>4
  <2>6. PICK i \in 1..Len(s) : s[i] = t[n + 1]
    BY <1>2, <2>5
  <2>7. ~ (i <= n)
    <3> SUFFICES ASSUME i <= n PROVE FALSE
      OBVIOUS
    <3>1. t[i] = t[n + 1] /\ i \in 1..Len(t) /\ i < n + 1
      BY <1>0, <2>1, <2>5, <2>6
    <3>2. LexLess(t[i], t[n + 1])
      BY <1>1, <2>5, <3>1
    <3> QED BY <1>0, <1>3, <2>5, <3>1, <3>2
  <2>8. CASE j = n + 1
    BY <2>1, <2>3, <2>5, <2>8
  <2>9. CASE i = n + 1
    BY <2>1, <2>5, <2>6, <2>9
  <2>10. CASE n + 1 < j /\ n + 1 < i
    <3>1. LexLess(t[n + 1], s[n + 1]) /\ LexLess(s[n + 1], t[n + 1])
      BY <1>1, <2>2, <2>3, <2>5, <2>6, <2>10
    <3> QED BY <1>0, <1>3, <2>2, <2>5, <3>1
  <2> QED BY <2>4, <2>7, <2>8, <2>9, <2>10
<1>6. \A n \in Nat : n \in S
  <2>1. \A n \in Nat : n \in S => n + 1 \in S
    BY <1>5
  <2> HIDE DEF S
  <2> QED BY <1>4, <2>1, NatSetInduction
<1>7. Len(s) <= Len(t) /\ \A i \in 1..Len(s) : s[i] = t[i]
  BY <1>0, <1>6
<1>8. Len(s) = Len(t)
  <2> SUFFICES ASSUME Len(s) < Len(t) PROVE FALSE
    BY <1>0, <1>7
  <2>1. Len(t) \in 1..Len(t)
    BY <1>0
  <2>2. PICK i \in 1..Len(s) : s[i] = t[Len(t)]
    BY <1>2, <2>1
  <2>3. t[i] = t[Len(t)] /\ i \in 1..Len(t) /\ i < Len(t)
    BY <1>0, <1>7, <2>2
  <2> QED BY <1>0, <1>1, <1>3, <2>1, <2>3
<1> QED BY <1>0, <1>7, <1>8

OrderOn(S, L) ==
    /\ \A x \in S : <<x, x>> \notin L
    /\ \A x, y, z \in S : <<x, y>> \in L /\ <<y, z>> \in L => <<x, z>> \in L
    /\ \A x, y \in S : x # y => <<x, y>> \in L \/ <<y, x>> \in L

Rank(S, L, x) == Cardinality({y \in S : <<y, x>> \in L})

\* What InOrder writes at place i, for an order given as a set of pairs.
Ranked(s, S, L) ==
    /\ s = [i \in 1..Cardinality(S) |-> s[i]]
    /\ \A i \in 1..Cardinality(S) :
          (\E x \in S : Rank(S, L, x) = i - 1) => s[i] \in S /\ Rank(S, L, s[i]) = i - 1

Listed(s, S, L) ==
    /\ s \in Seq(S) /\ Len(s) = Cardinality(S) /\ Len(s) \in Nat
    /\ \A i, j \in 1..Len(s) : i < j => <<s[i], s[j]>> \in L
    /\ RowsIn(s) = S

\* The list of the elements by rank is ascending and complete.
LEMMA RankedList ==
    ASSUME NEW S, IsFiniteSet(S), NEW L, OrderOn(S, L), NEW s, Ranked(s, S, L)
    PROVE  Listed(s, S, L)
<1> DEFINE n == Cardinality(S)
           Below(x) == {y \in S : <<y, x>> \in L}
           r == [x \in S |-> Cardinality(Below(x)) + 1]
<1>0. n \in Nat
  BY FS_CardinalityType
<1>1. \A x \in S : /\ IsFiniteSet(Below(x)) /\ Cardinality(Below(x)) \in Nat
                   /\ Cardinality(Below(x)) < n
  <2> SUFFICES ASSUME NEW x \in S
               PROVE  /\ IsFiniteSet(Below(x)) /\ Cardinality(Below(x)) \in Nat
                      /\ Cardinality(Below(x)) < n
    OBVIOUS
  <2>1. Below(x) \in SUBSET S /\ x \notin Below(x)
    BY DEF OrderOn
  <2>2. Below(x) # S
    BY <2>1
  <2>3. IsFiniteSet(Below(x)) /\ Cardinality(Below(x)) <= n /\ Cardinality(Below(x)) # n
    <3> HIDE DEF Below
    <3> QED BY <2>1, <2>2, FS_Subset
  <2>4. Cardinality(Below(x)) \in Nat
    BY <2>3, FS_CardinalityType
  <2> QED BY <1>0, <2>3, <2>4
<1>2. ASSUME NEW x \in S, NEW y \in S, <<x, y>> \in L
      PROVE  Cardinality(Below(x)) < Cardinality(Below(y))
  <2>1. \A z \in Below(x) : z \in Below(y)
    BY <1>2 DEF OrderOn
  <2>2. x \in Below(y) /\ x \notin Below(x)
    BY <1>2 DEF OrderOn
  <2>3. Below(x) \in SUBSET Below(y) /\ Below(x) # Below(y)
    BY <2>1, <2>2
  <2>4. Cardinality(Below(x)) <= Cardinality(Below(y)) /\ Cardinality(Below(x)) # Cardinality(Below(y))
    <3> HIDE DEF Below
    <3> QED BY <1>1, <2>3, FS_Subset
  <2> HIDE DEF Below
  <2> QED BY <1>1, <2>4
<1>3. r \in [S -> 1..n] /\ \A x \in S : r[x] = Cardinality(Below(x)) + 1
  <2>1. \A x \in S : Cardinality(Below(x)) + 1 \in 1..n
    <3> HIDE DEF Below, n
    <3> QED BY <1>0, <1>1
  <2> HIDE DEF Below, n
  <2> QED BY <2>1
<1>4. \A x, y \in S : <<x, y>> \in L => r[x] < r[y]
  <2> HIDE DEF Below, r
  <2> QED BY <1>1, <1>2, <1>3
<1>5. \A x, y \in S : x # y => <<x, y>> \in L \/ <<y, x>> \in L
  BY DEF OrderOn
<1>6. \A x, y \in S : r[x] = r[y] => x = y
  <2> HIDE DEF r, n, Below
  <2>1. \A x, y \in S : r[x] \in Int /\ ~ (r[x] < r[x])
    BY <1>0, <1>3
  <2> QED BY <1>4, <1>5, <2>1
<1>7. \A i \in 1..n : \E x \in S : r[x] = i
  <2>1. Cardinality(1..n) = n /\ IsFiniteSet(1..n)
    <3>1. 1 \in Int /\ n \in Int
      BY <1>0
    <3>2. Cardinality(1..n) = (IF 1 > n THEN 0 ELSE n - 1 + 1) /\ IsFiniteSet(1..n)
      <4> HIDE DEF n
      <4> QED BY <3>1, FS_Interval
    <3> QED BY <1>0, <3>2
  <2>2. r \in Injection(S, 1..n)
    <3> HIDE DEF r
    <3> QED BY <1>3, <1>6 DEF Injection, IsInjective
  <2>3. r \in Surjection(S, 1..n)
    <3>1. n = Cardinality(S)
      OBVIOUS
    <3> HIDE DEF r, n
    <3> QED BY <2>1, <2>2, <3>1, FS_Injection
  <2> HIDE DEF r, n
  <2> QED BY <2>3 DEF Surjection
<1>8. \A x \in S : Rank(S, L, x) = Cardinality(Below(x))
  BY DEF Rank
<1>9. \A i \in 1..n : s[i] \in S /\ r[s[i]] = i
  <2> SUFFICES ASSUME NEW i \in 1..n
               PROVE  s[i] \in S /\ r[s[i]] = i
    OBVIOUS
  <2>1. \A x \in S : Rank(S, L, x) = i - 1 <=> r[x] = i
    <3> HIDE DEF Below, r, n
    <3> QED BY <1>0, <1>1, <1>3, <1>8
  <2>2. \E x \in S : Rank(S, L, x) = i - 1
    BY <1>7, <2>1
  <2> HIDE DEF r, Below
  <2> QED BY <2>1, <2>2 DEF Ranked
<1>10. s \in [1..n -> S]
  <2> HIDE DEF r
  <2> QED BY <1>9 DEF Ranked
<1>11. n = Cardinality(S)
  OBVIOUS
<1> HIDE DEF r, n, Below
<1>12. s \in Seq(S) /\ Len(s) = n
  BY <1>0, <1>10
<1>13. \A i, j \in 1..n : i < j => <<s[i], s[j]>> \in L
  <2> SUFFICES ASSUME NEW i \in 1..n, NEW j \in 1..n, i < j, <<s[i], s[j]>> \notin L
               PROVE  FALSE
    OBVIOUS
  <2>1. s[i] \in S /\ s[j] \in S /\ r[s[i]] = i /\ r[s[j]] = j
    BY <1>9
  <2>2. <<s[j], s[i]>> \in L
    BY <1>0, <1>5, <2>1
  <2> QED BY <1>0, <1>4, <2>1, <2>2
<1>14. \A x \in S : x = s[r[x]] /\ r[x] \in 1..n
  BY <1>3, <1>6, <1>9
<1>15. RowsIn(s) = S
  BY <1>9, <1>12, <1>14 DEF RowsIn
<1> QED BY <1>0, <1>11, <1>12, <1>13, <1>15 DEF Listed

\* Sorted lists every row of a finite table once, in ascending order.
LEMMA SortedAscends ==
    ASSUME NEW k \in Nat, NEW S \in SUBSET Tuple(k), IsFiniteSet(S)
    PROVE  Ascending(Sorted(S), k) /\ RowsIn(Sorted(S)) = S
<1> DEFINE L == {p \in S \X S : LexLess(p[1], p[2])}
           s == Sorted(S)
<1>1. \A x, y \in S : <<x, y>> \in L <=> LexLess(x, y)
  OBVIOUS
<1>2. OrderOn(S, L)
  <2> HIDE DEF L
  <2> QED BY <1>1, LexIrreflexive, LexTransitive, LexTotal DEF OrderOn
<1>3. \A x \in S : Rank(S, L, x) = Cardinality({y \in S : LexLess(y, x)})
  <2> HIDE DEF L
  <2>1. ASSUME NEW x \in S
        PROVE  {y \in S : <<y, x>> \in L} = {y \in S : LexLess(y, x)}
    BY <1>1
  <2> QED BY <2>1 DEF Rank
<1>4. s = [i \in 1..Cardinality(S) |->
             CHOOSE x \in S : Cardinality({y \in S : LexLess(y, x)}) = i - 1]
  BY DEF Sorted, InOrder
<1>5. Ranked(s, S, L)
  <2> SUFFICES ASSUME NEW i \in 1..Cardinality(S), NEW x \in S, Rank(S, L, x) = i - 1
               PROVE  s[i] \in S /\ Rank(S, L, s[i]) = i - 1
    BY <1>4 DEF Ranked
  <2>1. s[i] = CHOOSE z \in S : Cardinality({y \in S : LexLess(y, z)}) = i - 1
    BY <1>4
  <2>2. s[i] \in S /\ Cardinality({y \in S : LexLess(y, s[i])}) = i - 1
    <3> HIDE DEF L, s
    <3> QED BY <1>3, <2>1
  <2> HIDE DEF L, s
  <2> QED BY <1>3, <2>2
<1> HIDE DEF L, s
<1>6. Listed(s, S, L)
  BY <1>2, <1>5, RankedList
<1>7. s = Sorted(S)
  BY DEF s
<1>8. s \in Seq(Tuple(k))
  BY <1>6 DEF Listed
<1>9. \A i \in 1..Len(s) : s[i] \in S
  BY <1>6 DEF Listed
<1>10. \A i, j \in 1..Len(s) : i < j => LexLess(s[i], s[j])
  BY <1>1, <1>6, <1>9 DEF Listed
<1> QED BY <1>6, <1>7, <1>8, <1>10 DEF Ascending, Listed

\* An ascending list is the sorted list of its rows.
LEMMA AscendingIsSorted ==
    ASSUME NEW k \in Nat, NEW s, Ascending(s, k)
    PROVE  IsFiniteSet(RowsIn(s)) /\ RowsIn(s) \in SUBSET Tuple(k) /\ s = Sorted(RowsIn(s))
<1>1. s \in Seq(Tuple(k)) /\ Len(s) \in Nat
  BY DEF Ascending
<1>2. RowsIn(s) \in SUBSET Tuple(k)
  BY <1>1 DEF RowsIn
<1>3. IsFiniteSet(RowsIn(s))
  <2> DEFINE f == [i \in 1..Len(s) |-> s[i]]
  <2>1. f \in Surjection(1..Len(s), RowsIn(s))
    BY DEF Surjection, RowsIn
  <2>2. IsFiniteSet(1..Len(s))
    BY <1>1, FS_Interval
  <2> HIDE DEF f
  <2> QED BY <2>1, <2>2, FS_Surjection
<1>4. Ascending(Sorted(RowsIn(s)), k) /\ RowsIn(Sorted(RowsIn(s))) = RowsIn(s)
  BY <1>2, <1>3, SortedAscends
<1> QED BY <1>2, <1>3, <1>4, AscendingUnique

-----------------------------------------------------------------------------
(* Merging two ascending streams of rows of a set R, where L is the order  *)
(* of their keys and P the pick on a tie.                                  *)

Tie(L, x, y) == <<x, y>> \notin L /\ <<y, x>> \notin L

StreamOrder(R, L, P) ==
    /\ L \in SUBSET (R \X R)
    /\ \A x \in R : <<x, x>> \notin L
    /\ \A x, y, z \in R : <<x, y>> \in L /\ <<y, z>> \in L => <<x, z>> \in L
    /\ \A x, y, z \in R : Tie(L, x, y) => /\ <<x, z>> \in L => <<y, z>> \in L
                                          /\ <<z, x>> \in L => <<z, y>> \in L
    /\ P \in [R \X R -> R]
    /\ \A x, y \in R : Tie(L, x, y) => Tie(L, P[<<x, y>>], x)

\* s ascends in the order L.
Up(s, L) == \A i, j \in 1..Len(s) : i < j => <<s[i], s[j]>> \in L

\* The rows of two tables, one for each two that tie.
Merged(A, B, L, P) ==
    {x \in A : \A y \in B : ~ Tie(L, x, y)} \cup {y \in B : \A x \in A : ~ Tie(L, x, y)}
        \cup {P[q] : q \in {p \in A \X B : Tie(L, p[1], p[2])}}

InMerged(z, A, B, L, P) ==
    \/ z \in A /\ \A y \in B : ~ Tie(L, z, y)
    \/ z \in B /\ \A x \in A : ~ Tie(L, x, z)
    \/ \E x \in A, y \in B : Tie(L, x, y) /\ z = P[<<x, y>>]

\* The elements of Merged.
LEMMA MergedElements ==
    ASSUME NEW A, NEW B, NEW L, NEW P, NEW z
    PROVE  z \in Merged(A, B, L, P) <=> InMerged(z, A, B, L, P)
<1>1. (\E q \in {p \in A \X B : Tie(L, p[1], p[2])} : z = P[q])
        <=> \E x \in A, y \in B : Tie(L, x, y) /\ z = P[<<x, y>>]
  <2>1. ASSUME NEW q \in {p \in A \X B : Tie(L, p[1], p[2])}, z = P[q]
        PROVE  \E x \in A, y \in B : Tie(L, x, y) /\ z = P[<<x, y>>]
    <3>1. q = <<q[1], q[2]>> /\ q[1] \in A /\ q[2] \in B /\ Tie(L, q[1], q[2])
      OBVIOUS
    <3>2. z = P[<<q[1], q[2]>>]
      BY <2>1, <3>1
    <3> QED BY <3>1, <3>2
  <2>2. ASSUME NEW x \in A, NEW y \in B, Tie(L, x, y), z = P[<<x, y>>]
        PROVE  \E q \in {p \in A \X B : Tie(L, p[1], p[2])} : z = P[q]
    <3>1. <<x, y>> \in {p \in A \X B : Tie(L, p[1], p[2])}
      BY <2>2
    <3> QED BY <2>2, <3>1
  <2> QED BY <2>1, <2>2
<1> QED BY <1>1 DEF Merged, InMerged

\* Nothing is merged with an empty table.
LEMMA MergedNone ==
    ASSUME NEW A, NEW L, NEW P
    PROVE  Merged({}, A, L, P) = A /\ Merged(A, {}, L, P) = A
<1> DEFINE E == {}
<1>1. \A z : z \notin E
  OBVIOUS
<1> HIDE DEF E
<1>2. \A z : z \in Merged(E, A, L, P) <=> z \in A
  BY <1>1, MergedElements DEF InMerged
<1>3. \A z : z \in Merged(A, E, L, P) <=> z \in A
  BY <1>1, MergedElements DEF InMerged
<1>4. Merged(E, A, L, P) = A /\ Merged(A, E, L, P) = A
  BY <1>2, <1>3
<1> QED BY <1>4 DEF E

\* A row below all others of two tables comes first, from the left table,
LEMMA MergedLeft ==
    ASSUME NEW R, NEW L, NEW P, StreamOrder(R, L, P), NEW A \in SUBSET R, NEW B \in SUBSET R,
           NEW x \in R, \A z \in A \cup B : <<x, z>> \in L
    PROVE  /\ Merged({x} \cup A, B, L, P) = {x} \cup Merged(A, B, L, P)
           /\ \A z \in Merged(A, B, L, P) : <<x, z>> \in L
<1>1. ASSUME NEW z \in Merged(A, B, L, P) PROVE <<x, z>> \in L
  <2>1. CASE z \in A \/ z \in B
    BY <2>1
  <2>2. CASE \E u \in A, y \in B : Tie(L, u, y) /\ z = P[<<u, y>>]
    <3>1. PICK u \in A, y \in B : Tie(L, u, y) /\ z = P[<<u, y>>]
      BY <2>2
    <3>2. u \in R /\ y \in R /\ z \in R
      BY <3>1 DEF StreamOrder
    <3>3. Tie(L, z, u)
      BY <3>1, <3>2 DEF StreamOrder
    <3>4. Tie(L, u, z) /\ <<x, u>> \in L
      BY <3>3 DEF Tie
    <3> QED BY <3>2, <3>4 DEF StreamOrder
  <2> QED BY <2>1, <2>2, MergedElements DEF InMerged
<1>2. \A y \in B : ~ Tie(L, x, y)
  BY DEF Tie
<1> DEFINE A1 == {x} \cup A
<1>3. (\A u : u \in A1 <=> u = x \/ u \in A)
  OBVIOUS
<1>4. ASSUME NEW z
      PROVE  z \in Merged(A1, B, L, P) <=> z \in {x} \cup Merged(A, B, L, P)
  <2> HIDE DEF A1
  <2>1. z \in Merged(A1, B, L, P) <=> InMerged(z, A1, B, L, P)
    BY MergedElements
  <2>2. z \in Merged(A, B, L, P) <=> InMerged(z, A, B, L, P)
    BY MergedElements
  <2> QED BY <1>2, <1>3, <2>1, <2>2 DEF InMerged
<1>5. Merged(A1, B, L, P) = {x} \cup Merged(A, B, L, P)
  BY <1>4
<1> QED BY <1>1, <1>5

\* or from the right one,
LEMMA MergedRight ==
    ASSUME NEW R, NEW L, NEW P, StreamOrder(R, L, P), NEW A \in SUBSET R, NEW B \in SUBSET R,
           NEW y \in R, \A z \in A \cup B : <<y, z>> \in L
    PROVE  /\ Merged(A, {y} \cup B, L, P) = {y} \cup Merged(A, B, L, P)
           /\ \A z \in Merged(A, B, L, P) : <<y, z>> \in L
<1>1. \A z \in Merged(A, B, L, P) : <<y, z>> \in L
  BY MergedLeft
<1>2. \A x \in A : ~ Tie(L, x, y)
  BY DEF Tie
<1> DEFINE B1 == {y} \cup B
<1>3. (\A v : v \in B1 <=> v = y \/ v \in B)
  OBVIOUS
<1>4. ASSUME NEW z
      PROVE  z \in Merged(A, B1, L, P) <=> z \in {y} \cup Merged(A, B, L, P)
  <2> HIDE DEF B1
  <2>1. z \in Merged(A, B1, L, P) <=> InMerged(z, A, B1, L, P)
    BY MergedElements
  <2>2. z \in Merged(A, B, L, P) <=> InMerged(z, A, B, L, P)
    BY MergedElements
  <2> QED BY <1>2, <1>3, <2>1, <2>2 DEF InMerged
<1>5. Merged(A, B1, L, P) = {y} \cup Merged(A, B, L, P)
  BY <1>4
<1> QED BY <1>1, <1>5

\* and two that tie are picked from and come first.
LEMMA MergedTie ==
    ASSUME NEW R, NEW L, NEW P, StreamOrder(R, L, P), NEW A \in SUBSET R, NEW B \in SUBSET R,
           NEW x \in R, NEW y \in R, Tie(L, x, y),
           \A z \in A \cup B : <<x, z>> \in L /\ <<y, z>> \in L
    PROVE  /\ P[<<x, y>>] \in R
           /\ Merged({x} \cup A, {y} \cup B, L, P) = {P[<<x, y>>]} \cup Merged(A, B, L, P)
           /\ \A z \in Merged(A, B, L, P) : <<P[<<x, y>>], z>> \in L
<1>1. P[<<x, y>>] \in R /\ Tie(L, P[<<x, y>>], x)
  BY DEF StreamOrder
<1>2. \A z \in A \cup B : <<P[<<x, y>>], z>> \in L
  <2>1. Tie(L, x, P[<<x, y>>])
    BY <1>1 DEF Tie
  <2> QED BY <1>1, <2>1 DEF StreamOrder
<1>3. \A z \in Merged(A, B, L, P) : <<P[<<x, y>>], z>> \in L
  BY <1>1, <1>2, MergedLeft
<1>4. (\A u \in A : ~ Tie(L, u, y)) /\ (\A v \in B : ~ Tie(L, x, v))
  BY DEF Tie
<1> DEFINE A1 == {x} \cup A
           B1 == {y} \cup B
<1>5. (\A u : u \in A1 <=> u = x \/ u \in A) /\ (\A v : v \in B1 <=> v = y \/ v \in B)
  OBVIOUS
<1>6. ASSUME NEW z
      PROVE  z \in Merged(A1, B1, L, P) <=> z \in {P[<<x, y>>]} \cup Merged(A, B, L, P)
  <2> HIDE DEF A1, B1
  <2>1. z \in Merged(A1, B1, L, P) <=> InMerged(z, A1, B1, L, P)
    BY MergedElements
  <2>2. z \in Merged(A, B, L, P) <=> InMerged(z, A, B, L, P)
    BY MergedElements
  <2> QED BY <1>4, <1>5, <2>1, <2>2 DEF InMerged
<1>7. Merged(A1, B1, L, P) = {P[<<x, y>>]} \cup Merged(A, B, L, P)
  BY <1>6
<1> QED BY <1>1, <1>3, <1>7

\* A sequence with an element put in front.
LEMMA ConsSeq ==
    ASSUME NEW R, NEW s \in Seq(R), NEW x \in R
    PROVE  /\ <<x>> \o s \in Seq(R) /\ Len(<<x>> \o s) = Len(s) + 1 /\ Len(s) \in Nat
           /\ (<<x>> \o s)[1] = x
           /\ \A i \in 1..Len(s) : (<<x>> \o s)[i + 1] = s[i]
OBVIOUS

\* A row put in front of an ascending list of rows above it.
LEMMA UpCons ==
    ASSUME NEW R, NEW L, NEW s \in Seq(R), Up(s, L), NEW x \in R, \A z \in RowsIn(s) : <<x, z>> \in L
    PROVE  /\ <<x>> \o s \in Seq(R)
           /\ Up(<<x>> \o s, L)
           /\ RowsIn(<<x>> \o s) = {x} \cup RowsIn(s)
<1> DEFINE t == <<x>> \o s
<1>1. /\ t \in Seq(R) /\ Len(t) = Len(s) + 1 /\ Len(s) \in Nat /\ t[1] = x
      /\ \A i \in 1..Len(s) : t[i + 1] = s[i]
  BY ConsSeq
<1> HIDE DEF t
<1>2. \A i \in 1..Len(t) : i = 1 \/ (i - 1 \in 1..Len(s) /\ t[i] = s[i - 1])
  <2> SUFFICES ASSUME NEW i \in 1..Len(t), i # 1
               PROVE  i - 1 \in 1..Len(s) /\ t[i] = s[i - 1]
    OBVIOUS
  <2>1. i - 1 \in 1..Len(s) /\ (i - 1) + 1 = i
    BY <1>1
  <2> QED BY <1>1, <2>1
<1>3. \A i \in 1..Len(s) : s[i] \in RowsIn(s)
  BY DEF RowsIn
<1>4. Up(t, L)
  <2> SUFFICES ASSUME NEW i \in 1..Len(t), NEW j \in 1..Len(t), i < j
               PROVE  <<t[i], t[j]>> \in L
    BY DEF Up
  <2>1. j # 1 /\ j - 1 \in 1..Len(s) /\ t[j] = s[j - 1]
    BY <1>1, <1>2
  <2>2. CASE i = 1
    BY <1>1, <1>3, <2>1, <2>2
  <2>3. CASE i # 1
    <3>1. i - 1 \in 1..Len(s) /\ t[i] = s[i - 1] /\ i - 1 < j - 1
      BY <1>2, <2>3
    <3> QED BY <2>1, <3>1 DEF Up
  <2> QED BY <2>2, <2>3
<1>5. RowsIn(t) = {x} \cup RowsIn(s)
  <2>1. 1 \in 1..Len(t) /\ \A i \in 1..Len(s) : i + 1 \in 1..Len(t)
    BY <1>1
  <2>2. \A z : z \in RowsIn(t) <=> z \in {x} \cup RowsIn(s)
    BY <1>1, <1>2, <2>1 DEF RowsIn
  <2> QED BY <2>2
<1> QED BY <1>1, <1>4, <1>5 DEF t

\* One step of the pass over the streams a and b from places i and j, given
\* the results m from later places.
MergeFrom(a, b, L, P, m, i, j) ==
    IF i > Len(a) THEN SubSeq(b, j, Len(b))
    ELSE IF j > Len(b) THEN SubSeq(a, i, Len(a))
    ELSE IF <<a[i], b[j]>> \in L THEN <<a[i]>> \o m[<<i + 1, j>>]
    ELSE IF <<b[j], a[i]>> \in L THEN <<b[j]>> \o m[<<i, j + 1>>]
    ELSE <<P[<<a[i], b[j]>>]>> \o m[<<i + 1, j + 1>>]

Places(a, b) == (1..(Len(a) + 1)) \X (1..(Len(b) + 1))

MergeRule(a, b, L, P, m) ==
    \A i \in 1..(Len(a) + 1), j \in 1..(Len(b) + 1) :
        m[<<i, j>>] = MergeFrom(a, b, L, P, m, i, j)

\* The pass has a result from every place.
LEMMA MergeDefined ==
    ASSUME NEW R, NEW L, NEW P \in [R \X R -> R], NEW a \in Seq(R), NEW b \in Seq(R)
    PROVE  \E m \in [Places(a, b) -> Seq(R)] : MergeRule(a, b, L, P, m)
<1> DEFINE D == Places(a, b)
           S == Seq(R)
           rank == [p \in D |-> (Len(a) + 1 - p[1]) + (Len(b) + 1 - p[2])]
           N == Len(a) + Len(b) + 1
           T == [q \in D \X [D -> S] |-> MergeFrom(a, b, L, P, q[2], q[1][1], q[1][2])]
<1>0. Len(a) \in Nat /\ Len(b) \in Nat
  OBVIOUS
<1>1. \A p \in D : p = <<p[1], p[2]>> /\ p[1] \in 1..(Len(a) + 1) /\ p[2] \in 1..(Len(b) + 1)
  BY DEF Places
<1>2. S # {} /\ N \in Nat /\ rank \in [D -> Nat] /\ \A p \in D : rank[p] < N
  <2>1. <<>> \in S
    OBVIOUS
  <2>2. \A p \in D : (Len(a) + 1 - p[1]) + (Len(b) + 1 - p[2]) \in 0..(N - 1)
    BY <1>0, <1>1
  <2> HIDE DEF D
  <2> QED BY <1>0, <2>1, <2>2
<1>3. ASSUME NEW p \in D, NEW f \in [D -> S]
      PROVE  /\ T[<<p, f>>] = MergeFrom(a, b, L, P, f, p[1], p[2])
             /\ T[<<p, f>>] \in S
  <2>1. T[<<p, f>>] = MergeFrom(a, b, L, P, f, p[1], p[2])
    OBVIOUS
  <2> DEFINE i == p[1]
             j == p[2]
  <2>2. i \in 1..(Len(a) + 1) /\ j \in 1..(Len(b) + 1)
    BY <1>1
  <2> HIDE DEF i, j
  <2>3. SubSeq(b, j, Len(b)) \in Seq(R) /\ SubSeq(a, i, Len(a)) \in Seq(R)
    <3>1. \A k \in j..Len(b) : b[k] \in R
      BY <2>2
    <3>2. \A k \in i..Len(a) : a[k] \in R
      BY <2>2
    <3> QED BY <1>0, <2>2, <3>1, <3>2
  <2>4. ASSUME ~ (i > Len(a)), ~ (j > Len(b))
        PROVE  /\ a[i] \in R /\ b[j] \in R /\ P[<<a[i], b[j]>>] \in R
               /\ f[<<i + 1, j>>] \in Seq(R) /\ f[<<i, j + 1>>] \in Seq(R)
               /\ f[<<i + 1, j + 1>>] \in Seq(R)
    <3>1. i \in 1..Len(a) /\ j \in 1..Len(b)
      BY <1>0, <2>2, <2>4
    <3>2. <<i + 1, j>> \in D /\ <<i, j + 1>> \in D /\ <<i + 1, j + 1>> \in D
      BY <1>0, <3>1 DEF Places
    <3>3. a[i] \in R /\ b[j] \in R
      BY <3>1
    <3> HIDE DEF D
    <3> QED BY <3>2, <3>3
  <2>5. MergeFrom(a, b, L, P, f, i, j) \in S
    <3>1. CASE i > Len(a) \/ j > Len(b)
      BY <2>3, <3>1 DEF MergeFrom
    <3>2. CASE ~ (i > Len(a)) /\ ~ (j > Len(b))
      <4>1. \A x \in R : \A s \in Seq(R) : <<x>> \o s \in Seq(R)
        OBVIOUS
      <4>2. MergeFrom(a, b, L, P, f, i, j) \in {<<a[i]>> \o f[<<i + 1, j>>],
                <<b[j]>> \o f[<<i, j + 1>>], <<P[<<a[i], b[j]>>]>> \o f[<<i + 1, j + 1>>]}
        BY <3>2 DEF MergeFrom
      <4> QED BY <2>4, <3>2, <4>1, <4>2
    <3> QED BY <3>1, <3>2
  <2> QED BY <2>1, <2>5 DEF i, j
<1>4. T \in [D \X [D -> S] -> S]
  <2>1. \A q \in D \X [D -> S] : q = <<q[1], q[2]>> /\ q[1] \in D /\ q[2] \in [D -> S]
    OBVIOUS
  <2>2. \A q \in D \X [D -> S] : T[q] \in S
    <3> HIDE DEF T, D, S
    <3> QED BY <1>3, <2>1
  <2>3. T = [q \in D \X [D -> S] |-> T[q]]
    OBVIOUS
  <2> HIDE DEF T, D, S
  <2> QED BY <2>2, <2>3
<1>5. ASSUME NEW p \in D, NEW f \in [D -> S], NEW g \in [D -> S],
             \A y \in D : rank[y] < rank[p] => f[y] = g[y]
      PROVE  T[<<p, f>>] = T[<<p, g>>]
  <2> DEFINE i == p[1]
             j == p[2]
  <2>1. i \in 1..(Len(a) + 1) /\ j \in 1..(Len(b) + 1) /\ p = <<i, j>>
    BY <1>1
  <2>2. rank[p] = (Len(a) + 1 - i) + (Len(b) + 1 - j)
    OBVIOUS
  <2> HIDE DEF i, j
  <2>3. ASSUME ~ (i > Len(a)), ~ (j > Len(b))
        PROVE  /\ f[<<i + 1, j>>] = g[<<i + 1, j>>] /\ f[<<i, j + 1>>] = g[<<i, j + 1>>]
               /\ f[<<i + 1, j + 1>>] = g[<<i + 1, j + 1>>]
    <3>1. i \in 1..Len(a) /\ j \in 1..Len(b)
      BY <1>0, <2>1, <2>3
    <3>2. <<i + 1, j>> \in D /\ <<i, j + 1>> \in D /\ <<i + 1, j + 1>> \in D
      BY <1>0, <3>1 DEF Places
    <3>3. /\ rank[<<i + 1, j>>] = (Len(a) + 1 - (i + 1)) + (Len(b) + 1 - j)
          /\ rank[<<i, j + 1>>] = (Len(a) + 1 - i) + (Len(b) + 1 - (j + 1))
          /\ rank[<<i + 1, j + 1>>] = (Len(a) + 1 - (i + 1)) + (Len(b) + 1 - (j + 1))
      <4> HIDE DEF D
      <4> QED BY <3>2
    <3>4. /\ rank[<<i + 1, j>>] < rank[p] /\ rank[<<i, j + 1>>] < rank[p]
          /\ rank[<<i + 1, j + 1>>] < rank[p]
      <4> HIDE DEF D, rank
      <4> QED BY <1>0, <2>2, <3>1, <3>3
    <3> HIDE DEF D, S, T, rank
    <3> QED BY <1>5, <3>2, <3>4
  <2>4. MergeFrom(a, b, L, P, f, i, j) = MergeFrom(a, b, L, P, g, i, j)
    BY <2>3 DEF MergeFrom
  <2> HIDE DEF T, D, S
  <2> QED BY <1>3, <2>4 DEF i, j
<1>6. PICK m \in [D -> S] : \A p \in D : m[p] = T[<<p, m>>]
  <2>1. \A p \in D : \A f, g \in [D -> S] :
          (\A y \in D : rank[y] < rank[p] => f[y] = g[y]) => T[<<p, f>>] = T[<<p, g>>]
    BY <1>5
  <2> HIDE DEF T, D, S, rank, N
  <2>2. LowerOnly(D, S, rank, N, T)
    BY <1>2, <1>4, <2>1 DEF LowerOnly
  <2> QED BY <2>2, Recursion
<1>7. ASSUME NEW i \in 1..(Len(a) + 1), NEW j \in 1..(Len(b) + 1)
      PROVE  m[<<i, j>>] = MergeFrom(a, b, L, P, m, i, j)
  <2>1. <<i, j>> \in D
    BY DEF Places
  <2>2. <<i, j>>[1] = i /\ <<i, j>>[2] = j
    OBVIOUS
  <2> HIDE DEF T, D, S
  <2> QED BY <1>3, <1>6, <2>1, <2>2
<1> HIDE DEF T
<1> QED BY <1>6, <1>7 DEF MergeRule

\* The rows of a list from place i on.
RowsFrom(s, i) == {s[k] : k \in i..Len(s)}

\* The rest of an ascending list.
LEMMA RestOf ==
    ASSUME NEW R, NEW L, NEW s \in Seq(R), Up(s, L), NEW i \in 1..(Len(s) + 1)
    PROVE  /\ RowsFrom(s, i) \in SUBSET R
           /\ SubSeq(s, i, Len(s)) \in Seq(R)
           /\ Up(SubSeq(s, i, Len(s)), L)
           /\ RowsIn(SubSeq(s, i, Len(s))) = RowsFrom(s, i)
           /\ i > Len(s) => RowsFrom(s, i) = {}
           /\ i <= Len(s) => /\ s[i] \in R /\ i + 1 \in 1..(Len(s) + 1)
                             /\ RowsFrom(s, i) = {s[i]} \cup RowsFrom(s, i + 1)
                             /\ \A z \in RowsFrom(s, i + 1) : <<s[i], z>> \in L
<1> DEFINE n == Len(s)
           t == SubSeq(s, i, n)
<1>0. n \in Nat /\ i \in Nat /\ 1 <= i /\ i <= n + 1 /\ \A k \in 1..n : s[k] \in R
  OBVIOUS
<1>1. RowsFrom(s, i) \in SUBSET R
  BY DEF RowsFrom
<1>2. t \in Seq(R) /\ Len(t) = n + 1 - i /\ \A k \in 1..(n + 1 - i) : t[k] = s[i + k - 1]
  <2>1. \A k \in i..n : s[k] \in R
    BY <1>0
  <2>2. t = [k \in 1..(n - i + 1) |-> s[i + k - 1]]
    BY <1>0
  <2>3. n - i + 1 \in Nat /\ n - i + 1 = n + 1 - i
    BY <1>0
  <2>4. \A k \in 1..(n - i + 1) : s[i + k - 1] \in R
    BY <1>0
  <2>5. t \in [1..(n - i + 1) -> R]
    BY <2>2, <2>4
  <2> DEFINE c == n - i + 1
  <2>6. t \in [1..c -> R] /\ c \in Nat
    BY <2>3, <2>5
  <2> HIDE DEF t, c
  <2>7. t \in Seq(R) /\ Len(t) = c
    BY <2>6
  <2>8. c = n + 1 - i
    BY <2>3 DEF c
  <2>9. \A k \in 1..c : t[k] = s[i + k - 1]
    BY <2>2 DEF c
  <2> QED BY <2>7, <2>8, <2>9
<1> HIDE DEF t
<1>3. Up(t, L)
  <2> SUFFICES ASSUME NEW j \in 1..Len(t), NEW k \in 1..Len(t), j < k
               PROVE  <<t[j], t[k]>> \in L
    BY DEF Up
  <2>1. i + j - 1 \in 1..n /\ i + k - 1 \in 1..n /\ i + j - 1 < i + k - 1
    BY <1>0, <1>2
  <2> QED BY <1>2, <2>1 DEF Up
<1>4. RowsIn(t) = RowsFrom(s, i)
  <2>1. \A k \in 1..Len(t) : i + k - 1 \in i..n /\ t[k] = s[i + k - 1]
    BY <1>0, <1>2
  <2>2. \A k \in i..n : k - i + 1 \in 1..Len(t) /\ t[k - i + 1] = s[k]
    <3> SUFFICES ASSUME NEW k \in i..n
                 PROVE  k - i + 1 \in 1..Len(t) /\ t[k - i + 1] = s[k]
      OBVIOUS
    <3>1. k - i + 1 \in 1..(n + 1 - i) /\ i + (k - i + 1) - 1 = k
      BY <1>0
    <3>2. t[k - i + 1] = s[i + (k - i + 1) - 1]
      BY <1>2, <3>1
    <3> QED BY <1>2, <3>1, <3>2
  <2>3. \A z \in RowsIn(t) : z \in RowsFrom(s, i)
    BY <2>1 DEF RowsIn, RowsFrom
  <2>4. \A z \in RowsFrom(s, i) : z \in RowsIn(t)
    <3> SUFFICES ASSUME NEW k \in i..n PROVE s[k] \in RowsIn(t)
      BY DEF RowsFrom
    <3> QED BY <2>2 DEF RowsIn
  <2> QED BY <2>3, <2>4
<1>5. i > n => RowsFrom(s, i) = {}
  BY <1>0 DEF RowsFrom
<1>6. ASSUME i <= n
      PROVE  /\ s[i] \in R /\ i + 1 \in 1..(n + 1)
             /\ RowsFrom(s, i) = {s[i]} \cup RowsFrom(s, i + 1)
             /\ \A z \in RowsFrom(s, i + 1) : <<s[i], z>> \in L
  <2>1. s[i] \in R /\ i + 1 \in 1..(n + 1) /\ i \in 1..n
    BY <1>0, <1>6
  <2>2. \A k : k \in i..n <=> k = i \/ k \in (i + 1)..n
    BY <1>0, <1>6
  <2>3. \A z : z \in RowsFrom(s, i) <=> z \in {s[i]} \cup RowsFrom(s, i + 1)
    BY <2>2 DEF RowsFrom
  <2>4. \A z \in RowsFrom(s, i + 1) : <<s[i], z>> \in L
    <3>1. \A k \in (i + 1)..n : k \in 1..n /\ i < k
      BY <1>0
    <3>2. \A k \in (i + 1)..n : <<s[i], s[k]>> \in L
      BY <2>1, <3>1 DEF Up
    <3> QED BY <3>2 DEF RowsFrom
  <2> QED BY <2>1, <2>3, <2>4
<1> QED BY <1>1, <1>2, <1>3, <1>4, <1>5, <1>6 DEF t

\* Whatever follows the rule merges the streams: it lists, in ascending order,
\* the rows of both, one for each two that tie.
LEMMA MergeCorrect ==
    ASSUME NEW R, NEW L, NEW P, StreamOrder(R, L, P), NEW a \in Seq(R), NEW b \in Seq(R),
           Up(a, L), Up(b, L), NEW m, MergeRule(a, b, L, P, m)
    PROVE  /\ m[<<1, 1>>] \in Seq(R)
           /\ Up(m[<<1, 1>>], L)
           /\ RowsIn(m[<<1, 1>>]) = Merged(RowsIn(a), RowsIn(b), L, P)
<1> DEFINE I == 1..(Len(a) + 1)
           J == 1..(Len(b) + 1)
           Good(s, A, B) == s \in Seq(R) /\ Up(s, L) /\ RowsIn(s) = Merged(A, B, L, P)
           Left(i, j) == (Len(a) + 1 - i) + (Len(b) + 1 - j)
           S == {n \in Nat : \A i \in I, j \in J :
                    Left(i, j) <= n => Good(m[<<i, j>>], RowsFrom(a, i), RowsFrom(b, j))}
<1>0. Len(a) \in Nat /\ Len(b) \in Nat
  OBVIOUS
<1>1. ASSUME NEW i \in I, NEW j \in J,
             \A k \in I, l \in J : Left(k, l) < Left(i, j) =>
                Good(m[<<k, l>>], RowsFrom(a, k), RowsFrom(b, l))
      PROVE  Good(m[<<i, j>>], RowsFrom(a, i), RowsFrom(b, j))
  <2>0. m[<<i, j>>] = MergeFrom(a, b, L, P, m, i, j)
    BY DEF MergeRule
  <2>a. /\ RowsFrom(a, i) \in SUBSET R
        /\ SubSeq(a, i, Len(a)) \in Seq(R) /\ Up(SubSeq(a, i, Len(a)), L)
        /\ RowsIn(SubSeq(a, i, Len(a))) = RowsFrom(a, i)
        /\ i > Len(a) => RowsFrom(a, i) = {}
        /\ i <= Len(a) => /\ a[i] \in R /\ i + 1 \in I /\ RowsFrom(a, i + 1) \in SUBSET R
                          /\ RowsFrom(a, i) = {a[i]} \cup RowsFrom(a, i + 1)
                          /\ \A z \in RowsFrom(a, i + 1) : <<a[i], z>> \in L
    BY RestOf
  <2>b. /\ RowsFrom(b, j) \in SUBSET R
        /\ SubSeq(b, j, Len(b)) \in Seq(R) /\ Up(SubSeq(b, j, Len(b)), L)
        /\ RowsIn(SubSeq(b, j, Len(b))) = RowsFrom(b, j)
        /\ j > Len(b) => RowsFrom(b, j) = {}
        /\ j <= Len(b) => /\ b[j] \in R /\ j + 1 \in J /\ RowsFrom(b, j + 1) \in SUBSET R
                          /\ RowsFrom(b, j) = {b[j]} \cup RowsFrom(b, j + 1)
                          /\ \A z \in RowsFrom(b, j + 1) : <<b[j], z>> \in L
    BY RestOf
  <2>1. CASE i > Len(a)
    <3>1. m[<<i, j>>] = SubSeq(b, j, Len(b))
      BY <2>0, <2>1 DEF MergeFrom
    <3>2. RowsFrom(a, i) = {}
      BY <2>1, <2>a
    <3>3. Merged(RowsFrom(a, i), RowsFrom(b, j), L, P) = RowsFrom(b, j)
      BY <3>2, MergedNone
    <3> QED BY <2>b, <3>1, <3>3
  <2>2. CASE i <= Len(a) /\ j > Len(b)
    <3>1. m[<<i, j>>] = SubSeq(a, i, Len(a))
      BY <1>0, <2>0, <2>2 DEF MergeFrom
    <3>2. RowsFrom(b, j) = {}
      BY <2>2, <2>b
    <3>3. Merged(RowsFrom(a, i), RowsFrom(b, j), L, P) = RowsFrom(a, i)
      BY <3>2, MergedNone
    <3> QED BY <2>a, <3>1, <3>3
  <2>3. CASE i <= Len(a) /\ j <= Len(b)
    <3> DEFINE x == a[i]
               y == b[j]
               A == RowsFrom(a, i + 1)
               B == RowsFrom(b, j + 1)
    <3>0. /\ ~ (i > Len(a)) /\ ~ (j > Len(b)) /\ i + 1 \in I /\ j + 1 \in J
          /\ Left(i + 1, j) < Left(i, j) /\ Left(i, j + 1) < Left(i, j)
          /\ Left(i + 1, j + 1) < Left(i, j)
      BY <1>0, <2>3, <2>a, <2>b
    <3>1. /\ x \in R /\ y \in R /\ A \in SUBSET R /\ B \in SUBSET R
          /\ RowsFrom(a, i) = {x} \cup A /\ RowsFrom(b, j) = {y} \cup B
          /\ \A z \in A : <<x, z>> \in L
          /\ \A z \in B : <<y, z>> \in L
      BY <2>3, <2>a, <2>b
    <3>2. /\ Good(m[<<i + 1, j>>], A, {y} \cup B)
          /\ Good(m[<<i, j + 1>>], {x} \cup A, B)
          /\ Good(m[<<i + 1, j + 1>>], A, B)
      <4> HIDE DEF Good, Left, I, J, A, B, x, y
      <4>1. Good(m[<<i + 1, j>>], RowsFrom(a, i + 1), RowsFrom(b, j))
        BY <1>1, <3>0
      <4>2. Good(m[<<i, j + 1>>], RowsFrom(a, i), RowsFrom(b, j + 1))
        BY <1>1, <3>0
      <4>3. Good(m[<<i + 1, j + 1>>], RowsFrom(a, i + 1), RowsFrom(b, j + 1))
        BY <1>1, <3>0
      <4> QED BY <3>1, <4>1, <4>2, <4>3 DEF A, B
    <3>3. m[<<i, j>>] = IF <<x, y>> \in L THEN <<x>> \o m[<<i + 1, j>>]
                        ELSE IF <<y, x>> \in L THEN <<y>> \o m[<<i, j + 1>>]
                        ELSE <<P[<<x, y>>]>> \o m[<<i + 1, j + 1>>]
      BY <2>0, <3>0 DEF MergeFrom
    <3>4. ASSUME NEW z \in R, NEW s, NEW U, NEW V, Good(s, U, V),
                 \A u \in Merged(U, V, L, P) : <<z, u>> \in L,
                 Merged(RowsFrom(a, i), RowsFrom(b, j), L, P) = {z} \cup Merged(U, V, L, P)
          PROVE  Good(<<z>> \o s, RowsFrom(a, i), RowsFrom(b, j))
      <4>1. s \in Seq(R) /\ Up(s, L) /\ \A u \in RowsIn(s) : <<z, u>> \in L
        BY <3>4
      <4>2. /\ <<z>> \o s \in Seq(R) /\ Up(<<z>> \o s, L)
            /\ RowsIn(<<z>> \o s) = {z} \cup RowsIn(s)
        BY <4>1, UpCons
      <4> QED BY <3>4, <4>2
    <3> HIDE DEF x, y, A, B
    <3>5. CASE <<x, y>> \in L
      <4>1. \A z \in A \cup ({y} \cup B) : <<x, z>> \in L
        BY <3>1, <3>5 DEF StreamOrder
      <4>2. /\ Merged({x} \cup A, {y} \cup B, L, P) = {x} \cup Merged(A, {y} \cup B, L, P)
            /\ \A z \in Merged(A, {y} \cup B, L, P) : <<x, z>> \in L
        <5> DEFINE B1 == {y} \cup B
        <5>1. B1 \in SUBSET R /\ \A z \in A \cup B1 : <<x, z>> \in L
          BY <3>1, <4>1
        <5> HIDE DEF B1
        <5>2. /\ Merged({x} \cup A, B1, L, P) = {x} \cup Merged(A, B1, L, P)
              /\ \A z \in Merged(A, B1, L, P) : <<x, z>> \in L
          BY <3>1, <5>1, MergedLeft
        <5> QED BY <5>2 DEF B1
      <4>3. m[<<i, j>>] = <<x>> \o m[<<i + 1, j>>]
        BY <3>3, <3>5
      <4>4. Good(m[<<i + 1, j>>], A, {y} \cup B)
        BY <3>2
      <4>6. Merged(RowsFrom(a, i), RowsFrom(b, j), L, P) = {x} \cup Merged(A, {y} \cup B, L, P)
        BY <3>1, <4>2
      <4> HIDE DEF Good
      <4>7. Good(<<x>> \o m[<<i + 1, j>>], RowsFrom(a, i), RowsFrom(b, j))
        BY <3>1, <3>4, <4>2, <4>4, <4>6
      <4> QED BY <4>3, <4>7
    <3>6. CASE <<y, x>> \in L
      <4>1. \A z \in ({x} \cup A) \cup B : <<y, z>> \in L
        BY <3>1, <3>6 DEF StreamOrder
      <4>2. /\ Merged({x} \cup A, {y} \cup B, L, P) = {y} \cup Merged({x} \cup A, B, L, P)
            /\ \A z \in Merged({x} \cup A, B, L, P) : <<y, z>> \in L
        <5> DEFINE A1 == {x} \cup A
        <5>1. A1 \in SUBSET R /\ \A z \in A1 \cup B : <<y, z>> \in L
          BY <3>1, <4>1
        <5> HIDE DEF A1
        <5>2. /\ Merged(A1, {y} \cup B, L, P) = {y} \cup Merged(A1, B, L, P)
              /\ \A z \in Merged(A1, B, L, P) : <<y, z>> \in L
          BY <3>1, <5>1, MergedRight
        <5> QED BY <5>2 DEF A1
      <4>3. <<x, y>> \notin L
        BY <3>1, <3>6 DEF StreamOrder
      <4>4. m[<<i, j>>] = <<y>> \o m[<<i, j + 1>>]
        BY <3>3, <3>6, <4>3
      <4>5. Good(m[<<i, j + 1>>], {x} \cup A, B)
        BY <3>2
      <4>6. Merged(RowsFrom(a, i), RowsFrom(b, j), L, P) = {y} \cup Merged({x} \cup A, B, L, P)
        BY <3>1, <4>2
      <4> HIDE DEF Good
      <4>7. Good(<<y>> \o m[<<i, j + 1>>], RowsFrom(a, i), RowsFrom(b, j))
        BY <3>1, <3>4, <4>2, <4>5, <4>6
      <4> QED BY <4>4, <4>7
    <3>7. CASE <<x, y>> \notin L /\ <<y, x>> \notin L
      <4>0. Tie(L, x, y) /\ Tie(L, y, x)
        BY <3>7 DEF Tie
      <4>1. \A z \in A \cup B : <<x, z>> \in L /\ <<y, z>> \in L
        BY <3>1, <4>0 DEF StreamOrder
      <4>2. /\ P[<<x, y>>] \in R
            /\ Merged({x} \cup A, {y} \cup B, L, P) = {P[<<x, y>>]} \cup Merged(A, B, L, P)
            /\ \A z \in Merged(A, B, L, P) : <<P[<<x, y>>], z>> \in L
        BY <3>1, <4>0, <4>1, MergedTie
      <4>3. m[<<i, j>>] = <<P[<<x, y>>]>> \o m[<<i + 1, j + 1>>]
        BY <3>3, <3>7
      <4>4. Good(m[<<i + 1, j + 1>>], A, B)
        BY <3>2
      <4>6. Merged(RowsFrom(a, i), RowsFrom(b, j), L, P) = {P[<<x, y>>]} \cup Merged(A, B, L, P)
        BY <3>1, <4>2
      <4> HIDE DEF Good
      <4>7. Good(<<P[<<x, y>>]>> \o m[<<i + 1, j + 1>>], RowsFrom(a, i), RowsFrom(b, j))
        BY <3>1, <3>4, <4>2, <4>4, <4>6
      <4> QED BY <4>3, <4>7
    <3> QED BY <3>5, <3>6, <3>7
  <2> QED BY <1>0, <2>1, <2>2, <2>3
<1>2. \A i \in I, j \in J : Left(i, j) \in Nat
  BY <1>0
<1>3. 0 \in S
  <2> HIDE DEF Good
  <2>1. \A i \in I, j \in J, k \in I, l \in J : Left(i, j) <= 0 => ~ (Left(k, l) < Left(i, j))
    BY <1>2
  <2> HIDE DEF Left, I, J
  <2> QED BY <1>1, <2>1
<1>4. ASSUME NEW n \in Nat, n \in S PROVE n + 1 \in S
  <2>1. \A k \in I, l \in J : Left(k, l) <= n => Good(m[<<k, l>>], RowsFrom(a, k), RowsFrom(b, l))
    BY <1>4
  <2> HIDE DEF Good
  <2>2. \A i \in I, j \in J, k \in I, l \in J :
          Left(i, j) <= n + 1 /\ Left(k, l) < Left(i, j) => Left(k, l) <= n
    BY <1>2
  <2> HIDE DEF Left, I, J
  <2> QED BY <1>1, <2>1, <2>2
<1>5. Left(1, 1) \in S
  <2>1. \A n \in Nat : n \in S => n + 1 \in S
    BY <1>4
  <2>2. Left(1, 1) \in Nat
    BY <1>0
  <2> HIDE DEF S, Left
  <2> QED BY <1>3, <2>1, <2>2, NatSetInduction
<1>6. Good(m[<<1, 1>>], RowsFrom(a, 1), RowsFrom(b, 1))
  <2>1. 1 \in I /\ 1 \in J
    BY <1>0
  <2>2. Left(1, 1) <= Left(1, 1)
    BY <1>0
  <2> HIDE DEF Good, Left, I, J
  <2> QED BY <1>5, <2>1, <2>2
<1>7. RowsFrom(a, 1) = RowsIn(a) /\ RowsFrom(b, 1) = RowsIn(b)
  BY DEF RowsFrom, RowsIn
<1> QED BY <1>6, <1>7
=============================================================================
