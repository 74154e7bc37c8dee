------------------------------ MODULE Induction ------------------------------
(***************************************************************************)
(* Induction in the form the provers can use: over a SET of numbers or of  *)
(* finite sets, not over an operator.  From it, what the proofs need about *)
(* sums over a finite set.                                                 *)
(***************************************************************************)
EXTENDS Integers, FiniteSets, FiniteSetsExt, FiniteSetTheorems,
        WellFoundedInduction, TLAPS

-----------------------------------------------------------------------------
(* Numbers.                                                                *)

\* A set of naturals that is not empty has a least element.
LEMMA LeastNat ==
    ASSUME NEW S \in SUBSET Nat, S # {}
    PROVE  \E m \in S : \A n \in S : m <= n
<1> DEFINE R == OpToRel(<, Nat)
<1>1. \A x, y \in Nat : y < x => <<y, x>> \in R
  BY DEF OpToRel
<1>2. IsWellFoundedOn(R, Nat)
  BY NatLessThanWellFounded, Zenon
<1> HIDE DEF R
<1>3. PICK m \in S : \A n \in S : ~ (<<n, m>> \in R)
  BY <1>2, WFMin
<1>4. \A n \in S : ~ (n < m)
  BY <1>1, <1>3
<1> QED BY <1>4

\* A bounded set of naturals has a least strict bound, which is 0 or one
\* more than a member.
LEMMA LeastBound ==
    ASSUME NEW U \in SUBSET Nat, NEW b \in Nat, \A i \in U : i < b
    PROVE  \E n \in {0} \cup {i + 1 : i \in U} : \A i \in U : i < n
<1> DEFINE B == {n \in Nat : \A i \in U : i < n}
<1>1. PICK m \in B : \A n \in B : m <= n
  <2>1. b \in B /\ B \in SUBSET Nat
    OBVIOUS
  <2> QED BY <2>1, LeastNat
<1>2. CASE m = 0
  BY <1>1, <1>2
<1>3. CASE m # 0
  <2>1. m - 1 \in Nat /\ m - 1 \notin B
    BY <1>1, <1>3
  <2>2. PICK i \in U : ~ (i < m - 1)
    BY <2>1
  <2>3. m = i + 1
    BY <1>1, <2>2
  <2> QED BY <1>1, <2>3
<1> QED BY <1>2, <1>3

\* A set that holds 0 and the successor of each natural it holds holds every
\* natural.
LEMMA NatSetInduction ==
    ASSUME NEW S, 0 \in S, \A n \in Nat : n \in S => n + 1 \in S
    PROVE  \A n \in Nat : n \in S
<1> SUFFICES ASSUME NEW k \in Nat, k \notin S
             PROVE  FALSE
  OBVIOUS
<1> DEFINE B == {n \in Nat : n \notin S}
<1>1. PICK m \in B : \A n \in B : m <= n
  <2>1. k \in B /\ B \in SUBSET Nat
    OBVIOUS
  <2> HIDE DEF B
  <2> QED BY <2>1, LeastNat
<1>2. m # 0 /\ m - 1 \in Nat
  BY <1>1
<1>3. m - 1 \in S
  BY <1>1, <1>2
<1>4. (m - 1) + 1 \in S
  BY <1>2, <1>3
<1> QED BY <1>1, <1>4

-----------------------------------------------------------------------------
(* Finite sets.                                                            *)

\* A family that holds each subset of a finite D whose proper subsets it
\* holds, holds every subset of D.
LEMMA SubsetInduction ==
    ASSUME NEW D, IsFiniteSet(D), NEW F,
           \A s \in SUBSET D : (\A r \in SUBSET s : r # s => r \in F) => s \in F
    PROVE  \A s \in SUBSET D : s \in F
<1> SUFFICES ASSUME NEW z \in SUBSET D, z \notin F
             PROVE  FALSE
  OBVIOUS
<1> DEFINE B == {n \in Nat : \E s \in SUBSET D : Cardinality(s) = n /\ s \notin F}
<1>0. \A s \in SUBSET D : IsFiniteSet(s) /\ Cardinality(s) \in Nat
  BY FS_Subset, FS_CardinalityType
<1>1. PICK m \in B : \A n \in B : m <= n
  <2>1. Cardinality(z) \in B /\ B \in SUBSET Nat
    BY <1>0
  <2> HIDE DEF B
  <2> QED BY <2>1, LeastNat
<1>2. PICK s \in SUBSET D : Cardinality(s) = m /\ s \notin F
  BY <1>1
<1>3. ASSUME NEW r \in SUBSET s, r # s
      PROVE  r \in F
  <2>1. r \in SUBSET D
    OBVIOUS
  <2>2. Cardinality(r) <= m /\ Cardinality(r) # m /\ Cardinality(r) \in Nat
    BY <1>0, <1>2, <1>3, <2>1, FS_Subset
  <2>3. Cardinality(r) \notin B
    BY <1>1, <2>2
  <2> QED BY <2>1, <2>2, <2>3
<1> QED BY <1>2, <1>3

-----------------------------------------------------------------------------
(* Sums.                                                                   *)

\* The element a fold over a set takes first.
FirstTaken(s) == CHOOSE x \in s : TRUE

\* t holds the sum of f over every subset of D.
SumTable(t, f, D) ==
    /\ t \in [SUBSET D -> Int]
    /\ \A s \in SUBSET D :
          t[s] = IF s = {} THEN 0 ELSE f[FirstTaken(s)] + t[s \ {FirstTaken(s)}]

Total(f, D) == MapThenSumSet(LAMBDA x : f[x], D)

\* Summing one subset after the other, by size, gives such a table.
LEMMA SumTableExists ==
    ASSUME NEW D, IsFiniteSet(D), NEW f \in [D -> Int]
    PROVE  \E t : SumTable(t, f, D)
<1> DEFINE Sub(n) == {s \in SUBSET D : Cardinality(s) <= n}
           Eqn(t, s) == t[s] = IF s = {} THEN 0 ELSE f[FirstTaken(s)] + t[s \ {FirstTaken(s)}]
           Ok(t, n) == t \in [Sub(n) -> Int] /\ \A s \in Sub(n) : Eqn(t, s)
           S == {n \in Nat : \E t : Ok(t, n)}
<1>0. \A s \in SUBSET D : IsFiniteSet(s) /\ Cardinality(s) \in Nat
                            /\ Cardinality(s) <= Cardinality(D)
  BY FS_Subset, FS_CardinalityType
<1>a. \A s \in SUBSET D : s # {} => FirstTaken(s) \in s
  BY DEF FirstTaken
<1>b. \A s \in SUBSET D : s # {} => Cardinality(s \ {FirstTaken(s)}) = Cardinality(s) - 1
  BY <1>0, <1>a, FS_RemoveElement
<1>c. \A s \in SUBSET D : Cardinality(s) = 0 <=> s = {}
  BY <1>0, FS_EmptySet
<1>1. 0 \in S
  <2>1. \A s \in Sub(0) : s = {}
    BY <1>0, <1>c
  <2>2. Ok([s \in Sub(0) |-> 0], 0)
    BY <2>1
  <2> QED BY <2>2
<1>2. ASSUME NEW n \in Nat, n \in S
      PROVE  n + 1 \in S
  <2>1. PICK t : Ok(t, n)
    BY <1>2
  <2> DEFINE u == [s \in Sub(n + 1) |->
                     IF s = {} THEN 0 ELSE f[FirstTaken(s)] + t[s \ {FirstTaken(s)}]]
  <2>2. \A s \in Sub(n + 1) : s # {} => s \ {FirstTaken(s)} \in Sub(n)
    BY <1>0, <1>a, <1>b
  <2>3. \A s \in Sub(n) : s \in Sub(n + 1)
    BY <1>0
  <2>4. \A s \in Sub(n) : u[s] = t[s]
    BY <2>1, <2>3
  <2>5. u \in [Sub(n + 1) -> Int]
    BY <1>a, <2>1, <2>2
  <2>6. \A s \in Sub(n + 1) : Eqn(u, s)
    BY <2>2, <2>4
  <2>7. Ok(u, n + 1)
    BY <2>5, <2>6
  <2> HIDE DEF Ok, u
  <2> QED BY <2>7
<1>3. Cardinality(D) \in S
  <2>1. Cardinality(D) \in Nat
    BY FS_CardinalityType
  <2>2. \A n \in Nat : n \in S => n + 1 \in S
    BY <1>2
  <2> HIDE DEF S
  <2> QED BY <1>1, <2>1, <2>2, NatSetInduction
<1>4. PICK t : Ok(t, Cardinality(D))
  BY <1>3
<1>5. Sub(Cardinality(D)) = SUBSET D
  BY <1>0
<1> QED BY <1>4, <1>5 DEF SumTable

\* Total is the table's entry for the whole set.
LEMMA TotalTable ==
    ASSUME NEW D, IsFiniteSet(D), NEW f \in [D -> Int]
    PROVE  \E t : SumTable(t, f, D) /\ Total(f, D) = t[D]
<1> DEFINE Eqn(t) == t = [s \in SUBSET D |->
                            IF s = {} THEN 0 ELSE f[FirstTaken(s)] + t[s \ {FirstTaken(s)}]]
           it == CHOOSE t : Eqn(t)
<1>1. PICK t : SumTable(t, f, D)
  BY SumTableExists
<1>2. Eqn(t)
  BY <1>1 DEF SumTable
<1>3. Eqn(it)
  <2> HIDE DEF Eqn
  <2> QED BY <1>2
<1>4. Total(f, D) = it[D]
  BY Zenon DEF Total, MapThenSumSet, MapThenFoldSet, FirstTaken
<1> HIDE DEF it
<1>5. \A s \in SUBSET D : it[s] = IF s = {} THEN 0 ELSE f[FirstTaken(s)] + it[s \ {FirstTaken(s)}]
  BY <1>3
<1>6. \A s \in SUBSET D : s # {} => FirstTaken(s) \in s
  BY DEF FirstTaken
<1>7. \A s \in SUBSET D : it[s] = t[s]
  <2> DEFINE F == {s \in SUBSET D : it[s] = t[s]}
  <2>1. ASSUME NEW s \in SUBSET D, \A r \in SUBSET s : r # s => r \in F
        PROVE  s \in F
    <3>1. CASE s = {}
      BY <1>1, <1>5, <3>1 DEF SumTable
    <3>2. CASE s # {}
      <4>1. s \ {FirstTaken(s)} \in F
        BY <1>6, <2>1, <3>2
      <4> QED BY <1>1, <1>5, <3>2, <4>1 DEF SumTable
    <3> QED BY <3>1, <3>2
  <2>2. \A s \in SUBSET D : s \in F
    <3> HIDE DEF F
    <3> QED BY <2>1, SubsetInduction
  <2> QED BY <2>2
<1>8. Total(f, D) = t[D]
  BY <1>4, <1>7
<1> QED BY <1>1, <1>8

\* The empty sum, the sum of zeros.
LEMMA TotalZero ==
    ASSUME NEW D, IsFiniteSet(D), NEW f \in [D -> Int], \A x \in D : f[x] = 0
    PROVE  Total(f, D) = 0
<1>1. PICK t : SumTable(t, f, D) /\ Total(f, D) = t[D]
  BY TotalTable
<1>2. \A s \in SUBSET D : s # {} => FirstTaken(s) \in s
  BY DEF FirstTaken
<1> DEFINE F == {s \in SUBSET D : t[s] = 0}
<1>3. ASSUME NEW s \in SUBSET D, \A r \in SUBSET s : r # s => r \in F
      PROVE  s \in F
  <2>1. CASE s = {}
    BY <1>1, <2>1 DEF SumTable
  <2>2. CASE s # {}
    <3>1. s \ {FirstTaken(s)} \in F
      BY <1>2, <1>3, <2>2
    <3> QED BY <1>1, <1>2, <2>2, <3>1 DEF SumTable
  <2> QED BY <2>1, <2>2
<1>4. D \in F
  <2> HIDE DEF F
  <2> QED BY <1>3, SubsetInduction
<1> QED BY <1>1, <1>4

\* A sum of naturals is a natural.
LEMMA TotalNat ==
    ASSUME NEW D, IsFiniteSet(D), NEW f \in [D -> Nat]
    PROVE  Total(f, D) \in Nat
<1>0. f \in [D -> Int]
  OBVIOUS
<1>1. PICK t : SumTable(t, f, D) /\ Total(f, D) = t[D]
  BY <1>0, TotalTable
<1>2. \A s \in SUBSET D : s # {} => FirstTaken(s) \in s
  BY DEF FirstTaken
<1> DEFINE F == {s \in SUBSET D : t[s] \in Nat}
<1>3. ASSUME NEW s \in SUBSET D, \A r \in SUBSET s : r # s => r \in F
      PROVE  s \in F
  <2>1. CASE s = {}
    <3>1. t[s] = 0
      BY <1>1, <2>1 DEF SumTable
    <3> QED BY <3>1
  <2>2. CASE s # {}
    <3>1. s \ {FirstTaken(s)} \in F
      BY <1>2, <1>3, <2>2
    <3>2. f[FirstTaken(s)] \in Nat
      BY <1>2, <2>2
    <3> QED BY <1>1, <2>2, <3>1, <3>2 DEF SumTable
  <2> QED BY <2>1, <2>2
<1>4. D \in F
  <2> HIDE DEF F
  <2> QED BY <1>3, SubsetInduction
<1> QED BY <1>1, <1>4

\* Changing one summand changes the sum by the difference.
LEMMA TotalUpdate ==
    ASSUME NEW D, IsFiniteSet(D), NEW f \in [D -> Int], NEW g \in [D -> Int],
           NEW w \in D, \A x \in D \ {w} : g[x] = f[x]
    PROVE  /\ Total(f, D) \in Int
           /\ Total(g, D) = Total(f, D) + g[w] - f[w]
<1>1. PICK t : SumTable(t, f, D) /\ Total(f, D) = t[D]
  BY TotalTable
<1>2. PICK u : SumTable(u, g, D) /\ Total(g, D) = u[D]
  BY TotalTable
<1>3. \A s \in SUBSET D : s # {} => FirstTaken(s) \in s
  BY DEF FirstTaken
<1> DEFINE F == {s \in SUBSET D : u[s] = t[s] + (IF w \in s THEN g[w] - f[w] ELSE 0)}
<1>4. ASSUME NEW s \in SUBSET D, \A r \in SUBSET s : r # s => r \in F
      PROVE  s \in F
  <2>1. CASE s = {}
    <3>1. t[s] = 0 /\ u[s] = 0 /\ w \notin s
      BY <1>1, <1>2, <2>1 DEF SumTable
    <3> QED BY <3>1
  <2>2. CASE s # {}
    <3> DEFINE x == FirstTaken(s)
               r == s \ {x}
    <3>1. x \in s /\ r \in SUBSET D /\ r \in F
      BY <1>3, <1>4, <2>2
    <3>2. t[s] = f[x] + t[r] /\ u[s] = g[x] + u[r]
      BY <1>1, <1>2, <2>2 DEF SumTable
    <3>3. t[r] \in Int /\ u[r] = t[r] + (IF w \in r THEN g[w] - f[w] ELSE 0)
      BY <1>1, <3>1 DEF SumTable
    <3>4. f[x] \in Int /\ g[x] \in Int /\ f[w] \in Int /\ g[w] \in Int
      BY <3>1
    <3> HIDE DEF x
    <3>5. CASE x = w
      BY <3>1, <3>2, <3>3, <3>4, <3>5
    <3>6. CASE x # w
      <4>1. (w \in r <=> w \in s) /\ g[x] = f[x]
        BY <3>1, <3>6
      <4> QED BY <3>2, <3>3, <3>4, <4>1
    <3> QED BY <3>5, <3>6
  <2> QED BY <2>1, <2>2
<1>5. D \in F
  <2> HIDE DEF F
  <2> QED BY <1>4, SubsetInduction
<1>6. t[D] \in Int
  BY <1>1 DEF SumTable
<1> QED BY <1>1, <1>2, <1>5, <1>6

-----------------------------------------------------------------------------
(* Recursion.                                                              *)

\* The rule T for an argument and a function into S looks only at the
\* function's values for arguments of lower rank; ranks are below N.
LowerOnly(D, S, rank, N, T) ==
    /\ S # {} /\ N \in Nat
    /\ rank \in [D -> Nat] /\ \A x \in D : rank[x] < N
    /\ T \in [D \X [D -> S] -> S]
    /\ \A x \in D : \A f, g \in [D -> S] :
          (\A y \in D : rank[y] < rank[x] => f[y] = g[y]) => T[<<x, f>>] = T[<<x, g>>]

\* Such a rule defines a function.
LEMMA Recursion ==
    ASSUME NEW D, NEW S, NEW rank, NEW N, NEW T, LowerOnly(D, S, rank, N, T)
    PROVE  \E f \in [D -> S] : \A x \in D : f[x] = T[<<x, f>>]
<1> USE DEF LowerOnly
<1>0. PICK z : z \in S
  OBVIOUS
<1> DEFINE Upto(f, n) == \A x \in D : rank[x] < n => f[x] = T[<<x, f>>]
           G == {n \in Nat : \E f \in [D -> S] : Upto(f, n)}
<1>1. 0 \in G
  <2>1. [x \in D |-> z] \in [D -> S]
    BY <1>0
  <2>2. \A x \in D : ~ (rank[x] < 0)
    OBVIOUS
  <2> QED BY <2>1, <2>2
<1>2. ASSUME NEW n \in Nat, n \in G PROVE n + 1 \in G
  <2>1. PICK f \in [D -> S] : Upto(f, n)
    BY <1>2
  <2> DEFINE g == [x \in D |-> T[<<x, f>>]]
  <2>2. g \in [D -> S]
    OBVIOUS
  <2>3. \A y \in D : rank[y] < n => f[y] = g[y]
    BY <2>1
  <2>4. ASSUME NEW x \in D, rank[x] < n + 1 PROVE g[x] = T[<<x, g>>]
    <3>1. \A y \in D : rank[y] < rank[x] => rank[y] < n
      BY <2>4
    <3>2. T[<<x, f>>] = T[<<x, g>>]
      <4> HIDE DEF g
      <4> QED BY <2>2, <2>3, <3>1
    <3>3. g[x] = T[<<x, f>>]
      OBVIOUS
    <3> HIDE DEF g
    <3> QED BY <3>2, <3>3
  <2>5. Upto(g, n + 1)
    <3> HIDE DEF g
    <3> QED BY <2>4
  <2> HIDE DEF g, Upto
  <2> QED BY <2>2, <2>5
<1>3. N \in G
  <2>1. \A n \in Nat : n \in G => n + 1 \in G
    BY <1>2
  <2> HIDE DEF G
  <2> QED BY <1>1, <2>1, NatSetInduction
<1> QED BY <1>3

\* The largest element of a set of sequence indices.
LEMMA MaxIndex ==
    ASSUME NEW n \in Nat
    PROVE  /\ \A s \in SUBSET (1 .. n) : s # {} => Max(s) \in s
           /\ \A k \in 1 .. n : /\ 1 .. k \in SUBSET (1 .. n) /\ 1 .. k # {}
                                /\ Max(1 .. k) = k /\ (1 .. k) \ {k} = 1 .. (k - 1)
<1>1. ASSUME NEW s \in SUBSET (1 .. n), s # {}
      PROVE  \E x \in s : \A y \in s : x >= y
  <2> DEFINE B == {m \in Nat : n - m \in s}
  <2>1. B \in SUBSET Nat /\ B # {}
    <3>1. PICK x : x \in s
      BY <1>1
    <3>2. n - x \in B
      BY <3>1
    <3> QED BY <3>2
  <2>2. PICK m \in B : \A k \in B : m <= k
    <3> HIDE DEF B
    <3> QED BY <2>1, LeastNat
  <2>3. n - m \in s
    BY <2>2
  <2>4. ASSUME NEW y \in s PROVE n - m >= y
    <3>1. n - y \in B
      OBVIOUS
    <3>2. m <= n - y /\ m \in Nat
      BY <2>2, <3>1
    <3> QED BY <3>2
  <2> QED BY <2>3, <2>4
<1>2. ASSUME NEW s \in SUBSET (1 .. n), s # {} PROVE Max(s) \in s
  BY <1>1, <1>2 DEF Max
<1>3. ASSUME NEW k \in 1 .. n
      PROVE  /\ 1 .. k \in SUBSET (1 .. n) /\ 1 .. k # {}
             /\ Max(1 .. k) = k /\ (1 .. k) \ {k} = 1 .. (k - 1)
  <2>1. 1 .. k \in SUBSET (1 .. n) /\ k \in 1 .. k
    OBVIOUS
  <2>2. Max(1 .. k) \in 1 .. k /\ \A y \in 1 .. k : Max(1 .. k) >= y
    BY <1>1, <2>1 DEF Max
  <2>3. Max(1 .. k) = k
    BY <2>1, <2>2
  <2>4. (1 .. k) \ {k} = 1 .. (k - 1)
    OBVIOUS
  <2> QED BY <2>1, <2>3, <2>4
<1> QED BY <1>2, <1>3

\* f is the table a fold over a sequence builds, as far as its values are in
\* S: U takes the value so far and the place of the next element.
FoldsBy(f, n, S, z, U) ==
    /\ n \in Nat /\ z \in S /\ U \in [S \X (1 .. n) -> S]
    /\ f[{}] = z
    /\ \A s \in SUBSET (1 .. n) :
          s # {} /\ f[s \ {Max(s)}] \in S => f[s] = U[<<f[s \ {Max(s)}], Max(s)>>]

\* There is such a table with all its values in S.
LEMMA FoldTable ==
    ASSUME NEW n \in Nat, NEW S, NEW z \in S, NEW U \in [S \X (1 .. n) -> S]
    PROVE  \E f : /\ f = [s \in SUBSET (1 .. n) |-> f[s]] /\ FoldsBy(f, n, S, z, U)
                  /\ \A s \in SUBSET (1 .. n) : s # {} => f[s \ {Max(s)}] \in S /\ Max(s) \in 1 .. n
<1> DEFINE D == SUBSET (1 .. n)
           rank == [s \in D |-> Cardinality(s)]
           T == [p \in D \X [D -> S] |->
                   IF p[1] = {} THEN z ELSE U[<<p[2][p[1] \ {Max(p[1])}], Max(p[1])>>]]
<1>1. IsFiniteSet(1 .. n) /\ Cardinality(1 .. n) \in Nat
  <2>1. 1 \in Int /\ n \in Int
    OBVIOUS
  <2>2. IsFiniteSet(1 .. n)
    BY <2>1, FS_Interval
  <2> QED BY <2>2, FS_CardinalityType
<1>2. \A s \in D : IsFiniteSet(s) /\ Cardinality(s) \in Nat /\ Cardinality(s) <= Cardinality(1 .. n)
  BY <1>1, FS_Subset, FS_CardinalityType
<1>3. \A s \in D : s # {} => Max(s) \in s /\ s \ {Max(s)} \in D
                             /\ Cardinality(s \ {Max(s)}) < Cardinality(s)
  <2> SUFFICES ASSUME NEW s \in D, s # {}
               PROVE  Max(s) \in s /\ s \ {Max(s)} \in D /\ Cardinality(s \ {Max(s)}) < Cardinality(s)
    OBVIOUS
  <2>1. Max(s) \in s
    BY MaxIndex
  <2>2. s \ {Max(s)} \in D
    OBVIOUS
  <2>3. Cardinality(s \ {Max(s)}) = Cardinality(s) - 1
    BY <1>2, <2>1, FS_RemoveElement
  <2> QED BY <1>2, <2>1, <2>2, <2>3
<1>4. /\ rank \in [D -> Nat] /\ Cardinality(1 .. n) + 1 \in Nat
      /\ \A s \in D : rank[s] < Cardinality(1 .. n) + 1
  BY <1>1, <1>2
<1>5. ASSUME NEW s \in D, NEW f \in [D -> S]
      PROVE  /\ T[<<s, f>>] = IF s = {} THEN z ELSE U[<<f[s \ {Max(s)}], Max(s)>>]
             /\ T[<<s, f>>] \in S
  <2>1. T[<<s, f>>] = IF s = {} THEN z ELSE U[<<f[s \ {Max(s)}], Max(s)>>]
    OBVIOUS
  <2>2. s # {} => Max(s) \in 1 .. n /\ f[s \ {Max(s)}] \in S
    BY <1>3
  <2>3. s # {} => U[<<f[s \ {Max(s)}], Max(s)>>] \in S
    BY <2>2
  <2> QED BY <2>1, <2>3
<1>6. T \in [D \X [D -> S] -> S]
  <2>1. \A p \in D \X [D -> S] : p = <<p[1], p[2]>> /\ p[1] \in D /\ p[2] \in [D -> S]
    OBVIOUS
  <2>2. \A p \in D \X [D -> S] : T[p] \in S
    <3> HIDE DEF T, D
    <3> QED BY <1>5, <2>1
  <2>3. T = [p \in D \X [D -> S] |-> T[p]]
    OBVIOUS
  <2> HIDE DEF T, D
  <2> QED BY <2>2, <2>3
<1>7. ASSUME NEW s \in D, NEW f \in [D -> S], NEW g \in [D -> S],
             \A y \in D : rank[y] < rank[s] => f[y] = g[y]
      PROVE  T[<<s, f>>] = T[<<s, g>>]
  <2>1. CASE s = {}
    BY <1>5, <2>1
  <2>2. CASE s # {}
    <3>1. f[s \ {Max(s)}] = g[s \ {Max(s)}]
      BY <1>3, <1>7, <2>2
    <3> HIDE DEF T
    <3> QED BY <1>5, <2>2, <3>1
  <2> QED BY <2>1, <2>2
<1>8. \E f \in [D -> S] : \A s \in D : f[s] = T[<<s, f>>]
  <2> DEFINE N == Cardinality(1 .. n) + 1
  <2>1. N \in Nat /\ \A s \in D : rank[s] < N
    BY <1>4
  <2>2. \A s \in D : \A f, g \in [D -> S] :
          (\A y \in D : rank[y] < rank[s] => f[y] = g[y]) => T[<<s, f>>] = T[<<s, g>>]
    BY <1>7
  <2>3. rank \in [D -> Nat]
    BY <1>4
  <2>4. S # {}
    OBVIOUS
  <2> HIDE DEF T, D, rank, N
  <2>5. LowerOnly(D, S, rank, N, T)
    BY <1>6, <2>1, <2>2, <2>3, <2>4 DEF LowerOnly
  <2> QED BY <2>5, Recursion
<1>9. PICK f \in [D -> S] : \A s \in D : f[s] = T[<<s, f>>]
  BY <1>8
<1> HIDE DEF T
<1>10. \A s \in D : f[s] = IF s = {} THEN z ELSE U[<<f[s \ {Max(s)}], Max(s)>>]
  BY <1>5, <1>9
<1>11. FoldsBy(f, n, S, z, U)
  <2>1. {} \in D
    OBVIOUS
  <2> QED BY <1>10, <2>1 DEF FoldsBy
<1>12. \A s \in D : s # {} => f[s \ {Max(s)}] \in S /\ Max(s) \in 1 .. n
  BY <1>3, <1>9
<1> QED BY <1>9, <1>11, <1>12

\* What holds at the first stage and passes from one to the next holds at
\* each of them.
LEMMA Stages ==
    ASSUME NEW n \in Nat, NEW g, NEW S, g[0] \in S, \A k \in 1..n : g[k - 1] \in S => g[k] \in S
    PROVE  \A k \in 0..n : g[k] \in S
<1> DEFINE G == {k \in Nat : k <= n => g[k] \in S}
<1>1. 0 \in G
  OBVIOUS
<1>2. ASSUME NEW k \in Nat, k \in G PROVE k + 1 \in G
  <2>1. CASE k + 1 <= n
    <3>1. k + 1 \in 1..n /\ (k + 1) - 1 = k /\ g[k] \in S
      BY <1>2, <2>1
    <3>2. g[(k + 1) - 1] \in S
      BY <3>1
    <3> QED BY <3>1, <3>2
  <2> QED BY <2>1
<1>3. \A k \in Nat : k \in G
  <2> HIDE DEF G
  <2> QED BY <1>1, <1>2, NatSetInduction
<1> QED BY <1>3

\* h holds the stages of a fold: its value on the first k elements, for every
\* k.
StagesOf(h, f, n, S, z, U) ==
    /\ h \in [0 .. n -> S] /\ h[0] = z /\ f[1 .. n] = h[n]
    /\ \A k \in 1 .. n : h[k - 1] \in S /\ h[k] = U[<<h[k - 1], k>>]

\* A fold has stages, and the last one is its value.
LEMMA FoldStages ==
    ASSUME NEW f, NEW n, NEW S, NEW z, NEW U, FoldsBy(f, n, S, z, U)
    PROVE  \E h : StagesOf(h, f, n, S, z, U)
<1>0. n \in Nat /\ z \in S /\ U \in [S \X (1 .. n) -> S]
  BY DEF FoldsBy
<1> DEFINE h == [k \in 0 .. n |-> f[1 .. k]]
<1>1. h[0] = z
  <2>1. 1 .. 0 = {} /\ 0 \in 0 .. n
    BY <1>0
  <2> QED BY <2>1 DEF FoldsBy
<1>2. ASSUME NEW k \in 1 .. n, h[k - 1] \in S PROVE h[k] = U[<<h[k - 1], k>>] /\ h[k] \in S
  <2>1. /\ 1 .. k \in SUBSET (1 .. n) /\ 1 .. k # {} /\ Max(1 .. k) = k
        /\ (1 .. k) \ {k} = 1 .. (k - 1)
    BY <1>0, MaxIndex
  <2>2. h[k] = f[1 .. k] /\ h[k - 1] = f[1 .. (k - 1)]
    BY <1>0
  <2> DEFINE s == 1 .. k
  <2>3. s \in SUBSET (1 .. n) /\ s # {} /\ Max(s) = k /\ s \ {Max(s)} = 1 .. (k - 1)
    BY <2>1
  <2>4. h[k] = f[s] /\ h[k - 1] = f[s \ {Max(s)}]
    BY <2>2, <2>3
  <2> HIDE DEF h, s
  <2>5. f[s] = U[<<f[s \ {Max(s)}], Max(s)>>]
    BY <1>2, <2>3, <2>4 DEF FoldsBy
  <2> QED BY <1>0, <1>2, <2>3, <2>4, <2>5
<1>3. \A k \in 0 .. n : h[k] \in S
  <2> HIDE DEF h
  <2> QED BY <1>0, <1>1, <1>2, Stages
<1>4. \A k \in 1 .. n : h[k - 1] \in S
  <2> HIDE DEF h
  <2>1. \A k \in 1 .. n : k - 1 \in 0 .. n
    BY <1>0
  <2> QED BY <1>3, <2>1
<1>5. h \in [0 .. n -> S] /\ h[n] = f[1 .. n]
  BY <1>0, <1>3
<1> HIDE DEF h
<1> QED BY <1>1, <1>2, <1>4, <1>5 DEF StagesOf

\* Induction up to a bound.
LEMMA UpTo ==
    ASSUME NEW n \in Nat, NEW S, 0 \in S, \A k \in 1 .. n : k - 1 \in S => k \in S
    PROVE  \A k \in 0 .. n : k \in S
<1> DEFINE g == [k \in 0 .. n |-> k]
<1>1. g[0] \in S /\ \A k \in 1 .. n : g[k - 1] \in S => g[k] \in S
  OBVIOUS
<1>2. \A k \in 0 .. n : g[k] \in S
  <2> HIDE DEF g
  <2> QED BY <1>1, Stages
<1> QED BY <1>2
=============================================================================
