---------------------------- MODULE FileIds_proofs ----------------------------
(***************************************************************************)
(* Proofs about FileIds, for every set of paths and CUs and every number   *)
(* of workers and restarts:                                                *)
(*                                                                         *)
(*   TypeCorrect        Spec => []TypeOK                                   *)
(*                                                                         *)
(* and, for an operator who never mixes --cache-dir with --resume and      *)
(* starts over the shards of a killed run only with one of the two:        *)
(*                                                                         *)
(*   OneNamespace       Spec => []NamespaceInv                             *)
(*   XrefsNeverMoved    Spec => []XrefsKeepFile                            *)
(*   PublishedRanks     Spec => []IdsAreRanks                              *)
(*   RowsPublished      Spec => []FoldedPublished                          *)
(*                                                                         *)
(* First come the tables: what merging and renumbering do to them.  Then   *)
(* the two ways to fill a new allocator, then the steps: types, the        *)
(* namespace, the rows.                                                    *)
(***************************************************************************)
EXTENDS FileIds, Induction, SequenceTheorems

-----------------------------------------------------------------------------
(* Tables.                                                                 *)

\* Files tables: their ids are bounded.
IdSet   == UNION {SUBSET (0 .. n) : n \in Nat}
FileMap == UNION {[I -> Paths] : I \in IdSet}
Table   == [files : FileMap, xrefs : SUBSET (Paths \X Nat)]

\* What a table is made of.
LEMMA TableParts ==
    ASSUME NEW t \in Table
    PROVE  /\ DOMAIN t.files \in SUBSET Nat
           /\ \E n \in Nat : \A i \in DOMAIN t.files : i <= n
           /\ t.files \in [DOMAIN t.files -> Paths]
           /\ \A i \in DOMAIN t.files : t.files[i] \in Paths
           /\ t.xrefs \in SUBSET (Paths \X Nat)
           /\ \A x \in t.xrefs : x[1] \in Paths /\ x[2] \in Nat
<1>1. PICK I \in IdSet : t.files \in [I -> Paths]
  BY DEF Table, FileMap
<1>2. PICK n \in Nat : I \in SUBSET (0 .. n)
  BY DEF IdSet
<1>3. t.xrefs \in SUBSET (Paths \X Nat)
  BY DEF Table
<1>4. DOMAIN t.files = I /\ I \in SUBSET Nat /\ \A i \in I : i <= n
  BY <1>1, <1>2
<1>5. \A x \in t.xrefs : x[1] \in Paths /\ x[2] \in Nat
  BY <1>3
<1> QED BY <1>1, <1>3, <1>4, <1>5

\* A bounded function from ids to paths is a files table.
LEMMA FileMapIntro ==
    ASSUME NEW I \in SUBSET Nat, NEW n \in Nat, \A i \in I : i <= n,
           NEW f \in [I -> Paths]
    PROVE  f \in FileMap
<1>1. I \in SUBSET (0 .. n)
  OBVIOUS
<1>2. I \in IdSet
  BY <1>1 DEF IdSet
<1> QED BY <1>2 DEF FileMap

\* A table without files and xrefs is sound and agrees with any allocator.
LEMMA EmptyTable ==
    /\ NoTable \in Table /\ Sound(NoTable) /\ \A m : Agrees(NoTable, m)
    /\ Reached(NoTable) = {}
<1>1. NoFiles \in [{} -> Paths] /\ DOMAIN NoFiles = {}
  BY DEF NoFiles
<1>2. NoFiles \in FileMap
  BY <1>1, FileMapIntro
<1>3. NoTable.files = NoFiles /\ NoTable.xrefs = {}
  BY DEF NoTable
<1>4. NoTable \in Table
  BY <1>2 DEF NoTable, Table
<1> QED BY <1>1, <1>3, <1>4 DEF Sound, Agrees, Reached

\* Finitely many tables have one bound for their ids.
LEMMA UniformBound ==
    ASSUME NEW b \in Nat, NEW T, DOMAIN T \in SUBSET (0 .. b),
           \A k \in DOMAIN T : T[k] \in Table
    PROVE  \E n \in Nat : \A k \in DOMAIN T : \A i \in DOMAIN T[k].files : i <= n
<1> DEFINE Bd(m, n) == \A k \in DOMAIN T : k < m => \A i \in DOMAIN T[k].files : i <= n
           S == {m \in Nat : \E n \in Nat : Bd(m, n)}
<1>1. 0 \in S
  <2>1. Bd(0, 0)
    OBVIOUS
  <2> QED BY <2>1
<1>2. ASSUME NEW m \in Nat, m \in S
      PROVE  m + 1 \in S
  <2>1. PICK n \in Nat : Bd(m, n)
    BY <1>2
  <2>2. CASE m \in DOMAIN T
    <3>1. PICK q \in Nat : \A i \in DOMAIN T[m].files : i <= q
      BY <2>2, TableParts
    <3>2. n + q \in Nat
      OBVIOUS
    <3>3. Bd(m + 1, n + q)
      <4> SUFFICES ASSUME NEW k \in DOMAIN T, k < m + 1, NEW i \in DOMAIN T[k].files
                   PROVE  i <= n + q
        OBVIOUS
      <4>1. i \in Nat
        BY TableParts
      <4>2. CASE k = m
        BY <3>1, <4>1, <4>2
      <4>3. CASE k < m
        BY <2>1, <4>1, <4>3
      <4> QED BY <4>2, <4>3
    <3> HIDE DEF Bd
    <3> QED BY <3>2, <3>3
  <2>3. CASE m \notin DOMAIN T
    <3>1. Bd(m + 1, n)
      BY <2>1, <2>3
    <3> HIDE DEF Bd
    <3> QED BY <3>1
  <2> QED BY <2>2, <2>3
<1>3. b + 1 \in S
  <2> HIDE DEF S
  <2> QED BY <1>1, <1>2, NatSetInduction
<1>4. PICK n \in Nat : Bd(b + 1, n)
  BY <1>3
<1>5. \A k \in DOMAIN T : k < b + 1
  OBVIOUS
<1> QED BY <1>4, <1>5

\* What a merge holds: all ids and all xrefs of its members, and for an id a
\* path some member has for it.
LEMMA MergeParts ==
    ASSUME NEW b \in Nat, NEW T, DOMAIN T \in SUBSET (0 .. b),
           \A k \in DOMAIN T : T[k] \in Table
    PROVE  /\ Merge(T) \in Table
           /\ Merge(T).xrefs = UNION {T[k].xrefs : k \in DOMAIN T}
           /\ \A k \in DOMAIN T : DOMAIN T[k].files \subseteq DOMAIN Merge(T).files
           /\ \A i \in DOMAIN Merge(T).files : \E k \in DOMAIN T :
                 i \in DOMAIN T[k].files /\ Merge(T).files[i] = T[k].files[i]
<1> DEFINE I == UNION {DOMAIN T[k].files : k \in DOMAIN T}
           F == [i \in I |-> T[FirstWith(T, i)].files[i]]
<1>1. I \in SUBSET Nat
  BY TableParts
<1>2. ASSUME NEW i \in I
      PROVE  FirstWith(T, i) \in DOMAIN T /\ i \in DOMAIN T[FirstWith(T, i)].files
  <2> DEFINE K == {k \in DOMAIN T : i \in DOMAIN T[k].files}
  <2>1. K \in SUBSET Nat /\ K # {}
    OBVIOUS
  <2>2. PICK m \in K : \A n \in K : m <= n
    BY <2>1, LeastNat
  <2>3. \A j \in DOMAIN T : j < m => i \notin DOMAIN T[j].files
    BY <2>2
  <2> QED BY <2>2, <2>3 DEF FirstWith
<1>3. F \in [I -> Paths]
  BY <1>2, TableParts
<1>4. UNION {T[k].xrefs : k \in DOMAIN T} \in SUBSET (Paths \X Nat)
  BY TableParts
<1>5. Merge(T) = [files |-> F, xrefs |-> UNION {T[k].xrefs : k \in DOMAIN T}]
  BY DEF Merge
<1>6. Merge(T) \in Table
  <2>1. F \in FileMap
    <3>1. PICK n \in Nat : \A k \in DOMAIN T : \A i \in DOMAIN T[k].files : i <= n
      BY UniformBound
    <3>2. \A i \in I : i <= n
      BY <3>1
    <3> HIDE DEF I, F
    <3> QED BY <1>1, <1>3, <3>2, FileMapIntro
  <2> HIDE DEF F
  <2> QED BY <1>4, <1>5, <2>1 DEF Table
<1>7. DOMAIN Merge(T).files = I /\ \A i \in I : Merge(T).files[i] = F[i]
  BY <1>5
<1> QED BY <1>2, <1>5, <1>6, <1>7

\* A merge of sound tables of one allocator is a sound table of it.
LEMMA MergeKeeps ==
    ASSUME NEW m, NEW b \in Nat, NEW T, DOMAIN T \in SUBSET (0 .. b),
           \A k \in DOMAIN T : T[k] \in Table /\ Sound(T[k]) /\ Agrees(T[k], m),
           OneToOne(m)
    PROVE  Merge(T) \in Table /\ Sound(Merge(T)) /\ Agrees(Merge(T), m)
<1>1. Merge(T) \in Table
  BY MergeParts
<1>2. Agrees(Merge(T), m)
  BY MergeParts DEF Agrees
<1>3. Sound(Merge(T))
  <2> SUFFICES ASSUME NEW x \in Merge(T).xrefs
               PROVE  x[2] \in DOMAIN Merge(T).files /\ Merge(T).files[x[2]] = x[1]
    BY DEF Sound
  <2>1. PICK k \in DOMAIN T : x \in T[k].xrefs
    BY MergeParts
  <2>2. x[2] \in DOMAIN T[k].files /\ T[k].files[x[2]] = x[1]
    BY <2>1 DEF Sound
  <2>3. x[2] \in DOMAIN Merge(T).files
    BY <2>2, MergeParts
  <2>4. x[1] \in DOMAIN m /\ m[x[1]] = x[2]
    BY <2>2 DEF Agrees
  <2>5. Merge(T).files[x[2]] \in DOMAIN m /\ m[Merge(T).files[x[2]]] = x[2]
    BY <1>2, <2>3 DEF Agrees
  <2> QED BY <2>3, <2>4, <2>5 DEF OneToOne
<1> QED BY <1>1, <1>2, <1>3

\* The same for a merge of two tables.
LEMMA PairTyped ==
    ASSUME NEW s \in Table, NEW t \in Table
    PROVE  /\ Merge(<<s, t>>) \in Table
           /\ Merge(<<s, t>>).xrefs = s.xrefs \cup t.xrefs
           /\ Reached(Merge(<<s, t>>)) = Reached(s) \cup Reached(t)
           /\ DOMAIN t.files \subseteq DOMAIN Merge(<<s, t>>).files
<1> DEFINE T == <<s, t>>
<1>1. DOMAIN T = {1, 2} /\ T[1] = s /\ T[2] = t
  OBVIOUS
<1>2. DOMAIN T \in SUBSET (0 .. 2)
  BY <1>1
<1>3. \A k \in DOMAIN T : T[k] \in Table
  BY <1>1
<1> HIDE DEF T
<1>4. /\ Merge(T) \in Table
      /\ Merge(T).xrefs = UNION {T[k].xrefs : k \in DOMAIN T}
      /\ \A k \in DOMAIN T : DOMAIN T[k].files \subseteq DOMAIN Merge(T).files
  BY <1>2, <1>3, MergeParts
<1>5. Merge(T).xrefs = s.xrefs \cup t.xrefs
  BY <1>1, <1>4
<1>6. DOMAIN t.files \subseteq DOMAIN Merge(T).files
  BY <1>1, <1>4
<1>7. Reached(Merge(T)) = Reached(s) \cup Reached(t)
  BY <1>5 DEF Reached
<1> QED BY <1>4, <1>5, <1>6, <1>7 DEF T

\* merge_from of two tables that agree with one allocator agrees with it too.
LEMMA PairKeeps ==
    ASSUME NEW m, NEW s \in Table, Sound(s), Agrees(s, m),
           NEW t \in Table, Sound(t), Agrees(t, m),
           OneToOne(m)
    PROVE  Sound(Merge(<<s, t>>)) /\ Agrees(Merge(<<s, t>>), m)
<1> DEFINE T == <<s, t>>
<1>1. DOMAIN T = {1, 2} /\ T[1] = s /\ T[2] = t
  OBVIOUS
<1>2. DOMAIN T \in SUBSET (0 .. 2)
  BY <1>1
<1>3. \A k \in DOMAIN T : T[k] \in Table /\ Sound(T[k]) /\ Agrees(T[k], m)
  BY <1>1
<1> HIDE DEF T
<1>4. Sound(Merge(T)) /\ Agrees(Merge(T), m)
  BY <1>2, <1>3, MergeKeeps
<1> QED BY <1>4 DEF T

\* An allocator that only grew still agrees.
LEMMA AgreesGrows ==
    ASSUME NEW t, NEW m, NEW n, Agrees(t, m),
           DOMAIN m \subseteq DOMAIN n, \A p \in DOMAIN m : n[p] = m[p]
    PROVE  Agrees(t, n)
BY DEF Agrees

\* Upserting files leaves the xrefs alone.
LEMMA UpsertTyped ==
    ASSUME NEW t \in Table, NEW g \in FileMap
    PROVE  /\ Upsert(t, g) \in Table
           /\ Upsert(t, g).xrefs = t.xrefs
           /\ Reached(Upsert(t, g)) = Reached(t)
           /\ DOMAIN g \subseteq DOMAIN Upsert(t, g).files
<1> DEFINE G == [files |-> g, xrefs |-> {}]
<1>1. G \in Table /\ G.files = g /\ G.xrefs = {}
  BY DEF Table
<1> HIDE DEF G
<1>2. /\ Merge(<<t, G>>) \in Table
      /\ Merge(<<t, G>>).xrefs = t.xrefs \cup G.xrefs
      /\ DOMAIN G.files \subseteq DOMAIN Merge(<<t, G>>).files
  BY <1>1, PairTyped
<1>3. Upsert(t, g) = Merge(<<t, G>>)
  BY DEF Upsert, G
<1>4. Upsert(t, g).xrefs = t.xrefs
  BY <1>1, <1>2, <1>3
<1> QED BY <1>1, <1>2, <1>3, <1>4 DEF Reached

\* Upserting entries of the allocator keeps a table sound and in agreement.
LEMMA UpsertKeeps ==
    ASSUME NEW m, OneToOne(m), NEW t \in Table, Sound(t), Agrees(t, m),
           NEW g \in FileMap, \A i \in DOMAIN g : g[i] \in DOMAIN m /\ m[g[i]] = i
    PROVE  Sound(Upsert(t, g)) /\ Agrees(Upsert(t, g), m)
<1> DEFINE G == [files |-> g, xrefs |-> {}]
<1>1. G \in Table /\ G.files = g /\ G.xrefs = {}
  BY DEF Table
<1>2. Sound(G) /\ Agrees(G, m)
  BY DEF Sound, Agrees
<1> HIDE DEF G
<1>3. Sound(Merge(<<t, G>>)) /\ Agrees(Merge(<<t, G>>), m)
  BY <1>1, <1>2, PairKeeps
<1>4. Upsert(t, g) = Merge(<<t, G>>)
  BY DEF Upsert, G
<1> QED BY <1>3, <1>4

\* Renumbering by a map num that gives no id twice: the paths num knows keep
\* their xrefs, under the new ids.
LEMMA RenumberTyped ==
    ASSUME NEW t \in Table, NEW S \in SUBSET Paths, NEW num \in [S -> Nat],
           NEW n \in Nat, \A p \in S : num[p] <= n
    PROVE  /\ Renumber(t, num) \in Table
           /\ \A i \in DOMAIN Renumber(t, num).files :
                 /\ Renumber(t, num).files[i] \in S
                 /\ num[Renumber(t, num).files[i]] = i
<1> DEFINE kept == {i \in DOMAIN t.files : t.files[i] \in DOMAIN num}
           P == {t.files[i] : i \in kept}
           J == {num[t.files[i]] : i \in kept}
           F == [j \in J |-> CHOOSE p \in P : num[p] = j]
           X == {<<x[1], num[t.files[x[2]]]>> : x \in {y \in t.xrefs : y[2] \in kept}}
<1>1. \A i \in kept : t.files[i] \in S /\ num[t.files[i]] \in Nat /\ num[t.files[i]] <= n
  OBVIOUS
<1>2. J \in SUBSET Nat /\ \A j \in J : j <= n
  BY <1>1
<1>3. P \in SUBSET S /\ P \in SUBSET Paths
  BY <1>1
<1>4. \A j \in J : \E p \in P : num[p] = j
  OBVIOUS
<1>5. \A j \in J : F[j] \in P /\ num[F[j]] = j
  <2> SUFFICES ASSUME NEW j \in J PROVE F[j] \in P /\ num[F[j]] = j
    OBVIOUS
  <2>1. F[j] = CHOOSE p \in P : num[p] = j
    OBVIOUS
  <2>2. \E p \in P : num[p] = j
    BY <1>4
  <2> HIDE DEF P, J, F
  <2> QED BY <2>1, <2>2
<1>6. F \in [J -> Paths]
  <2>1. F = [j \in J |-> F[j]]
    OBVIOUS
  <2> HIDE DEF P, J, F
  <2> QED BY <1>3, <1>5, <2>1
<1>7. F \in FileMap
  <2> HIDE DEF J, F
  <2> QED BY <1>2, <1>6, FileMapIntro
<1>8. X \in SUBSET (Paths \X Nat)
  <2>1. \A x \in t.xrefs : x[1] \in Paths
    BY TableParts
  <2> QED BY <1>1, <2>1
<1>9. Renumber(t, num) = [files |-> F, xrefs |-> X]
  BY DEF Renumber
<1>10. DOMAIN F = J
  OBVIOUS
<1> HIDE DEF kept, P, J, F, X
<1>11. Renumber(t, num) \in Table
  BY <1>7, <1>8, <1>9 DEF Table
<1> QED BY <1>3, <1>5, <1>9, <1>10, <1>11

\* A remapped table agrees with the new numbers and keeps the xrefs of the paths they name.
LEMMA RenumberKeeps ==
    ASSUME NEW t \in Table, NEW S \in SUBSET Paths, NEW num \in [S -> Nat],
           NEW n \in Nat, \A p \in S : num[p] <= n, OneToOne(num), Sound(t)
    PROVE  /\ Sound(Renumber(t, num)) /\ Agrees(Renumber(t, num), num)
           /\ Reached(Renumber(t, num)) = Reached(t) \cap S
<1> DEFINE r == Renumber(t, num)
           kept == {i \in DOMAIN t.files : t.files[i] \in DOMAIN num}
<1>1. Agrees(r, num)
  BY RenumberTyped DEF Agrees
<1>2. /\ DOMAIN r.files = {num[t.files[i]] : i \in kept}
      /\ r.xrefs = {<<x[1], num[t.files[x[2]]]>> : x \in {y \in t.xrefs : y[2] \in kept}}
  BY DEF Renumber
<1>3. \A y \in t.xrefs : /\ y[2] \in DOMAIN t.files /\ t.files[y[2]] = y[1]
                         /\ y[2] \in kept <=> y[1] \in S
  BY DEF Sound
<1>4. ASSUME NEW x \in r.xrefs
      PROVE  \E y \in t.xrefs : /\ y[1] \in S /\ x[1] = y[1] /\ x[2] = num[y[1]]
                                /\ x[2] \in DOMAIN r.files
  BY <1>2, <1>3
<1>5. Sound(r)
  <2> SUFFICES ASSUME NEW x \in r.xrefs
               PROVE  x[2] \in DOMAIN r.files /\ r.files[x[2]] = x[1]
    BY DEF Sound
  <2>1. x[1] \in S /\ x[2] = num[x[1]] /\ x[2] \in DOMAIN r.files
    BY <1>4
  <2>2. r.files[x[2]] \in S /\ num[r.files[x[2]]] = x[2]
    BY <1>1, <2>1 DEF Agrees
  <2> HIDE DEF r
  <2> QED BY <2>1, <2>2 DEF OneToOne
<1>6. ASSUME NEW y \in t.xrefs, y[1] \in S
      PROVE  \E x \in r.xrefs : x[1] = y[1]
  <2>1. <<y[1], num[t.files[y[2]]]>> \in r.xrefs
    BY <1>2, <1>3, <1>6
  <2> QED BY <2>1
<1> HIDE DEF r, kept
<1>7. Reached(r) \subseteq Reached(t) \cap S
  BY <1>4 DEF Reached
<1>8. Reached(t) \cap S \subseteq Reached(r)
  BY <1>6 DEF Reached
<1> QED BY <1>1, <1>5, <1>7, <1>8 DEF r

-----------------------------------------------------------------------------
(* A new allocator.                                                        *)

IdMap == UNION {[P -> Nat] : P \in SUBSET Paths}

\* seed_paths: ranks are dense and no two paths share one.
LEMMA RanksFresh ==
    ASSUME NEW S \in SUBSET Paths
    PROVE  /\ Ranks(S) \in IdMap /\ Ranks(S) \in [S -> Nat] /\ DOMAIN Ranks(S) = S
           /\ Cardinality(S) \in Nat
           /\ OneToOne(Ranks(S))
           /\ \A p \in S : Ranks(S)[p] < Cardinality(S)
<1> DEFINE Below(p) == {q \in S : q < p}
<1>0. S \in SUBSET Nat /\ IsFiniteSet(S)
  BY PathsAssumption, FS_Subset
<1>1. Cardinality(S) \in Nat
  BY <1>0, FS_CardinalityType
<1>2. ASSUME NEW p \in S
      PROVE  /\ Cardinality(Below(p)) \in Nat
             /\ Cardinality(Below(p)) < Cardinality(S)
  <2>1. Below(p) \in SUBSET S /\ p \notin Below(p)
    BY <1>0
  <2>2. IsFiniteSet(Below(p)) /\ Cardinality(Below(p)) <= Cardinality(S)
    BY <1>0, <2>1, FS_Subset
  <2>3. Cardinality(S) # Cardinality(Below(p))
    BY <1>0, <2>1, FS_Subset
  <2>4. Cardinality(Below(p)) \in Nat
    BY <2>2, FS_CardinalityType
  <2> HIDE DEF Below
  <2> QED BY <1>1, <2>2, <2>3, <2>4
<1>3. ASSUME NEW p \in S, NEW q \in S, p < q
      PROVE  Cardinality(Below(p)) # Cardinality(Below(q))
  <2>0. ~ (p < p) /\ \A r \in S : r < p => r < q
    BY <1>0, <1>3
  <2>1. Below(p) \in SUBSET Below(q) /\ p \in Below(q) /\ p \notin Below(p)
    BY <1>3, <2>0
  <2>2. IsFiniteSet(Below(q))
    <3>1. Below(q) \in SUBSET S
      OBVIOUS
    <3> QED BY <1>0, <3>1, FS_Subset
  <2> QED BY <2>1, <2>2, FS_Subset
<1>4. Ranks(S) = [p \in S |-> Cardinality(Below(p))]
  BY DEF Ranks
<1> HIDE DEF Below
<1>5. Ranks(S) \in [S -> Nat]
  BY <1>2, <1>4
<1>6. OneToOne(Ranks(S))
  <2> SUFFICES ASSUME NEW p \in S, NEW q \in S, Ranks(S)[p] = Ranks(S)[q]
               PROVE  p = q
    BY <1>4 DEF OneToOne
  <2>1. Cardinality(Below(p)) = Cardinality(Below(q))
    BY <1>4
  <2>2. ~ (p < q) /\ ~ (q < p)
    BY <1>3, <2>1
  <2> QED BY <1>0, <2>2
<1>7. \A p \in S : Ranks(S)[p] < Cardinality(S)
  BY <1>2, <1>4
<1>8. Ranks(S) \in IdMap
  BY <1>5 DEF IdMap
<1> QED BY <1>1, <1>4, <1>5, <1>6, <1>7, <1>8

\* The listings seed_from chooses among.
SeedPathsOf == UNION {PathsOf(shards[k]) : k \in DOMAIN shards}
UsedIds     == UNION {DOMAIN shards[k].files : k \in DOMAIN shards}

\* The shards of a sequence have one bound for their ids.
LEMMA ShardsFamily ==
    ASSUME NEW s \in Seq(Table)
    PROVE  /\ DOMAIN s = 1 .. Len(s) /\ Len(s) \in Nat
           /\ DOMAIN s \in SUBSET (0 .. Len(s)) /\ DOMAIN s \in SUBSET Nat
           /\ \A k \in DOMAIN s : s[k] \in Table
<1>1. DOMAIN s = 1 .. Len(s) /\ Len(s) \in Nat
  OBVIOUS
<1>2. \A k \in DOMAIN s : s[k] \in Table
  OBVIOUS
<1> QED BY <1>1, <1>2

\* seed_from over the shards: every path they list gets an id one of them
\* lists it under, and the next id is above all ids in use.
LEMMA SeededTyped ==
    ASSUME shards \in Seq(Table)
    PROVE  /\ DOMAIN SeededIds = SeedPathsOf
           /\ SeededIds \in IdMap
           /\ SeededNext \in Nat
           /\ \A p \in DOMAIN SeededIds : SeededIds[p] < SeededNext
           /\ \A p \in SeedPathsOf :
                 \E k \in DOMAIN shards : \E i \in DOMAIN shards[k].files :
                    shards[k].files[i] = p /\ SeededIds[p] = i
<1> DEFINE C == {0} \cup {i + 1 : i \in UsedIds}
<1>0. DOMAIN shards \in SUBSET Nat /\ \A k \in DOMAIN shards : shards[k] \in Table
  BY ShardsFamily
<1>1. UsedIds \in SUBSET Nat
  BY <1>0, TableParts DEF UsedIds
<1>2. SeededNext \in C /\ \A i \in UsedIds : i < SeededNext
  <2>1. \E n \in C : \A i \in UsedIds : i < n
    <3>1. PICK n \in Nat : \A k \in DOMAIN shards :
                              \A i \in DOMAIN shards[k].files : i <= n
      BY ShardsFamily, UniformBound
    <3>2. ASSUME NEW i \in UsedIds PROVE i < n + 1
      <4>1. PICK k \in DOMAIN shards : i \in DOMAIN shards[k].files
        BY DEF UsedIds
      <4>2. i <= n /\ i \in Nat
        BY <1>1, <3>1, <4>1
      <4> QED BY <4>2
    <3>3. n + 1 \in Nat
      OBVIOUS
    <3> QED BY <1>1, <3>2, <3>3, LeastBound
  <2>2. SeededNext = CHOOSE n \in C : \A i \in UsedIds : i < n
    BY DEF SeededNext, UsedIds
  <2> HIDE DEF C
  <2> QED BY <2>1, <2>2
<1>3. SeededNext \in Nat
  <2>1. C \subseteq Nat
    BY <1>1
  <2> HIDE DEF C
  <2> QED BY <1>2, <2>1
<1>4. ASSUME NEW p \in SeedPathsOf
      PROVE  \E k \in DOMAIN shards : \E i \in DOMAIN shards[k].files :
                shards[k].files[i] = p /\ SeededIds[p] = i
  <2>1. FirstListing(p) \in DOMAIN shards /\ p \in PathsOf(shards[FirstListing(p)])
    <3> DEFINE K == {k \in DOMAIN shards : p \in PathsOf(shards[k])}
    <3>1. K \in SUBSET Nat /\ K # {}
      BY <1>0 DEF SeedPathsOf
    <3>2. PICK m \in K : \A n \in K : m <= n
      BY <3>1, LeastNat
    <3>3. \A j \in 1 .. m - 1 : j \in DOMAIN shards /\ ~ (m <= j)
      BY <3>2
    <3>4. \A j \in 1 .. m - 1 : p \notin PathsOf(shards[j])
      BY <3>2, <3>3
    <3> QED BY <3>2, <3>4 DEF FirstListing
  <2> DEFINE f == shards[FirstListing(p)].files
             Q(i) == f[i] = p /\ \A j \in DOMAIN f : f[j] = p => i <= j
  <2>2. \E i \in DOMAIN f : Q(i)
    <3> DEFINE J == {j \in DOMAIN f : f[j] = p}
    <3>1. J \in SUBSET Nat /\ J # {}
      BY <1>0, <2>1, TableParts DEF PathsOf
    <3>2. PICK m \in J : \A n \in J : m <= n
      BY <3>1, LeastNat
    <3> QED BY <3>2
  <2>3. SeededIds[p] = CHOOSE i \in DOMAIN f : Q(i)
    BY DEF SeededIds, SeedPathsOf
  <2>4. SeededIds[p] \in DOMAIN f /\ Q(SeededIds[p])
    BY <2>2, <2>3
  <2> QED BY <2>1, <2>4
<1>5. DOMAIN SeededIds = SeedPathsOf /\ SeededIds = [p \in SeedPathsOf |-> SeededIds[p]]
  BY DEF SeededIds, SeedPathsOf
<1>6. ASSUME NEW p \in SeedPathsOf
      PROVE  SeededIds[p] \in UsedIds /\ SeededIds[p] < SeededNext
  BY <1>2, <1>4 DEF UsedIds
<1>7. SeedPathsOf \in SUBSET Paths
  BY <1>0, TableParts DEF SeedPathsOf, PathsOf
<1>8. SeededIds \in [SeedPathsOf -> Nat]
  BY <1>1, <1>5, <1>6
<1>9. SeededIds \in IdMap
  BY <1>7, <1>8 DEF IdMap
<1> QED BY <1>3, <1>4, <1>5, <1>6, <1>9

\* When the shards are one namespace the new allocator continues it: it agrees
\* with every shard and no two paths share an id.
LEMMA SeededContinues ==
    ASSUME shards \in Seq(Table), OneSpace(shards)
    PROVE  /\ OneToOne(SeededIds)
           /\ \A k \in DOMAIN shards : Agrees(shards[k], SeededIds)
<1>1. DOMAIN SeededIds = SeedPathsOf
  BY SeededTyped
<1>2. ASSUME NEW k \in DOMAIN shards PROVE Agrees(shards[k], SeededIds)
  <2> SUFFICES ASSUME NEW i \in DOMAIN shards[k].files
               PROVE  /\ shards[k].files[i] \in DOMAIN SeededIds
                      /\ SeededIds[shards[k].files[i]] = i
    BY DEF Agrees
  <2>1. shards[k].files[i] \in SeedPathsOf
    BY DEF SeedPathsOf, PathsOf
  <2>2. \E l \in DOMAIN shards : \E j \in DOMAIN shards[l].files :
           shards[l].files[j] = shards[k].files[i] /\ SeededIds[shards[k].files[i]] = j
    BY <2>1, SeededTyped
  <2>3. SeededIds[shards[k].files[i]] = i
    BY <2>2 DEF OneSpace
  <2> QED BY <1>1, <2>1, <2>3
<1>3. OneToOne(SeededIds)
  <2> SUFFICES ASSUME NEW p \in SeedPathsOf, NEW q \in SeedPathsOf,
                      SeededIds[p] = SeededIds[q]
               PROVE  p = q
    BY <1>1 DEF OneToOne
  <2>1. PICK k \in DOMAIN shards : \E i \in DOMAIN shards[k].files :
           shards[k].files[i] = p /\ SeededIds[p] = i
    BY SeededTyped
  <2>2. PICK l \in DOMAIN shards : \E j \in DOMAIN shards[l].files :
           shards[l].files[j] = q /\ SeededIds[q] = j
    BY SeededTyped
  <2>3. /\ SeededIds[p] \in DOMAIN shards[k].files
        /\ SeededIds[p] \in DOMAIN shards[l].files
        /\ shards[k].files[SeededIds[p]] = p
        /\ shards[l].files[SeededIds[p]] = q
    BY <2>1, <2>2
  <2> QED BY <2>3 DEF OneSpace
<1> QED BY <1>2, <1>3

\* Sound tables that agree with one allocator speak of one namespace.
LEMMA AgreeingTables ==
    ASSUME NEW T, NEW m, \A k \in DOMAIN T : Sound(T[k]) /\ Agrees(T[k], m),
           OneToOne(m)
    PROVE  OneSpace(T)
BY DEF OneSpace, Agrees, OneToOne

\* localize_file_ids and populate_from_shard_remapped: whatever ids a sound
\* shard had, it gets those of the ranks and stays sound.
LEMMA RankedTyped ==
    ASSUME NEW t \in Table, NEW S \in SUBSET Paths
    PROVE  Renumber(t, Ranks(S)) \in Table
<1>1. Ranks(S) \in [S -> Nat] /\ Cardinality(S) \in Nat
      /\ \A p \in S : Ranks(S)[p] <= Cardinality(S)
  BY RanksFresh
<1> QED BY <1>1, RenumberTyped

\* So does a shard renumbered by the ranks of the seed.
LEMMA RankedKeeps ==
    ASSUME NEW t \in Table, NEW S \in SUBSET Paths, Sound(t)
    PROVE  /\ Sound(Renumber(t, Ranks(S))) /\ Agrees(Renumber(t, Ranks(S)), Ranks(S))
           /\ Reached(Renumber(t, Ranks(S))) = Reached(t) \cap S
<1>1. Ranks(S) \in [S -> Nat] /\ Cardinality(S) \in Nat /\ OneToOne(Ranks(S))
      /\ \A p \in S : Ranks(S)[p] <= Cardinality(S)
  BY RanksFresh
<1> QED BY <1>1, RenumberKeeps

\* A sound table has a file for every path it has an xref for.
LEMMA LocalizeKeeps ==
    ASSUME NEW t \in Table
    PROVE  /\ Localize(t) \in Table
           /\ Sound(t) => Sound(Localize(t)) /\ Reached(Localize(t)) = Reached(t)
<1>1. PathsOf(t) \in SUBSET Paths
  BY TableParts DEF PathsOf
<1>2. Localize(t) \in Table
  BY <1>1, RankedTyped DEF Localize
<1>3. ASSUME Sound(t)
      PROVE  Sound(Localize(t)) /\ Reached(Localize(t)) = Reached(t)
  <2>1. Reached(t) \subseteq PathsOf(t)
    BY <1>3 DEF Reached, Sound, PathsOf
  <2>2. Sound(Localize(t)) /\ Reached(Localize(t)) = Reached(t) \cap PathsOf(t)
    BY <1>1, <1>3, RankedKeeps DEF Localize
  <2> QED BY <2>1, <2>2
<1> QED BY <1>2, <1>3

-----------------------------------------------------------------------------
(* Types.                                                                  *)

\* Types of everything that is no table and no id.
PlanShape ==
    /\ kzip \in SUBSET CUs /\ plan \in SUBSET CUs /\ folded \in SUBSET CUs
    /\ shas \in SUBSET CUs /\ committed \in SUBSET CUs /\ staged \in SUBSET CUs
    /\ pending \in [Worker -> SUBSET CUs] /\ cu \in [Worker -> CUs \cup {NoCU}]
    /\ left \in [Worker -> SUBSET Paths] /\ seed \in SUBSET Paths

AllocShape ==
    /\ ids \in IdMap /\ nextId \in Nat /\ accessed \in SUBSET DOMAIN ids
    /\ \A p \in DOMAIN ids : ids[p] < nextId
    /\ phase = "off" => accessed = {}

CacheMap == UNION {[C -> Table] : C \in SUBSET CUs}

TableShape ==
    /\ shards \in Seq(Table) /\ cached \in CacheMap
    /\ own \in [Worker -> Table] /\ sink \in [Worker -> Table]
    /\ merging \in Table /\ out \in Table

Shape == PlanShape /\ AllocShape /\ TableShape

\* The shapes imply the type invariant.
LEMMA ShapeIsType == Shape => TypeOK
<1> SUFFICES ASSUME Shape PROVE TypeOK
  OBVIOUS
<1>1. /\ \A k \in DOMAIN shards : shards[k] \in Table
      /\ \A w \in Worker : own[w] \in Table /\ sink[w] \in Table
      /\ merging \in Table /\ out \in Table
  BY DEF Shape, TableShape
<1>2. \A t \in Table : IsTable(t)
  BY TableParts DEF IsTable
<1>3. /\ \A k \in DOMAIN shards : IsTable(shards[k])
      /\ \A w \in Worker : IsTable(own[w]) /\ IsTable(sink[w])
      /\ IsTable(merging) /\ IsTable(out)
  BY <1>1, <1>2
<1>4. DOMAIN ids \subseteq Paths /\ \A p \in DOMAIN ids : ids[p] \in Nat
  BY DEF Shape, AllocShape, IdMap
<1>5. nextId \in Nat /\ accessed \subseteq DOMAIN ids
  BY DEF Shape, AllocShape
<1> QED BY <1>3, <1>4, <1>5 DEF Shape, PlanShape, TypeOK

\* Plans, checkpoints and what workers still have to read stay in type.
LEMMA PlanStep ==
    ASSUME PlanShape, [Next]_vars
    PROVE  PlanShape'
<1> USE DEF PlanShape
<1>1. ASSUME NEW m \in Modes, Start(m) PROVE PlanShape'
  <2>1. SeedPaths(kzip) \in SUBSET Paths
    BY PathsAssumption, PerCUAssumption DEF SeedPaths
  <2>2. seed' \in SUBSET Paths
    BY <1>1, <2>1 DEF Start
  <2>3. /\ plan' \in SUBSET CUs /\ folded' \in SUBSET CUs
        /\ committed' \in SUBSET CUs
    BY <1>1 DEF Start
  <2> QED BY <1>1, <2>2, <2>3 DEF Start, disk, workers
<1>2. CASE Discard
  BY <1>2 DEF Discard, workers, run
<1>3. CASE ReplaceKzip
  BY <1>3, KzipsAssumption DEF ReplaceKzip, disk, workers, run
<1>4. CASE Crash
  BY <1>4 DEF Crash, Exit, disk
<1>5. ASSUME NEW w \in Worker, Take(w) PROVE PlanShape'
  BY <1>5, PerCUAssumption DEF Take, disk
<1>6. ASSUME NEW w \in Worker, Intern(w) PROVE PlanShape'
  BY <1>6 DEF Intern, disk, run
<1>16. ASSUME NEW w \in Worker, Reuse(w) PROVE PlanShape'
  BY <1>16 DEF Reuse, workers
<1>7. ASSUME NEW w \in Worker, Fail(w) PROVE PlanShape'
  BY <1>7 DEF Fail, disk, run
<1>8. ASSUME NEW w \in Worker, Fold(w) PROVE PlanShape'
  BY <1>8 DEF Fold
<1>9. ASSUME NEW w \in Worker, NEW D \in SUBSET Worker, Snapshot(w, D)
      PROVE  PlanShape'
  BY <1>9 DEF Snapshot
<1>10. CASE WriteShas
  BY <1>10 DEF WriteShas, workers
<1>11. CASE MergeGlobal
  BY <1>11 DEF MergeGlobal, disk, workers
<1>12. CASE Coalesce
  BY <1>12 DEF Coalesce, workers
<1>13. CASE Promote
  BY <1>13 DEF Promote, workers
<1>14. CASE Sweep
  BY <1>14 DEF Sweep, Exit
<1>15. CASE UNCHANGED vars
  BY <1>15 DEF vars, disk, workers, run
<1> QED
  BY <1>1, <1>2, <1>3, <1>4, <1>5, <1>6, <1>7, <1>8, <1>9, <1>10, <1>11,
     <1>12, <1>13, <1>14, <1>15, <1>16 DEF Next

\* Who touches the allocator, and when a run begins and ends.
LEMMA AllocFrame ==
    ASSUME [Next]_vars
    PROVE  \/ \E m \in Modes : Start(m)
           \/ Exit
           \/ \E w \in Worker : Intern(w)
           \/ UNCHANGED alloc /\ phase # "off" /\ phase' # "off" /\ UNCHANGED <<mode, seed>>
           \/ UNCHANGED <<alloc, workers, run>>
<1>1. Discard \/ ReplaceKzip => UNCHANGED <<alloc, workers, run>>
  BY DEF Discard, ReplaceKzip
<1>2. Crash \/ Sweep => Exit
  BY DEF Crash, Sweep
<1>3. ASSUME NEW w \in Worker, Take(w) \/ Reuse(w) \/ Fail(w) \/ Fold(w)
      PROVE  UNCHANGED alloc /\ phase # "off" /\ phase' # "off" /\ UNCHANGED <<mode, seed>>
  BY <1>3 DEF Take, Reuse, Fail, Fold, run
<1>4. ASSUME NEW w \in Worker, NEW D \in SUBSET Worker, Snapshot(w, D)
      PROVE  UNCHANGED alloc /\ phase # "off" /\ phase' # "off" /\ UNCHANGED <<mode, seed>>
  BY <1>4 DEF Snapshot
<1>5. WriteShas \/ MergeGlobal \/ Coalesce \/ Promote
         => UNCHANGED alloc /\ phase # "off" /\ phase' # "off" /\ UNCHANGED <<mode, seed>>
  BY DEF WriteShas, MergeGlobal, Coalesce, Promote, WorkersDone
<1>6. UNCHANGED vars => UNCHANGED <<alloc, workers, run>>
  BY DEF vars
<1> QED BY <1>1, <1>2, <1>3, <1>4, <1>5, <1>6 DEF Next

\* The seed of a run is a set of paths.
LEMMA SeedTyped == ASSUME PlanShape PROVE SeedPaths(kzip) \in SUBSET Paths
BY PathsAssumption, PerCUAssumption DEF SeedPaths, PlanShape

\* What an interned path does to the allocator.
LEMMA InternGrows ==
    ASSUME AllocShape, NEW p \in Paths,
           NEW i, i = IF p \in DOMAIN ids THEN ids[p] ELSE nextId,
           ids' = [q \in DOMAIN ids \cup {p} |-> IF q = p THEN i ELSE ids[q]],
           nextId' = (IF p \in DOMAIN ids THEN nextId ELSE nextId + 1),
           accessed' = accessed \cup {p}, phase' # "off"
    PROVE  /\ AllocShape'
           /\ OneToOne(ids) => OneToOne(ids')
           /\ i \in Nat /\ p \in DOMAIN ids' /\ ids'[p] = i
           /\ DOMAIN ids \subseteq DOMAIN ids'
           /\ \A q \in DOMAIN ids : ids'[q] = ids[q]
<1>1. DOMAIN ids \in SUBSET Paths /\ \A q \in DOMAIN ids : ids[q] \in Nat
  BY DEF AllocShape, IdMap
<1>2. i \in Nat /\ i < nextId' /\ nextId' \in Nat /\ nextId <= nextId'
  BY <1>1 DEF AllocShape
<1>3. DOMAIN ids' = DOMAIN ids \cup {p}
  OBVIOUS
<1>4. /\ ids'[p] = i
      /\ \A q \in DOMAIN ids : ids'[q] = ids[q]
  OBVIOUS
<1>5. ids' \in IdMap
  <2>1. ids' \in [DOMAIN ids \cup {p} -> Nat]
    BY <1>1, <1>2
  <2> QED BY <1>1, <2>1 DEF IdMap
<1>6. \A q \in DOMAIN ids' : ids'[q] < nextId'
  BY <1>1, <1>2, <1>3, <1>4 DEF AllocShape
<1>7. ASSUME OneToOne(ids)
      PROVE  OneToOne(ids')
  <2>1. \A q \in DOMAIN ids : q # p => ids[q] # i
    <3>1. CASE p \in DOMAIN ids
      BY <1>7, <3>1 DEF OneToOne
    <3>2. CASE p \notin DOMAIN ids
      BY <1>1, <3>2 DEF AllocShape
    <3> QED BY <3>1, <3>2
  <2> QED BY <1>3, <1>4, <1>7, <2>1 DEF OneToOne
<1>8. accessed' \in SUBSET DOMAIN ids'
  BY <1>3 DEF AllocShape
<1> QED BY <1>2, <1>3, <1>4, <1>5, <1>6, <1>7, <1>8 DEF AllocShape

\* The allocator keeps its type.
LEMMA AllocTyped ==
    ASSUME Shape, [Next]_vars
    PROVE  AllocShape'
<1>0. AllocShape /\ PlanShape /\ shards \in Seq(Table)
  BY DEF Shape, TableShape
<1>1. ASSUME NEW m \in Modes, Start(m) PROVE AllocShape'
  <2>1. phase = "off" /\ phase' = "index" /\ accessed' = {}
    BY <1>0, <1>1 DEF Start, AllocShape
  <2>2. /\ ids' \in IdMap /\ nextId' \in Nat
        /\ \A p \in DOMAIN ids' : ids'[p] < nextId'
    <3>1. CASE m = "resume"
      <4>1. ids' = SeededIds /\ nextId' = SeededNext
        BY <1>1, <3>1 DEF Start
      <4> QED BY <1>0, <4>1, SeededTyped
    <3>2. CASE m # "resume"
      <4>1. SeedPaths(kzip) \in SUBSET Paths
        BY <1>0, SeedTyped
      <4>2. /\ ids' = Ranks(SeedPaths(kzip))
            /\ nextId' = Cardinality(SeedPaths(kzip))
        BY <1>1, <3>2 DEF Start, SeedIds
      <4> QED BY <4>1, <4>2, RanksFresh
    <3> QED BY <3>1, <3>2
  <2> QED BY <2>1, <2>2 DEF AllocShape
<1>2. CASE Exit
  <2>1. ids' = NoFiles /\ accessed' = {} /\ nextId' = 0
    BY <1>2 DEF Exit
  <2>2. NoFiles \in IdMap /\ DOMAIN NoFiles = {}
    BY DEF NoFiles, IdMap
  <2> QED BY <2>1, <2>2 DEF AllocShape
<1>3. ASSUME NEW w \in Worker, Intern(w) PROVE AllocShape'
  <2>1. phase' # "off"
    BY <1>3 DEF Intern, run
  <2>2. PICK p \in left[w] :
           LET i == IF p \in DOMAIN ids THEN ids[p] ELSE nextId
           IN  /\ ids' = [q \in DOMAIN ids \cup {p} |-> IF q = p THEN i ELSE ids[q]]
               /\ nextId' = IF p \in DOMAIN ids THEN nextId ELSE nextId + 1
               /\ accessed' = accessed \cup {p}
    BY <1>3 DEF Intern
  <2>3. p \in Paths
    BY <1>0, <2>2 DEF PlanShape
  <2> QED BY <1>0, <2>1, <2>2, <2>3, InternGrows
<1>4. CASE UNCHANGED alloc /\ phase' # "off"
  BY <1>0, <1>4 DEF alloc, AllocShape
<1>5. CASE UNCHANGED <<alloc, workers, run>>
  BY <1>0, <1>5 DEF alloc, run, AllocShape
<1> QED BY <1>1, <1>2, <1>3, <1>4, <1>5, AllocFrame

\* What push_to and drain_into emit is a files table of the allocator's ids.
LEMMA EmittedAgrees ==
    ASSUME AllocShape, NEW g \in Emitted
    PROVE  g \in FileMap /\ \A i \in DOMAIN g : g[i] \in DOMAIN ids /\ ids[g[i]] = i
<1>1. DOMAIN ids \in SUBSET Paths /\ \A q \in DOMAIN ids : ids[q] \in Nat
  BY DEF AllocShape, IdMap
<1> DEFINE I == {ids[p] : p \in accessed}
<1>2. g \in [I -> accessed] /\ \A i \in DOMAIN g : ids[g[i]] = i
  BY DEF Emitted
<1>3. accessed \in SUBSET DOMAIN ids
  BY DEF AllocShape
<1>4. I \in SUBSET Nat /\ nextId \in Nat /\ \A i \in I : i <= nextId
  BY <1>1, <1>3 DEF AllocShape
<1> HIDE DEF I
<1>5. g \in [I -> Paths]
  BY <1>1, <1>2, <1>3
<1>6. g \in FileMap
  BY <1>4, <1>5, FileMapIntro
<1> QED BY <1>2, <1>3, <1>6

\* An xref for a file the table lists keeps it sound.
LEMMA XrefTyped ==
    ASSUME NEW t \in Table, NEW p \in Paths, NEW i \in Nat
    PROVE  LET u == [files |-> t.files, xrefs |-> t.xrefs \cup {<<p, i>>}]
           IN  u \in Table /\ Reached(u) = Reached(t) \cup {p}
<1> DEFINE u == [files |-> t.files, xrefs |-> t.xrefs \cup {<<p, i>>}]
<1>1. u \in Table
  BY DEF Table
<1>2. u.xrefs = t.xrefs \cup {<<p, i>>} /\ <<p, i>>[1] = p
  OBVIOUS
<1> HIDE DEF u
<1>3. Reached(t) \cup {p} \subseteq Reached(u)
  BY <1>2 DEF Reached
<1>4. Reached(u) \subseteq Reached(t) \cup {p}
  BY <1>2 DEF Reached
<1> QED BY <1>1, <1>3, <1>4 DEF u

\* An xref under the id the allocator gives its path keeps a table in agreement.
LEMMA XrefKeeps ==
    ASSUME NEW m, OneToOne(m), NEW t \in Table, Sound(t), Agrees(t, m),
           NEW p \in Paths, NEW i \in Nat, i \in DOMAIN t.files,
           p \in DOMAIN m, m[p] = i
    PROVE  LET u == [files |-> t.files, xrefs |-> t.xrefs \cup {<<p, i>>}]
           IN  Sound(u) /\ Agrees(u, m)
<1> DEFINE u == [files |-> t.files, xrefs |-> t.xrefs \cup {<<p, i>>}]
<1>1. u.files = t.files /\ u.xrefs = t.xrefs \cup {<<p, i>>}
  OBVIOUS
<1>3. t.files[i] = p
  BY DEF Agrees, OneToOne
<1> HIDE DEF u
<1>4. Sound(u)
  BY <1>1, <1>3 DEF Sound
<1>5. Agrees(u, m)
  BY <1>1 DEF Agrees
<1> QED BY <1>4, <1>5 DEF u

\* One more table at the end of a sequence.
LEMMA AppendTables ==
    ASSUME NEW s \in Seq(Table), NEW t \in Table
    PROVE  /\ Append(s, t) \in Seq(Table)
           /\ DOMAIN Append(s, t) = DOMAIN s \cup {Len(s) + 1}
           /\ Len(s) + 1 \notin DOMAIN s
           /\ \A k \in DOMAIN s : Append(s, t)[k] = s[k]
           /\ Append(s, t)[Len(s) + 1] = t
<1>1. /\ Append(s, t) \in Seq(Table)
      /\ Len(Append(s, t)) = Len(s) + 1
      /\ \A k \in 1 .. Len(s) : Append(s, t)[k] = s[k]
      /\ Append(s, t)[Len(s) + 1] = t
  BY AppendProperties
<1>2. DOMAIN Append(s, t) = 1 .. Len(s) + 1 /\ DOMAIN s = 1 .. Len(s) /\ Len(s) \in Nat
  BY <1>1
<1> QED BY <1>1, <1>2

\* A sequence of tables is a family of tables.
LEMMA SeqFamily ==
    ASSUME NEW s \in Seq(Table)
    PROVE  /\ Len(s) \in Nat /\ DOMAIN s \in SUBSET (0 .. Len(s))
           /\ \A k \in DOMAIN s : s[k] \in Table
OBVIOUS

\* The merge of a set of sinks, with entries of the allocator added.
LEMMA DrainTyped ==
    ASSUME Shape, NEW D \in SUBSET Worker, NEW g \in Emitted
    PROVE  LET t == Upsert(Merge([v \in D |-> sink[v]]), g)
           IN  t \in Table /\ Reached(t) = UNION {Reached(sink[v]) : v \in D}
<1> DEFINE T == [v \in D |-> sink[v]]
<1>1. DOMAIN T = D /\ DOMAIN T \in SUBSET (0 .. NWorkers) /\ NWorkers \in Nat
  BY WorkerAssumption DEF Worker
<1>2. \A v \in DOMAIN T : T[v] \in Table /\ T[v] = sink[v]
  BY DEF Shape, TableShape
<1>3. g \in FileMap
  BY EmittedAgrees DEF Shape
<1> HIDE DEF T
<1>4. Merge(T) \in Table /\ Merge(T).xrefs = UNION {T[v].xrefs : v \in DOMAIN T}
  BY <1>1, <1>2, MergeParts
<1>5. Reached(Merge(T)) = UNION {Reached(sink[v]) : v \in D}
  BY <1>1, <1>2, <1>4 DEF Reached
<1>6. Upsert(Merge(T), g) \in Table /\ Reached(Upsert(Merge(T), g)) = Reached(Merge(T))
  BY <1>3, <1>4, UpsertTyped
<1> QED BY <1>5, <1>6 DEF T

\* What one anchor leaves in the worker's own builder.
LEMMA InternTable ==
    ASSUME Shape, NEW w \in Worker, Intern(w)
    PROVE  \E p \in left[w], i \in Nat, t \in Table, u \in Table :
              /\ p \in Paths /\ p \in DOMAIN ids' /\ ids'[p] = i
              /\ t = Upsert(own[w], [j \in {i} |-> p])
              /\ u = [files |-> t.files, xrefs |-> t.xrefs \cup {<<p, i>>}]
              /\ [j \in {i} |-> p] \in FileMap /\ i \in DOMAIN t.files
              /\ own' = [own EXCEPT ![w] = u]
              /\ left' = [left EXCEPT ![w] = @ \ {p}]
              /\ Reached(u) = Reached(own[w]) \cup {p}
              /\ OneToOne(ids) => OneToOne(ids')
              /\ DOMAIN ids \subseteq DOMAIN ids' /\ \A q \in DOMAIN ids : ids'[q] = ids[q]
<1>1. AllocShape /\ own[w] \in Table /\ phase' # "off"
  BY DEF Shape, TableShape, Intern, run
<1>2. PICK p \in left[w] :
         LET i == IF p \in DOMAIN ids THEN ids[p] ELSE nextId
             t == Upsert(own[w], [j \in {i} |-> p])
         IN  /\ ids' = [q \in DOMAIN ids \cup {p} |-> IF q = p THEN i ELSE ids[q]]
             /\ nextId' = IF p \in DOMAIN ids THEN nextId ELSE nextId + 1
             /\ accessed' = accessed \cup {p}
             /\ left' = [left EXCEPT ![w] = @ \ {p}]
             /\ own' = [own EXCEPT ![w] = [files |-> t.files,
                                           xrefs |-> t.xrefs \cup {<<p, i>>}]]
  BY DEF Intern
<1> DEFINE i == IF p \in DOMAIN ids THEN ids[p] ELSE nextId
           g == [j \in {i} |-> p]
           t == Upsert(own[w], g)
           u == [files |-> t.files, xrefs |-> t.xrefs \cup {<<p, i>>}]
<1>3. p \in Paths
  BY <1>2 DEF Shape, PlanShape
<1>4. /\ i \in Nat /\ p \in DOMAIN ids' /\ ids'[p] = i
      /\ OneToOne(ids) => OneToOne(ids')
      /\ DOMAIN ids \subseteq DOMAIN ids' /\ \A q \in DOMAIN ids : ids'[q] = ids[q]
  <2>1. /\ ids' = [q \in DOMAIN ids \cup {p} |-> IF q = p THEN i ELSE ids[q]]
        /\ nextId' = (IF p \in DOMAIN ids THEN nextId ELSE nextId + 1)
        /\ accessed' = accessed \cup {p}
    BY <1>2
  <2>2. i = IF p \in DOMAIN ids THEN ids[p] ELSE nextId
    OBVIOUS
  <2> HIDE DEF i
  <2> QED BY <1>1, <1>3, <2>1, <2>2, InternGrows
<1>5. own' = [own EXCEPT ![w] = u] /\ left' = [left EXCEPT ![w] = @ \ {p}]
  BY <1>2
<1> HIDE DEF i
<1>6. g \in FileMap /\ DOMAIN g = {i}
  <2>1. g \in [{i} -> Paths] /\ {i} \in SUBSET Nat /\ \A j \in {i} : j <= i
    BY <1>3, <1>4
  <2> QED BY <1>4, <2>1, FileMapIntro
<1>7. t = Upsert(own[w], [j \in {i} |-> p]) /\ [j \in {i} |-> p] \in FileMap
  BY <1>6
<1> HIDE DEF g
<1>8. t \in Table /\ i \in DOMAIN t.files /\ Reached(t) = Reached(own[w])
  BY <1>1, <1>6, UpsertTyped
<1>9. u = [files |-> t.files, xrefs |-> t.xrefs \cup {<<p, i>>}]
  OBVIOUS
<1> HIDE DEF t
<1>10. u \in Table /\ Reached(u) = Reached(t) \cup {p}
  BY <1>3, <1>4, <1>8, XrefTyped
<1> HIDE DEF u
<1>11. p \in left[w]
  BY <1>2
<1> QED BY <1>3, <1>4, <1>5, <1>7, <1>8, <1>9, <1>10, <1>11

\* Builders stay tables.
LEMMA WorkersTyped ==
    ASSUME Shape, [Next]_vars
    PROVE  own' \in [Worker -> Table] /\ sink' \in [Worker -> Table]
<1> DEFINE Goal == own' \in [Worker -> Table] /\ sink' \in [Worker -> Table]
<1>0. own \in [Worker -> Table] /\ sink \in [Worker -> Table] /\ NoTable \in Table
  BY EmptyTable DEF Shape, TableShape
<1>1. ASSUME NEW w \in Worker, Intern(w) PROVE Goal
  <2>1. sink' = sink
    BY <1>1 DEF Intern
  <2>2. \E u \in Table : own' = [own EXCEPT ![w] = u]
    BY <1>1, InternTable
  <2> QED BY <1>0, <2>1, <2>2
<1>2. ASSUME NEW w \in Worker, Fail(w) PROVE Goal
  BY <1>0, <1>2 DEF Fail
<1>3. ASSUME NEW w \in Worker, Fold(w) PROVE Goal
  <2>1. Merge(<<sink[w], own[w]>>) \in Table
    BY <1>0, PairTyped
  <2>2. own' = [own EXCEPT ![w] = NoTable]
    BY <1>3 DEF Fold
  <2>3. sink' = sink \/ sink' = [sink EXCEPT ![w] = Merge(<<sink[w], own[w]>>)]
    BY <1>3 DEF Fold
  <2> QED BY <1>0, <2>1, <2>2, <2>3
<1>4. ASSUME NEW w \in Worker, NEW D \in SUBSET Worker, Snapshot(w, D) PROVE Goal
  BY <1>0, <1>4 DEF Snapshot
<1>5. CASE Exit
  BY <1>0, <1>5 DEF Exit
<1>6. CASE UNCHANGED <<own, sink>>
  BY <1>0, <1>6
<1> QED
  <2>1. Discard \/ ReplaceKzip => UNCHANGED <<own, sink>>
    BY DEF Discard, ReplaceKzip, workers
  <2>2. Crash \/ Sweep => Exit
    BY DEF Crash, Sweep
  <2>3. ASSUME NEW w \in Worker, Take(w) \/ Reuse(w) PROVE UNCHANGED <<own, sink>>
    BY <2>3 DEF Take, Reuse, workers
  <2>4. WriteShas \/ MergeGlobal \/ Coalesce \/ Promote => UNCHANGED <<own, sink>>
    BY DEF WriteShas, MergeGlobal, Coalesce, Promote, workers
  <2>5. ASSUME NEW m \in Modes, Start(m) PROVE UNCHANGED <<own, sink>>
    BY <2>5 DEF Start, workers
  <2>6. UNCHANGED vars => UNCHANGED <<own, sink>>
    BY DEF vars, workers
  <2> QED BY <1>1, <1>2, <1>3, <1>4, <1>5, <1>6, <2>1, <2>2, <2>3, <2>4, <2>5, <2>6
          DEF Next

\* A member of the cache is a table; adding, keeping some or none is a cache.
LEMMA CacheOps ==
    ASSUME cached \in CacheMap
    PROVE  /\ DOMAIN cached \in SUBSET CUs /\ \A c \in DOMAIN cached : cached[c] \in Table
           /\ NoFiles \in CacheMap /\ DOMAIN NoFiles = {}
           /\ \A C : [c \in DOMAIN cached \cap C |-> cached[c]] \in CacheMap
           /\ \A d \in CUs, t \in Table :
                 [c \in DOMAIN cached \cup {d} |-> IF c = d THEN t ELSE cached[c]]
                    \in CacheMap
<1>1. PICK K \in SUBSET CUs : cached \in [K -> Table]
  BY DEF CacheMap
<1>2. NoFiles \in [{} -> Table] /\ DOMAIN NoFiles = {}
  BY DEF NoFiles
<1>3. NoFiles \in CacheMap
  BY <1>2 DEF CacheMap
<1>4. ASSUME NEW C PROVE [c \in DOMAIN cached \cap C |-> cached[c]] \in CacheMap
  <2>1. [c \in DOMAIN cached \cap C |-> cached[c]] \in [K \cap C -> Table]
    BY <1>1
  <2>2. K \cap C \in SUBSET CUs
    OBVIOUS
  <2> QED BY <2>1, <2>2 DEF CacheMap
<1>5. ASSUME NEW d \in CUs, NEW t \in Table
      PROVE  [c \in DOMAIN cached \cup {d} |-> IF c = d THEN t ELSE cached[c]]
                \in CacheMap
  <2>1. [c \in DOMAIN cached \cup {d} |-> IF c = d THEN t ELSE cached[c]]
           \in [K \cup {d} -> Table]
    BY <1>1
  <2>2. K \cup {d} \in SUBSET CUs
    OBVIOUS
  <2> QED BY <2>1, <2>2 DEF CacheMap
<1> QED BY <1>1, <1>2, <1>3, <1>4, <1>5

\* The CU of a worker that has one.
LEMMA CuTyped == ASSUME PlanShape, NEW w \in Worker, cu[w] # NoCU PROVE cu[w] \in CUs
BY DEF PlanShape

\* Shards on disk and in the cache stay tables.
LEMMA ShardsTyped ==
    ASSUME Shape, [Next]_vars
    PROVE  shards' \in Seq(Table) /\ cached' \in CacheMap
<1> DEFINE Goal == shards' \in Seq(Table) /\ cached' \in CacheMap
<1>0. /\ shards \in Seq(Table) /\ cached \in CacheMap
      /\ own \in [Worker -> Table] /\ <<>> \in Seq(Table)
  BY DEF Shape, TableShape
<1>1. ASSUME NEW m \in Modes, Start(m) PROVE Goal
  <2>1. shards' = shards /\ (cached' = cached \/ cached' = NoFiles)
    BY <1>1 DEF Start
  <2> QED BY <1>0, <2>1, CacheOps
<1>2. ASSUME NEW w \in Worker, Reuse(w) PROVE Goal
  <2>1. PICK c \in DOMAIN cached : shards' = Append(shards, cached[c])
    BY <1>2 DEF Reuse
  <2>2. cached[c] \in Table /\ cached' = cached
    BY <1>0, <1>2, CacheOps DEF Reuse
  <2> QED BY <1>0, <2>1, <2>2, AppendTables
<1>3. ASSUME NEW w \in Worker, Fold(w) PROVE Goal
  <2>1. Localize(own[w]) \in Table
    BY <1>0, LocalizeKeeps
  <2>2. cu[w] \in CUs
    BY <1>3, CuTyped DEF Fold, Shape
  <2>3. shards' = shards \/ shards' = Append(shards, Localize(own[w]))
    BY <1>3 DEF Fold
  <2>4. \/ cached' = cached
        \/ cached' = [c \in DOMAIN cached \cup {cu[w]} |->
                         IF c = cu[w] THEN Localize(own[w]) ELSE cached[c]]
    BY <1>3 DEF Fold
  <2>5. shards' \in Seq(Table)
    BY <1>0, <2>1, <2>3, AppendTables
  <2>6. cached' \in CacheMap
    BY <1>0, <2>1, <2>2, <2>4, CacheOps
  <2> QED BY <2>5, <2>6
<1>4. ASSUME NEW w \in Worker, NEW D \in SUBSET Worker, Snapshot(w, D) PROVE Goal
  <2>1. cached' = cached
    BY <1>4 DEF Snapshot
  <2>2. PICK g \in Emitted :
           shards' = Append(shards, Upsert(Merge([v \in D |-> sink[v]]), g))
    BY <1>4 DEF Snapshot
  <2>3. Upsert(Merge([v \in D |-> sink[v]]), g) \in Table
    BY DrainTyped
  <2> QED BY <1>0, <2>1, <2>2, <2>3, AppendTables
<1>5. CASE Sweep
  <2>1. shards' = <<>>
    BY <1>5 DEF Sweep
  <2>2. cached' = cached \/ cached' = [c \in DOMAIN cached \cap kzip |-> cached[c]]
    BY <1>5 DEF Sweep
  <2>3. cached' \in CacheMap
    BY <1>0, <2>2, CacheOps
  <2> QED BY <1>0, <2>1, <2>3
<1>6. CASE cached' = cached /\ (shards' = shards \/ shards' = <<>>)
  BY <1>0, <1>6
<1> QED
  <2>1. Discard \/ ReplaceKzip \/ Crash \/ WriteShas \/ MergeGlobal \/ Coalesce \/ Promote
           => cached' = cached /\ (shards' = shards \/ shards' = <<>>)
    BY DEF Discard, ReplaceKzip, Crash, WriteShas, MergeGlobal, Coalesce, Promote, disk
  <2>2. ASSUME NEW w \in Worker, Take(w) \/ Intern(w) \/ Fail(w)
        PROVE  cached' = cached /\ shards' = shards
    BY <2>2 DEF Take, Intern, Fail, disk
  <2>3. UNCHANGED vars => cached' = cached /\ shards' = shards
    BY DEF vars, disk
  <2> QED BY <1>1, <1>2, <1>3, <1>4, <1>5, <1>6, <2>1, <2>2, <2>3 DEF Next

\* What the two final merges write: the xrefs of all shards and, without a
\* cache, of the sinks.
LEMMA GlobalTyped ==
    ASSUME Shape, MergeGlobal
    PROVE  \E t \in Table :
              /\ merging' = Merge(Append(shards, t)) /\ merging' \in Table
              /\ \E g \in Emitted : t = Upsert(Merge([v \in Worker |-> sink[v]]), g)
              /\ Reached(merging') = OnDisk \cup InSinks
<1>0. shards \in Seq(Table) /\ sink \in [Worker -> Table]
  BY DEF Shape, TableShape
<1>1. sink = [v \in Worker |-> sink[v]]
  BY <1>0
<1>2. PICK g \in Emitted :
         merging' = Merge(Append(shards, Upsert(Merge([v \in Worker |-> sink[v]]), g)))
  BY <1>1 DEF MergeGlobal, Remainder
<1> DEFINE t == Upsert(Merge([v \in Worker |-> sink[v]]), g)
           T == Append(shards, t)
<1>3. t \in Table /\ Reached(t) = InSinks
  <2>1. Worker \in SUBSET Worker
    OBVIOUS
  <2> QED BY <2>1, DrainTyped DEF InSinks
<1>4. t = Upsert(Merge([v \in Worker |-> sink[v]]), g) /\ merging' = Merge(T)
  BY <1>2
<1> HIDE DEF t
<1>5. /\ T \in Seq(Table) /\ DOMAIN T = DOMAIN shards \cup {Len(shards) + 1}
      /\ \A k \in DOMAIN shards : T[k] = shards[k]
      /\ T[Len(shards) + 1] = t
  BY <1>0, <1>3, AppendTables
<1>6. Len(T) \in Nat /\ DOMAIN T \in SUBSET (0 .. Len(T)) /\ \A k \in DOMAIN T : T[k] \in Table
  BY <1>5, SeqFamily
<1>7. merging' = Merge(Append(shards, t))
  BY <1>4
<1> HIDE DEF T
<1>8. Merge(T) \in Table /\ Merge(T).xrefs = UNION {T[k].xrefs : k \in DOMAIN T}
  BY <1>6, MergeParts
<1>9. Reached(Merge(T)) = UNION {Reached(T[k]) : k \in DOMAIN T}
  BY <1>8 DEF Reached
<1>10. Reached(Merge(T)) = OnDisk \cup InSinks
  BY <1>3, <1>5, <1>9 DEF OnDisk
<1> QED BY <1>3, <1>4, <1>7, <1>8, <1>10

\* coalesce_shards_remapped writes a table, with the rows its remapped shards have.
LEMMA CoalesceTyped ==
    ASSUME Shape, Coalesce
    PROVE  /\ merging' \in Table
           /\ Reached(merging') = UNION {Reached(Remap(shards[k])) : k \in DOMAIN shards}
           /\ DOMAIN shards \in SUBSET (0 .. Len(shards)) /\ Len(shards) \in Nat
           /\ \A k \in DOMAIN shards : shards[k] \in Table /\ Remap(shards[k]) \in Table
<1> DEFINE T == [k \in DOMAIN shards |-> Remap(shards[k])]
<1>0. shards \in Seq(Table) /\ seed \in SUBSET Paths
  BY DEF Shape, TableShape, PlanShape
<1>1. /\ Len(shards) \in Nat /\ DOMAIN shards \in SUBSET (0 .. Len(shards))
      /\ \A k \in DOMAIN shards : shards[k] \in Table
  BY <1>0, SeqFamily
<1>2. \A k \in DOMAIN shards : Remap(shards[k]) \in Table
  BY <1>0, <1>1, RankedTyped DEF Remap
<1>3. DOMAIN T = DOMAIN shards /\ \A k \in DOMAIN T : T[k] = Remap(shards[k])
  OBVIOUS
<1>4. merging' = Merge(T)
  BY DEF Coalesce
<1> HIDE DEF T
<1>5. Merge(T) \in Table /\ Merge(T).xrefs = UNION {T[k].xrefs : k \in DOMAIN T}
  BY <1>1, <1>2, <1>3, MergeParts
<1>6. Reached(Merge(T)) = UNION {Reached(T[k]) : k \in DOMAIN T}
  BY <1>5 DEF Reached
<1>7. Reached(Merge(T)) = UNION {Reached(Remap(shards[k])) : k \in DOMAIN shards}
  BY <1>3, <1>6
<1> QED BY <1>1, <1>2, <1>4, <1>5, <1>7

\* Who touches the merged index and the published one.
LEMMA MergedFrame ==
    ASSUME [Next]_vars
    PROVE  \/ MergeGlobal \/ Coalesce \/ Promote
           \/ Exit /\ out' = out
           \/ UNCHANGED <<merging, out>> /\ phase \notin {"promote", "sweep"}
              /\ phase' \notin {"promote", "sweep"}
           \/ UNCHANGED <<merging, out, phase, mode, seed, ids, folded>>
<1> DEFINE Same == UNCHANGED <<merging, out>> /\ phase \notin {"promote", "sweep"}
                   /\ phase' \notin {"promote", "sweep"}
<1>1. Crash \/ Sweep => Exit /\ out' = out
  BY DEF Crash, Sweep, disk
<1>2. Discard \/ ReplaceKzip \/ WriteShas => Same
  BY DEF Discard, ReplaceKzip, WriteShas, disk, run
<1>3. ASSUME NEW m \in Modes, Start(m) PROVE Same
  BY <1>3 DEF Start, disk
<1>4. ASSUME NEW w \in Worker, Take(w) \/ Reuse(w) \/ Intern(w) \/ Fail(w) \/ Fold(w)
      PROVE  Same
  BY <1>4 DEF Take, Reuse, Intern, Fail, Fold, disk, run
<1>5. ASSUME NEW w \in Worker, NEW D \in SUBSET Worker, Snapshot(w, D) PROVE Same
  BY <1>5 DEF Snapshot
<1>6. UNCHANGED vars => UNCHANGED <<merging, out, phase, mode, seed, ids, folded>>
  BY DEF vars, disk, run, alloc
<1> QED BY <1>1, <1>2, <1>3, <1>4, <1>5, <1>6 DEF Next

\* Shapes hold at the start and are kept by every step.
LEMMA InitShape == ASSUME Init PROVE Shape
<1>1. /\ Idle /\ shards = <<>> /\ shas = {} /\ out = NoTable /\ kzip \in Kzips
      /\ cached = NoFiles
  BY DEF Init
<1>2. PlanShape
  BY <1>1, KzipsAssumption DEF PlanShape, Idle
<1>3. NoFiles \in IdMap /\ DOMAIN NoFiles = {}
  BY DEF NoFiles, IdMap
<1>4. AllocShape
  BY <1>1, <1>3 DEF AllocShape, Idle
<1>5. NoFiles \in CacheMap
  BY <1>3 DEF CacheMap, NoFiles
<1>6. TableShape
  BY <1>1, <1>5, EmptyTable DEF TableShape, Idle
<1> QED BY <1>2, <1>4, <1>6 DEF Shape

\* Every step keeps the shapes of tables, allocator, plans and checkpoints.
LEMMA StepShape == ASSUME Shape, [Next]_vars PROVE Shape'
<1>1. merging' \in Table /\ out' \in Table
  <2>0. merging \in Table /\ out \in Table
    BY DEF Shape, TableShape
  <2>1. CASE MergeGlobal
    BY <2>0, <2>1, GlobalTyped DEF MergeGlobal, disk
  <2>2. CASE Coalesce
    BY <2>0, <2>2, CoalesceTyped DEF Coalesce
  <2>3. CASE Promote
    BY <2>0, <2>3 DEF Promote
  <2>4. CASE Exit /\ out' = out
    BY <2>0, <2>4, EmptyTable DEF Exit
  <2> QED BY <2>0, <2>1, <2>2, <2>3, <2>4, MergedFrame
<1> QED BY <1>1, PlanStep, AllocTyped, WorkersTyped, ShardsTyped DEF Shape, TableShape

\* Tables, allocator, plans and checkpoints stay well-typed in every mode and
\* through every kill: in particular seed_from finds an id for every path and
\* a next id above all of them, and the merges find a first table per id.
THEOREM TypeCorrect == Spec => []TypeOK
<1>1. Init => Shape
  BY InitShape
<1>2. Shape /\ [Next]_vars => Shape'
  BY StepShape
<1> QED BY <1>1, <1>2, ShapeIsType, PTL DEF Spec

-----------------------------------------------------------------------------
(* One namespace.                                                          *)

\* The operator discards the checkpoint he does not resume from.
Apart == ~OverLeftovers

Inv == Shape /\ NamespaceInv

\* The allocator stays one-to-one; while a run lasts it only grows.
LEMMA AllocStep ==
    ASSUME Inv, [Next]_vars
    PROVE  /\ AllocInv' /\ OffInv'
           /\ (phase # "off" /\ phase' # "off") =>
                 /\ DOMAIN ids \subseteq DOMAIN ids'
                 /\ \A p \in DOMAIN ids : ids'[p] = ids[p]
                 /\ mode' = mode /\ seed' = seed
<1> DEFINE Grows == /\ DOMAIN ids \subseteq DOMAIN ids'
                    /\ \A p \in DOMAIN ids : ids'[p] = ids[p]
                    /\ mode' = mode /\ seed' = seed
           Goal == AllocInv' /\ OffInv' /\ (phase # "off" /\ phase' # "off" => Grows)
<1>0. /\ Shape /\ AllocShape /\ PlanShape /\ shards \in Seq(Table) /\ OffInv /\ AllocInv
      /\ ShardsInv
  BY DEF Inv, Shape, TableShape, NamespaceInv
<1>00. \A p \in DOMAIN ids' : ids'[p] < nextId'
  BY <1>0, AllocTyped DEF AllocShape
<1>1. ASSUME NEW m \in Modes, Start(m) PROVE Goal
  <2>1. /\ phase = "off" /\ phase' = "index" /\ mode' = m /\ seed' = SeedPaths(kzip)
    BY <1>1 DEF Start
  <2>2. CASE m = "resume"
    <3>1. ids' = SeededIds
      BY <1>1, <2>2 DEF Start
    <3>a. OneSpace(shards)
      <4>1. shasExists \/ shards = <<>>
        BY <1>1, <2>2 DEF Start, MayStart
      <4> QED BY <1>0, <4>1 DEF ShardsInv, OneSpace
    <3>2. OneToOne(ids')
      BY <1>0, <2>2, <3>1, <3>a, SeededContinues
    <3> QED BY <1>00, <2>1, <2>2, <3>2 DEF AllocInv, OffInv
  <2>3. CASE m # "resume"
    <3>1. SeedPaths(kzip) \in SUBSET Paths
      BY <1>0, SeedTyped
    <3>2. ids' = Ranks(SeedPaths(kzip))
      BY <1>1, <2>3 DEF Start, SeedIds
    <3>3. OneToOne(ids') /\ DOMAIN ids' = seed' /\ ids' = Ranks(seed)'
      BY <2>1, <3>1, <3>2, RanksFresh DEF Ranks
    <3> QED BY <1>00, <2>1, <3>3 DEF AllocInv, OffInv
  <2> QED BY <2>2, <2>3
<1>2. CASE Exit
  <2>1. Idle'
    BY <1>2 DEF Exit, Idle
  <2>2. ids' = NoFiles /\ DOMAIN NoFiles = {} /\ phase' = "off"
    BY <1>2 DEF Exit, NoFiles
  <2> QED BY <2>1, <2>2 DEF AllocInv, OffInv, OneToOne
<1>3. ASSUME NEW w \in Worker, Intern(w) PROVE Goal
  <2>1. phase # "off" /\ phase' = phase /\ mode' = mode /\ seed' = seed
    BY <1>3 DEF Intern, run
  <2>2. OneToOne(ids') /\ Grows
    BY <1>0, <1>3, <2>1, InternTable DEF AllocInv
  <2>3. Ranks(seed)' = Ranks(seed)
    BY <2>1 DEF Ranks
  <2>4. mode' # "resume" => \A p \in seed' : p \in DOMAIN ids' /\ ids'[p] = Ranks(seed)'[p]
    BY <1>0, <2>1, <2>2, <2>3 DEF AllocInv
  <2> QED BY <1>0, <1>00, <2>1, <2>2, <2>4 DEF AllocInv, OffInv
<1>4. CASE /\ UNCHANGED alloc /\ phase # "off" /\ phase' # "off" /\ UNCHANGED <<mode, seed>>
  <2>1. Ranks(seed)' = Ranks(seed)
    BY <1>4 DEF Ranks
  <2>2. AllocInv'
    BY <1>0, <1>4, <2>1 DEF alloc, AllocInv
  <2> QED BY <1>0, <1>4, <2>2 DEF alloc, OffInv
<1>5. CASE UNCHANGED <<alloc, workers, run>>
  <2>1. Ranks(seed)' = Ranks(seed)
    BY <1>5 DEF Ranks, run
  <2>2. AllocInv'
    BY <1>0, <1>5, <2>1 DEF alloc, run, AllocInv
  <2>3. OffInv'
    BY <1>0, <1>5 DEF alloc, run, workers, OffInv, Idle
  <2> QED BY <1>5, <2>2, <2>3 DEF alloc, run
<1> QED BY <1>1, <1>2, <1>3, <1>4, <1>5, AllocFrame

\* Builders stay sound tables of the allocator's ids.
LEMMA WorkersStep ==
    ASSUME Inv, [Next]_vars
    PROVE  WorkersInv'
<1> DEFINE Fit(t) == t \in Table /\ Sound(t) /\ Agrees(t, ids)
           FitNext(t) == t \in Table /\ Sound(t) /\ Agrees(t, ids')
           Goal == \A w \in Worker : FitNext(own'[w]) /\ FitNext(sink'[w])
<1>0. /\ own \in [Worker -> Table] /\ sink \in [Worker -> Table]
      /\ \A w \in Worker : Fit(own[w]) /\ Fit(sink[w])
  BY DEF Inv, Shape, TableShape, NamespaceInv, WorkersInv
<1>1. Shape /\ OffInv /\ OneToOne(ids)
  BY DEF Inv, NamespaceInv, AllocInv
<1>2. OneToOne(ids')
  BY AllocStep DEF AllocInv
<1>3. SUFFICES Goal
  BY DEF WorkersInv
<1>4. ASSUME phase # "off", phase' # "off"
      PROVE  \A v \in Worker : FitNext(own[v]) /\ FitNext(sink[v])
  <2>1. DOMAIN ids \subseteq DOMAIN ids' /\ \A p \in DOMAIN ids : ids'[p] = ids[p]
    BY <1>4, AllocStep
  <2>2. ASSUME NEW t, Fit(t) PROVE FitNext(t)
    BY <2>1, <2>2, AgreesGrows
  <2> QED BY <1>0, <2>2
<1>5. ASSUME own' = [w \in Worker |-> NoTable], sink' = [w \in Worker |-> NoTable]
      PROVE  Goal
  BY <1>5, EmptyTable
<1>6. ASSUME NEW w \in Worker, Intern(w) PROVE Goal
  <2>1. phase # "off" /\ phase' # "off" /\ sink' = sink
    BY <1>6 DEF Intern, run
  <2>2. PICK p \in left[w], i \in Nat, t \in Table, u \in Table :
           /\ p \in Paths /\ p \in DOMAIN ids' /\ ids'[p] = i
           /\ t = Upsert(own[w], [j \in {i} |-> p])
           /\ u = [files |-> t.files, xrefs |-> t.xrefs \cup {<<p, i>>}]
           /\ [j \in {i} |-> p] \in FileMap /\ i \in DOMAIN t.files
           /\ own' = [own EXCEPT ![w] = u]
           /\ left' = [left EXCEPT ![w] = @ \ {p}]
           /\ Reached(u) = Reached(own[w]) \cup {p}
           /\ OneToOne(ids) => OneToOne(ids')
           /\ DOMAIN ids \subseteq DOMAIN ids' /\ \A q \in DOMAIN ids : ids'[q] = ids[q]
    BY <1>1, <1>6, InternTable
  <2> DEFINE g == [j \in {i} |-> p]
  <2>3. g \in FileMap /\ t = Upsert(own[w], g)
    BY <2>2
  <2>4. \A j \in DOMAIN g : g[j] \in DOMAIN ids' /\ ids'[g[j]] = j
    BY <2>2
  <2> HIDE DEF g
  <2>5. \A v \in Worker : FitNext(own[v]) /\ FitNext(sink[v])
    BY <1>4, <2>1
  <2>6. Sound(t) /\ Agrees(t, ids')
    BY <1>2, <2>3, <2>4, <2>5, UpsertKeeps
  <2>7. Sound(u) /\ Agrees(u, ids')
    BY <1>2, <2>2, <2>6, XrefKeeps
  <2>8. own' = [own EXCEPT ![w] = u] /\ u \in Table
    BY <2>2
  <2> QED BY <1>0, <2>1, <2>5, <2>7, <2>8
<1>7. ASSUME NEW w \in Worker, Fail(w) PROVE Goal
  <2>1. phase # "off" /\ phase' # "off" /\ sink' = sink
    BY <1>7 DEF Fail, run
  <2>2. own' = [own EXCEPT ![w] = NoTable]
    BY <1>7 DEF Fail
  <2> QED BY <1>0, <1>4, <2>1, <2>2, EmptyTable
<1>8. ASSUME NEW w \in Worker, Fold(w) PROVE Goal
  <2> DEFINE t == Merge(<<sink[w], own[w]>>)
  <2>1. phase # "off" /\ phase' # "off"
    BY <1>8 DEF Fold
  <2>2. own' = [own EXCEPT ![w] = NoTable]
    BY <1>8 DEF Fold
  <2>3. sink' = sink \/ sink' = [sink EXCEPT ![w] = t]
    BY <1>8 DEF Fold
  <2>4. \A v \in Worker : FitNext(own[v]) /\ FitNext(sink[v])
    BY <1>4, <2>1
  <2>5. FitNext(t)
    BY <1>2, <2>4, PairTyped, PairKeeps
  <2> HIDE DEF t
  <2> QED BY <1>0, <2>2, <2>3, <2>4, <2>5, EmptyTable
<1>9. ASSUME NEW w \in Worker, NEW D \in SUBSET Worker, Snapshot(w, D) PROVE Goal
  <2>1. phase # "off" /\ phase' # "off" /\ own' = own
    BY <1>9 DEF Snapshot
  <2>2. sink' = [v \in Worker |-> IF v \in D THEN NoTable ELSE sink[v]]
    BY <1>9 DEF Snapshot
  <2> QED BY <1>4, <2>1, <2>2, EmptyTable
<1>11. ASSUME NEW m \in Modes, Start(m) PROVE Goal
  <2>1. own' = own /\ sink' = sink /\ phase = "off"
    BY <1>11 DEF Start, workers
  <2> QED BY <1>1, <1>5, <2>1 DEF OffInv, Idle
<1>12. CASE Exit
  BY <1>5, <1>12 DEF Exit
<1>13. CASE UNCHANGED <<own, sink, ids>>
  BY <1>0, <1>13
<1> QED
  <2>1. Discard \/ ReplaceKzip => UNCHANGED <<own, sink, ids>>
    BY DEF Discard, ReplaceKzip, alloc, workers
  <2>2. Crash \/ Sweep => Exit
    BY DEF Crash, Sweep
  <2>3. ASSUME NEW w \in Worker, Take(w) \/ Reuse(w) PROVE UNCHANGED <<own, sink, ids>>
    BY <2>3 DEF Take, Reuse, workers, alloc
  <2>4. WriteShas \/ MergeGlobal \/ Coalesce \/ Promote => UNCHANGED <<own, sink, ids>>
    BY DEF WriteShas, MergeGlobal, Coalesce, Promote, workers, alloc
  <2>5. UNCHANGED vars => UNCHANGED <<own, sink, ids>>
    BY DEF vars, workers, alloc
  <2> QED BY <1>6, <1>7, <1>8, <1>9, <1>11, <1>12, <1>13,
             <2>1, <2>2, <2>3, <2>4, <2>5 DEF Next

\* The merge of a set of sinks, with the allocator's entries added, is sound.
LEMMA DrainKeeps ==
    ASSUME Inv, NEW D \in SUBSET Worker, NEW g \in Emitted
    PROVE  LET t == Upsert(Merge([v \in D |-> sink[v]]), g)
           IN  Sound(t) /\ Agrees(t, ids)
<1> DEFINE T == [v \in D |-> sink[v]]
<1>1. DOMAIN T \in SUBSET (0 .. NWorkers) /\ NWorkers \in Nat
  BY WorkerAssumption DEF Worker
<1>2. \A v \in DOMAIN T : T[v] \in Table /\ Sound(T[v]) /\ Agrees(T[v], ids)
  BY DEF Inv, Shape, TableShape, NamespaceInv, WorkersInv
<1>3. AllocShape /\ OneToOne(ids)
  BY DEF Inv, Shape, NamespaceInv, AllocInv
<1> HIDE DEF T
<1>4. Merge(T) \in Table /\ Sound(Merge(T)) /\ Agrees(Merge(T), ids)
  BY <1>1, <1>2, <1>3, MergeKeeps
<1>5. g \in FileMap /\ \A i \in DOMAIN g : g[i] \in DOMAIN ids /\ ids[g[i]] = i
  BY <1>3, EmittedAgrees
<1>6. Sound(Upsert(Merge(T), g)) /\ Agrees(Upsert(Merge(T), g), ids)
  BY <1>3, <1>4, <1>5, UpsertKeeps
<1> QED BY <1>6 DEF T

\* One more sound table.
LEMMA AppendKeeps ==
    ASSUME NEW m, NEW s \in Seq(Table), NEW t \in Table
    PROVE  /\ (\A k \in DOMAIN s : Sound(s[k])) /\ Sound(t) =>
                 \A k \in DOMAIN Append(s, t) : Sound(Append(s, t)[k])
           /\ (\A k \in DOMAIN s : Agrees(s[k], m)) /\ Agrees(t, m) =>
                 \A k \in DOMAIN Append(s, t) : Agrees(Append(s, t)[k], m)
<1>1. /\ DOMAIN Append(s, t) = DOMAIN s \cup {Len(s) + 1}
      /\ \A k \in DOMAIN s : Append(s, t)[k] = s[k]
      /\ Append(s, t)[Len(s) + 1] = t
  BY AppendTables
<1> QED BY <1>1

\* No run with a cache has a checkpoint beside it, and none writes one.
LEMMA CheckpointStep ==
    ASSUME Inv, Apart, [Next]_vars
    PROVE  CheckpointInv'
<1>0. CheckpointInv /\ OffInv
  BY DEF Inv, NamespaceInv
<1> USE DEF CheckpointInv
<1>1. ASSUME NEW m \in Modes, Start(m) PROVE CheckpointInv'
  <2>1. writing = NoWorker
    BY <1>0, <1>1 DEF Start, OffInv, Idle
  <2> QED BY <1>1, <2>1 DEF Start, MayStart, Apart
<1>2. CASE Discard \/ ReplaceKzip \/ Crash \/ Sweep
  <2>1. mode' = "fresh"
    BY <1>0, <1>2 DEF Discard, ReplaceKzip, Crash, Sweep, Exit, OffInv, Idle, run
  <2> QED BY <2>1
<1>3. ASSUME NEW w \in Worker, Take(w) \/ Reuse(w) \/ Intern(w) \/ Fail(w) \/ Fold(w)
      PROVE  CheckpointInv'
  BY <1>0, <1>3 DEF Take, Reuse, Intern, Fail, Fold, disk, run
<1>4. ASSUME NEW w \in Worker, NEW D \in SUBSET Worker, Snapshot(w, D)
      PROVE  CheckpointInv'
  BY <1>4 DEF Snapshot
<1>5. CASE WriteShas \/ MergeGlobal \/ Coalesce \/ Promote
  BY <1>0, <1>5 DEF WriteShas, MergeGlobal, Coalesce, Promote, disk
<1>6. CASE UNCHANGED vars
  BY <1>0, <1>6 DEF vars, disk, run
<1> QED BY <1>1, <1>2, <1>3, <1>4, <1>5, <1>6 DEF Next

\* Shards on disk and in the cache stay sound and, where runs resume from them,
\* one namespace; a running process continues it.
LEMMA ShardsStep ==
    ASSUME Inv, Apart, [Next]_vars
    PROVE  ShardsInv' /\ RunInv'
<1> DEFINE SoundShards == \A k \in DOMAIN shards' : Sound(shards'[k])
           SoundCache == \A c \in DOMAIN cached' : Sound(cached'[c])
           OneNext == shasExists' => OneSpace(shards')
           Goal == SoundShards /\ SoundCache /\ OneNext /\ RunInv'
<1>0. /\ shards \in Seq(Table) /\ cached \in CacheMap /\ own \in [Worker -> Table]
      /\ \A k \in DOMAIN shards : Sound(shards[k])
      /\ \A c \in DOMAIN cached : Sound(cached[c]) /\ cached[c] \in Table
      /\ \A w \in Worker : Sound(own[w])
      /\ shasExists => OneSpace(shards)
      /\ RunInv /\ OffInv /\ OneToOne(ids) /\ OneToOne(ids') /\ Shape
      /\ CheckpointInv /\ CheckpointInv'
  BY CacheOps, AllocStep, CheckpointStep
     DEF Inv, Shape, TableShape, NamespaceInv, ShardsInv, WorkersInv, AllocInv
<1>1. SUFFICES Goal
  BY DEF ShardsInv
<1>2. CASE shards' = <<>> /\ SoundCache
  BY <1>2 DEF OneSpace, RunInv
<1>3. CASE UNCHANGED <<shards, shasExists, cached>> /\ phase' = "off"
  BY <1>0, <1>3 DEF RunInv
<1>4. CASE shards' = shards /\ phase # "off" /\ phase' # "off" /\ SoundCache
  <2>1. mode # "cache" => \A k \in DOMAIN shards : Agrees(shards[k], ids')
    BY <1>0, <1>4, AllocStep, AgreesGrows DEF RunInv
  <2>2. mode' = mode
    BY <1>4, AllocStep
  <2>3. mode # "cache" => OneSpace(shards)
    BY <1>0, <2>1, AgreeingTables
  <2>4. OneNext
    BY <1>0, <1>4, <2>2, <2>3 DEF CheckpointInv
  <2> QED BY <1>0, <1>4, <2>1, <2>2, <2>4 DEF RunInv
<1>5. ASSUME NEW m \in Modes, Start(m) PROVE Goal
  <2>1. shards' = shards /\ (cached' = cached \/ cached' = NoFiles)
        /\ shasExists' = shasExists
    BY <1>5 DEF Start
  <2>2. SoundCache
    BY <1>0, <2>1 DEF NoFiles
  <2>3. CASE m = "resume"
    <3>1. ids' = SeededIds
      BY <1>5, <2>3 DEF Start
    <3>a. OneSpace(shards)
      <4>1. shasExists \/ shards = <<>>
        BY <1>5, <2>3 DEF Start, MayStart
      <4> QED BY <1>0, <4>1 DEF OneSpace
    <3>2. \A k \in DOMAIN shards : Agrees(shards[k], SeededIds)
      BY <1>0, <3>a, SeededContinues
    <3> QED BY <1>0, <2>1, <2>2, <3>1, <3>2 DEF RunInv
  <2>4. CASE m = "fresh"
    <3>1. shards = <<>>
      BY <1>5, <2>4 DEF Start, MayStart, Apart
    <3> QED BY <1>2, <2>1, <2>2, <3>1
  <2>5. CASE m = "cache"
    <3>1. mode' = "cache"
      BY <1>5, <2>5 DEF Start
    <3> QED BY <1>0, <2>1, <2>2, <3>1 DEF RunInv
  <2> QED BY <2>3, <2>4, <2>5, ModesAssumption
<1>6. ASSUME NEW w \in Worker, NEW D \in SUBSET Worker, Snapshot(w, D) PROVE Goal
  <2>1. /\ phase = "index" /\ phase' = "index" /\ ids' = ids /\ cached' = cached
        /\ mode # "cache"
    BY <1>6 DEF Snapshot, alloc
  <2>2. PICK g \in Emitted :
           shards' = Append(shards, Upsert(Merge([v \in D |-> sink[v]]), g))
    BY <1>6 DEF Snapshot
  <2> DEFINE t == Upsert(Merge([v \in D |-> sink[v]]), g)
  <2>3. t \in Table /\ Sound(t) /\ Agrees(t, ids)
    BY <1>0, DrainTyped, DrainKeeps
  <2>4. shards' = Append(shards, t)
    BY <2>2
  <2> HIDE DEF t
  <2>5. \A k \in DOMAIN shards : Sound(shards[k]) /\ Agrees(shards[k], ids)
    BY <1>0, <2>1 DEF RunInv
  <2>6. \A k \in DOMAIN shards' : Sound(shards'[k]) /\ Agrees(shards'[k], ids)
    BY <1>0, <2>3, <2>4, <2>5, AppendKeeps
  <2>7. OneSpace(shards')
    BY <1>0, <2>6, AgreeingTables
  <2>8. RunInv'
    BY <2>1, <2>6 DEF RunInv
  <2> QED BY <1>0, <2>1, <2>6, <2>7, <2>8
<1>7. ASSUME NEW t \in Table, Sound(t), shards' = Append(shards, t), SoundCache,
             phase # "off", mode' = mode, mode = "cache"
      PROVE  Goal
  <2>1. ~shasExists'
    BY <1>0, <1>7 DEF CheckpointInv
  <2>2. SoundShards
    BY <1>0, <1>7, AppendKeeps
  <2> QED BY <1>7, <2>1, <2>2 DEF RunInv
<1>8. ASSUME NEW w \in Worker, Reuse(w) PROVE Goal
  <2>1. phase # "off" /\ mode = "cache" /\ mode' = mode /\ cached' = cached
    BY <1>8 DEF Reuse
  <2>2. PICK c \in DOMAIN cached : shards' = Append(shards, cached[c])
    BY <1>8 DEF Reuse
  <2> QED BY <1>0, <1>7, <2>1, <2>2
<1>9. ASSUME NEW w \in Worker, Fold(w) PROVE Goal
  <2> DEFINE t == Localize(own[w])
  <2>1. phase # "off" /\ phase' = phase /\ mode' = mode
    BY <1>9 DEF Fold
  <2>2. t \in Table /\ Sound(t)
    BY <1>0, LocalizeKeeps
  <2>3. CASE mode = "cache"
    <3>1. shards' = Append(shards, t)
      BY <1>9, <2>3 DEF Fold
    <3>2. \/ cached' = cached
          \/ cached' = [c \in DOMAIN cached \cup {cu[w]} |->
                           IF c = cu[w] THEN t ELSE cached[c]]
      BY <1>9 DEF Fold
    <3> HIDE DEF t
    <3>3. SoundCache
      BY <1>0, <2>2, <3>2
    <3> QED BY <1>7, <2>1, <2>2, <2>3, <3>1, <3>3
  <2>4. CASE mode # "cache"
    <3>1. shards' = shards /\ cached' = cached
      BY <1>9, <2>4 DEF Fold
    <3> QED BY <1>0, <1>4, <2>1, <3>1
  <2> QED BY <2>3, <2>4
<1> QED
  <2>1. Discard \/ Coalesce => shards' = <<>> /\ cached' = cached
    BY DEF Discard, Coalesce
  <2>2. Sweep => shards' = <<>> /\ SoundCache
    <3> SUFFICES ASSUME Sweep PROVE shards' = <<>> /\ SoundCache
      OBVIOUS
    <3>1. cached' = cached \/ cached' = [c \in DOMAIN cached \cap kzip |-> cached[c]]
      BY DEF Sweep
    <3>2. SoundCache
      BY <1>0, <3>1
    <3> QED BY <3>2 DEF Sweep
  <2>3. Crash \/ ReplaceKzip => UNCHANGED <<shards, shasExists, cached>> /\ phase' = "off"
    BY DEF Crash, Exit, ReplaceKzip, disk, run
  <2>4. ASSUME NEW w \in Worker, Take(w) \/ Intern(w) \/ Fail(w)
        PROVE  shards' = shards /\ phase # "off" /\ phase' # "off" /\ cached' = cached
    BY <2>4 DEF Take, Intern, Fail, disk, run
  <2>5. WriteShas \/ MergeGlobal \/ Promote
           => shards' = shards /\ phase # "off" /\ phase' # "off" /\ cached' = cached
    BY DEF WriteShas, MergeGlobal, Promote, WorkersDone, disk
  <2>6. UNCHANGED vars => UNCHANGED <<shards, shasExists, cached, phase>>
    BY DEF vars, disk, run
  <2>7. cached' = cached => SoundCache
    BY <1>0
  <2> QED BY <1>2, <1>3, <1>4, <1>5, <1>6, <1>8, <1>9, <2>1, <2>2, <2>3, <2>4,
             <2>5, <2>6, <2>7 DEF Next

\* What is merged and promoted is sound and has one numbering.
LEMMA MergedStep ==
    ASSUME Inv, [Next]_vars
    PROVE  MergedInv'
<1> DEFINE Map == IF mode = "cache" THEN Ranks(seed) ELSE ids
<1>0. /\ MergedInv /\ Shape /\ OneToOne(ids) /\ RunInv
      /\ shards \in Seq(Table) /\ seed \in SUBSET Paths
      /\ \A k \in DOMAIN shards : Sound(shards[k])
  BY DEF Inv, Shape, PlanShape, TableShape, NamespaceInv, ShardsInv, AllocInv
<1>1. CASE MergeGlobal
  <2>1. /\ phase = "index" /\ phase' = "promote" /\ out' = out /\ mode # "cache"
        /\ mode' = mode /\ ids' = ids
    BY <1>1 DEF MergeGlobal, WorkersDone, disk, alloc
  <2>2. PICK t \in Table :
           /\ merging' = Merge(Append(shards, t)) /\ merging' \in Table
           /\ \E g \in Emitted : t = Upsert(Merge([v \in Worker |-> sink[v]]), g)
           /\ Reached(merging') = OnDisk \cup InSinks
    BY <1>0, <1>1, GlobalTyped
  <2>3. Sound(t) /\ Agrees(t, ids)
    <3>1. Worker \in SUBSET Worker
      OBVIOUS
    <3> QED BY <2>2, <3>1, DrainKeeps
  <2>4. \A k \in DOMAIN shards : Agrees(shards[k], ids)
    BY <1>0, <2>1 DEF RunInv
  <2> DEFINE T == Append(shards, t)
  <2>5. T \in Seq(Table) /\ \A k \in DOMAIN T : Sound(T[k]) /\ Agrees(T[k], ids)
    BY <1>0, <2>3, <2>4, AppendTables, AppendKeeps
  <2>6. merging' = Merge(T)
    BY <2>2
  <2> HIDE DEF T
  <2>7. Len(T) \in Nat /\ DOMAIN T \in SUBSET (0 .. Len(T)) /\ \A k \in DOMAIN T : T[k] \in Table
    BY <2>5, SeqFamily
  <2>8. Sound(merging') /\ Agrees(merging', ids)
    BY <1>0, <2>5, <2>6, <2>7, MergeKeeps
  <2> QED BY <1>0, <2>1, <2>8 DEF MergedInv
<1>2. CASE Coalesce
  <2>1. /\ phase' = "promote" /\ out' = out /\ mode' = "cache" /\ seed' = seed
    BY <1>2 DEF Coalesce
  <2>2. Ranks(seed)' = Ranks(seed)
    BY <2>1 DEF Ranks
  <2> DEFINE T == [k \in DOMAIN shards |-> Remap(shards[k])]
  <2>3. /\ DOMAIN shards \in SUBSET (0 .. Len(shards)) /\ Len(shards) \in Nat
        /\ \A k \in DOMAIN shards : shards[k] \in Table /\ Remap(shards[k]) \in Table
    BY <1>0, <1>2, CoalesceTyped
  <2>4. \A k \in DOMAIN shards : Sound(Remap(shards[k])) /\ Agrees(Remap(shards[k]), Ranks(seed))
    BY <1>0, <2>3, RankedKeeps DEF Remap
  <2>5. DOMAIN T = DOMAIN shards /\ \A k \in DOMAIN T : T[k] = Remap(shards[k])
    OBVIOUS
  <2>6. merging' = Merge(T)
    BY <1>2 DEF Coalesce
  <2>7. OneToOne(Ranks(seed))
    BY <1>0, RanksFresh
  <2> HIDE DEF T
  <2>8. Sound(merging') /\ Agrees(merging', Ranks(seed))
    BY <2>3, <2>4, <2>5, <2>6, <2>7, MergeKeeps
  <2> QED BY <1>0, <2>1, <2>2, <2>8 DEF MergedInv
<1>3. CASE Promote
  <2>1. /\ phase = "promote" /\ out' = merging /\ merging' = merging /\ ids' = ids
        /\ mode' = mode /\ seed' = seed
    BY <1>3 DEF Promote, alloc
  <2>2. Ranks(seed)' = Ranks(seed)
    BY <2>1 DEF Ranks
  <2> QED BY <1>0, <2>1, <2>2 DEF MergedInv
<1>4. CASE Exit /\ out' = out
  <2>1. merging' = NoTable /\ phase' = "off"
    BY <1>4 DEF Exit
  <2> QED BY <1>0, <1>4, <2>1, EmptyTable DEF MergedInv
<1>5. CASE UNCHANGED <<merging, out>> /\ phase' \notin {"promote", "sweep"}
  BY <1>0, <1>5 DEF MergedInv
<1>6. CASE UNCHANGED <<merging, out, phase, mode, seed, ids, folded>>
  <2>1. Ranks(seed)' = Ranks(seed)
    BY <1>6 DEF Ranks
  <2> QED BY <1>0, <1>6, <2>1 DEF MergedInv
<1> QED BY <1>1, <1>2, <1>3, <1>4, <1>5, <1>6, MergedFrame

\* Every state a program starts from is one namespace.
LEMMA InitInv == ASSUME Init PROVE Inv
<1>1. /\ Idle /\ shards = <<>> /\ out = NoTable /\ cached = NoFiles
  BY DEF Init
<1>2. ids = NoFiles /\ DOMAIN NoFiles = {} /\ phase = "off"
  BY <1>1 DEF NoFiles, Idle
<1>3. AllocInv /\ OffInv /\ RunInv /\ CheckpointInv
  BY <1>1, <1>2 DEF AllocInv, OneToOne, OffInv, RunInv, CheckpointInv, Idle
<1>4. ShardsInv
  BY <1>1, <1>2 DEF ShardsInv, OneSpace
<1>5. WorkersInv /\ MergedInv
  BY <1>1, EmptyTable DEF WorkersInv, MergedInv, Idle
<1> QED BY <1>3, <1>4, <1>5, InitShape DEF Inv, NamespaceInv

\* When a checkpoint that is not resumed from is discarded, the file ids of
\* allocator, builders, shards and output form one namespace, however often
\* runs of any kind are killed and restarted, whichever kzip they index and in
\* whatever order workers intern paths (FileIdAllocator, seed_from, push_to,
\* localize_file_ids, populate_from_shard_remapped).
THEOREM OneNamespace ==
    ASSUME Apart
    PROVE  Spec => []NamespaceInv
<1>1. Init => Inv
  BY InitInv
<1>2. Inv /\ [Next]_vars => Inv'
  BY StepShape, AllocStep, WorkersStep, ShardsStep, CheckpointStep, MergedStep
     DEF Inv, NamespaceInv
<1>3. Inv => NamespaceInv
  BY DEF Inv
<1> QED BY <1>1, <1>2, <1>3, PTL DEF Spec

\* In the same circumstances no published index attributes an xref to a file
\* it was not recorded for.
THEOREM XrefsNeverMoved ==
    ASSUME Apart
    PROVE  Spec => []XrefsKeepFile
<1>1. NamespaceInv => XrefsKeepFile
  BY DEF NamespaceInv, MergedInv, XrefsKeepFile
<1> QED BY <1>1, OneNamespace, PTL

\* And a run that does not resume publishes every seeded path under its rank,
\* whether its id came from seed_paths or from remapping a cached shard.
THEOREM PublishedRanks ==
    ASSUME Apart
    PROVE  Spec => []IdsAreRanks
<1>1. NamespaceInv => IdsAreRanks
  <2> SUFFICES ASSUME NamespaceInv, phase = "sweep", mode # "resume",
                      NEW i \in DOMAIN out.files, out.files[i] \in seed
               PROVE  Ranks(seed)[out.files[i]] = i
    BY DEF IdsAreRanks
  <2>1. Agrees(out, IF mode = "cache" THEN Ranks(seed) ELSE ids)
    BY DEF NamespaceInv, MergedInv
  <2>2. \A p \in seed : ids[p] = Ranks(seed)[p]
    BY DEF NamespaceInv, AllocInv
  <2>3. CASE mode = "cache"
    BY <2>1, <2>3 DEF Agrees
  <2>4. CASE mode # "cache"
    BY <2>1, <2>2, <2>4 DEF Agrees
  <2> QED BY <2>3, <2>4
<1> QED BY <1>1, OneNamespace, PTL

-----------------------------------------------------------------------------
(* No row is lost.                                                         *)

\* The anchors of a CU name paths of its proto, or no path: where ids are
\* remapped, a path the seed misses would lose its rows.
SeedCovers ==
    "cache" \in Modes => \A c \in CUs : Touches[c] \subseteq {0} \cup Candidates[c]

AllInv == Inv /\ RowsInv

\* One more shard on disk.
LEMMA AppendReached ==
    ASSUME shards \in Seq(Table), NEW t \in Table, shards' = Append(shards, t)
    PROVE  OnDisk' = OnDisk \cup Reached(t)
<1>1. /\ DOMAIN shards' = DOMAIN shards \cup {Len(shards) + 1}
      /\ \A k \in DOMAIN shards : shards'[k] = shards[k]
      /\ shards'[Len(shards) + 1] = t
  BY AppendTables
<1>2. \A k \in DOMAIN shards : Reached(shards'[k]) = Reached(shards[k])
  BY <1>1
<1>3. OnDisk' = UNION {Reached(shards'[k]) : k \in DOMAIN shards'}
  BY DEF OnDisk, Reached
<1> QED BY <1>1, <1>2, <1>3 DEF OnDisk

\* What Snapshot does to rows: they move from the sinks to a shard.
LEMMA SnapshotRows ==
    ASSUME Shape, NEW w \in Worker, NEW D \in SUBSET Worker, Snapshot(w, D)
    PROVE  /\ OnDisk' = OnDisk \cup UNION {Reached(sink[v]) : v \in D}
           /\ OnDisk \cup InSinks \subseteq OnDisk' \cup InSinks'
           /\ \A v \in Worker : Reached(sink'[v]) = IF v \in D THEN {} ELSE Reached(sink[v])
<1>0. shards \in Seq(Table)
  BY DEF Shape, TableShape
<1>1. PICK g \in Emitted :
         shards' = Append(shards, Upsert(Merge([v \in D |-> sink[v]]), g))
  BY DEF Snapshot
<1> DEFINE t == Upsert(Merge([v \in D |-> sink[v]]), g)
<1>2. t \in Table /\ Reached(t) = UNION {Reached(sink[v]) : v \in D}
  BY DrainTyped
<1>3. shards' = Append(shards, t)
  BY <1>1
<1> HIDE DEF t
<1>4. OnDisk' = OnDisk \cup Reached(t)
  BY <1>0, <1>2, <1>3, AppendReached
<1>5. sink' = [v \in Worker |-> IF v \in D THEN NoTable ELSE sink[v]]
  BY DEF Snapshot
<1>6. \A v \in Worker : Reached(sink'[v]) = IF v \in D THEN {} ELSE Reached(sink[v])
  BY <1>5, EmptyTable
<1>7. InSinks' = UNION {Reached(sink'[v]) : v \in Worker}
  BY DEF InSinks, Reached
<1>8. InSinks \subseteq OnDisk' \cup InSinks'
  BY <1>2, <1>4, <1>6, <1>7 DEF InSinks
<1> QED BY <1>2, <1>4, <1>6, <1>8

\* What Fold does to rows: they move from the worker's builder into its sink
\* or a shard.
LEMMA FoldRows ==
    ASSUME Inv, FoldedHeld, NEW w \in Worker, Fold(w)
    PROVE  /\ cu[w] \in CUs /\ Touches[cu[w]] \subseteq Reached(own[w])
           /\ mode = "cache" =>
                 /\ OnDisk' = OnDisk \cup Reached(own[w]) /\ sink' = sink
                 /\ pending' = pending /\ Reached(Localize(own[w])) = Reached(own[w])
           /\ mode # "cache" =>
                 /\ shards' = shards /\ OnDisk' = OnDisk /\ cached' = cached
                 /\ \A v \in Worker :
                       /\ v # w => Reached(sink'[v]) = Reached(sink[v])
                                   /\ pending'[v] = pending[v]
                       /\ v = w => Reached(sink'[v]) = Reached(sink[v]) \cup Reached(own[w])
                                   /\ pending'[v] = pending[v] \cup {cu[w]}
           /\ OnDisk \cup InSinks \cup Reached(own[w]) \subseteq OnDisk' \cup InSinks'
<1>0. /\ shards \in Seq(Table) /\ own[w] \in Table /\ sink \in [Worker -> Table]
      /\ pending \in [Worker -> SUBSET CUs] /\ Sound(own[w]) /\ Shape /\ PlanShape
  BY DEF Inv, Shape, TableShape, PlanShape, NamespaceInv, WorkersInv
<1>1. cu[w] \in CUs /\ Touches[cu[w]] \subseteq Reached(own[w])
  <2>1. cu[w] # NoCU /\ left[w] = {}
    BY DEF Fold
  <2> QED BY <1>0, <2>1, CuTyped DEF FoldedHeld
<1>2. InSinks' = UNION {Reached(sink'[v]) : v \in Worker}
  BY DEF InSinks, Reached
<1>3. CASE mode = "cache"
  <2>1. shards' = Append(shards, Localize(own[w])) /\ sink' = sink /\ pending' = pending
    BY <1>3 DEF Fold
  <2>2. Localize(own[w]) \in Table /\ Reached(Localize(own[w])) = Reached(own[w])
    BY <1>0, LocalizeKeeps
  <2>3. OnDisk' = OnDisk \cup Reached(own[w])
    BY <1>0, <2>1, <2>2, AppendReached
  <2>4. InSinks' = InSinks
    BY <1>2, <2>1 DEF InSinks
  <2> QED BY <1>1, <1>3, <2>1, <2>2, <2>3, <2>4
<1>4. CASE mode # "cache"
  <2> DEFINE t == Merge(<<sink[w], own[w]>>)
  <2>1. /\ shards' = shards /\ cached' = cached /\ sink' = [sink EXCEPT ![w] = t]
        /\ pending' = [pending EXCEPT ![w] = @ \cup {cu[w]}]
    BY <1>4 DEF Fold
  <2>2. Reached(t) = Reached(sink[w]) \cup Reached(own[w])
    BY <1>0, PairTyped
  <2> HIDE DEF t
  <2>3. OnDisk' = OnDisk
    BY <2>1 DEF OnDisk, Reached
  <2>4. \A v \in Worker :
           /\ v # w => Reached(sink'[v]) = Reached(sink[v]) /\ pending'[v] = pending[v]
           /\ v = w => Reached(sink'[v]) = Reached(sink[v]) \cup Reached(own[w])
                       /\ pending'[v] = pending[v] \cup {cu[w]}
    BY <1>0, <2>1, <2>2
  <2>5. InSinks \cup Reached(own[w]) \subseteq InSinks'
    BY <1>2, <2>4 DEF InSinks
  <2> QED BY <1>1, <1>4, <2>1, <2>3, <2>4, <2>5
<1> QED BY <1>3, <1>4

\* In a run with a cache, and between runs, no sink holds rows.
LEMMA PlanInvStep ==
    ASSUME AllInv, [Next]_vars
    PROVE  PlanInv'
<1>0. /\ PlanInv /\ OffInv /\ Shape /\ PlanShape /\ sink \in [Worker -> Table]
      /\ cu \in [Worker -> CUs \cup {NoCU}] /\ FoldedHeld /\ Inv
  BY DEF AllInv, RowsInv, Inv, NamespaceInv, Shape, PlanShape, TableShape
<1> DEFINE Mine == /\ plan \cup folded \subseteq kzip
                   /\ \A w \in Worker : cu[w] \in kzip \cup {NoCU} /\ Reached(sink[w]) = {}
           MineNext == /\ plan' \cup folded' \subseteq kzip'
                       /\ \A w \in Worker :
                             cu'[w] \in kzip' \cup {NoCU} /\ Reached(sink'[w]) = {}
           Running == /\ phase # "off" /\ seed' = seed /\ kzip' = kzip /\ mode' = mode
<1>1. ASSUME phase' # "off" => SeedPaths(kzip)' = seed', mode' = "cache" => MineNext
      PROVE  PlanInv'
  BY <1>1 DEF PlanInv, Reached
<1>2. ASSUME Running, mode = "cache" => MineNext PROVE PlanInv'
  BY <1>0, <1>1, <1>2 DEF PlanInv, SeedPaths
<1>3. ASSUME NEW m \in Modes, Start(m) PROVE PlanInv'
  <2>1. /\ phase = "off" /\ seed' = SeedPaths(kzip) /\ kzip' = kzip /\ mode' = m
        /\ cu' = cu /\ sink' = sink
    BY <1>3 DEF Start, workers
  <2>2. \A w \in Worker : cu[w] = NoCU /\ Reached(sink[w]) = {}
    BY <1>0, <2>1, EmptyTable DEF OffInv, Idle
  <2>3. m = "cache" => plan' \cup folded' \subseteq kzip
    BY <1>3 DEF Start
  <2>4. m = "cache" => MineNext
    BY <2>1, <2>2, <2>3
  <2> QED BY <1>1, <2>1, <2>4 DEF SeedPaths
<1>4. CASE Exit
  <2>1. phase' = "off" /\ mode' = "fresh"
    BY <1>4 DEF Exit
  <2> QED BY <1>1, <2>1
<1>5. CASE phase = "off" /\ phase' = phase /\ mode' = mode
  <2>1. mode' = "fresh" /\ phase' = "off"
    BY <1>0, <1>5 DEF OffInv, Idle
  <2> QED BY <1>1, <2>1
<1>6. ASSUME NEW w \in Worker, Take(w) PROVE PlanInv'
  <2>1. Running /\ sink' = sink /\ folded' = folded
    BY <1>6 DEF Take
  <2>2. PICK c \in plan : plan' = plan \ {c} /\ cu' = [cu EXCEPT ![w] = c]
    BY <1>6 DEF Take
  <2>3. mode = "cache" => MineNext
    BY <1>0, <2>1, <2>2 DEF PlanInv
  <2> QED BY <1>2, <2>1, <2>3
<1>7. ASSUME NEW w \in Worker, Reuse(w) PROVE PlanInv'
  <2>1. Running /\ sink' = sink /\ cu' = cu
    BY <1>7 DEF Reuse, workers
  <2>2. PICK c \in plan : plan' = plan \ {c} /\ folded' = folded \cup {c}
    BY <1>7 DEF Reuse
  <2>3. mode = "cache" => MineNext
    BY <1>0, <2>1, <2>2 DEF PlanInv
  <2> QED BY <1>2, <2>1, <2>3
<1>8. ASSUME NEW w \in Worker, Fail(w) PROVE PlanInv'
  <2>1. /\ Running /\ sink' = sink /\ cu' = [cu EXCEPT ![w] = NoCU]
        /\ plan' = plan /\ folded' = folded
    BY <1>8 DEF Fail, run
  <2>2. mode = "cache" => MineNext
    BY <1>0, <2>1 DEF PlanInv
  <2> QED BY <1>2, <2>1, <2>2
<1>9. ASSUME NEW w \in Worker, Fold(w) PROVE PlanInv'
  <2>1. /\ Running /\ cu' = [cu EXCEPT ![w] = NoCU] /\ cu[w] # NoCU
        /\ plan' = plan /\ folded' = folded \cup {cu[w]}
    BY <1>9 DEF Fold
  <2>2. mode = "cache" => sink' = sink
    BY <1>9 DEF Fold
  <2>3. mode = "cache" => MineNext
    BY <1>0, <2>1, <2>2 DEF PlanInv
  <2> QED BY <1>2, <2>1, <2>3
<1>10. ASSUME NEW w \in Worker, NEW D \in SUBSET Worker, Snapshot(w, D) PROVE PlanInv'
  <2>1. Running /\ mode # "cache"
    BY <1>10 DEF Snapshot
  <2> QED BY <1>2, <2>1
<1>11. CASE Running /\ UNCHANGED <<sink, cu, plan, folded>>
  <2>1. mode = "cache" => MineNext
    BY <1>0, <1>11 DEF PlanInv
  <2> QED BY <1>2, <1>11, <2>1
<1> QED
  <2>1. Discard \/ ReplaceKzip => phase = "off" /\ phase' = phase /\ mode' = mode
    BY DEF Discard, ReplaceKzip, run
  <2>2. Crash \/ Sweep => Exit
    BY DEF Crash, Sweep
  <2>3. ASSUME NEW w \in Worker, Intern(w)
        PROVE  Running /\ UNCHANGED <<sink, cu, plan, folded>>
    BY <2>3 DEF Intern, run
  <2>4. WriteShas \/ MergeGlobal \/ Coalesce \/ Promote
           => Running /\ UNCHANGED <<sink, cu, plan, folded>>
    BY DEF WriteShas, MergeGlobal, Coalesce, Promote, WorkersDone, workers
  <2>5. UNCHANGED vars => \/ Running /\ UNCHANGED <<sink, cu, plan, folded>>
                          \/ phase = "off" /\ phase' = phase /\ mode' = mode
    BY DEF vars, run, workers
  <2> QED BY <1>3, <1>4, <1>5, <1>6, <1>7, <1>8, <1>9, <1>10, <1>11,
             <2>1, <2>2, <2>3, <2>4, <2>5 DEF Next

\* What names CUs as done is cleared with the checkpoint.
LEMMA NamedStep ==
    ASSUME AllInv, Apart, [Next]_vars
    PROVE  NamedInv'
<1>0. NamedInv /\ OffInv /\ CheckpointInv
  BY DEF AllInv, RowsInv, Inv, NamespaceInv
<1> USE DEF NamedInv
<1>1. ASSUME NEW m \in Modes, Start(m) PROVE NamedInv'
  <2>1. staged = {}
    BY <1>0, <1>1 DEF Start, OffInv, Idle
  <2> QED BY <1>0, <1>1, <2>1 DEF Start
<1>2. CASE Discard \/ ReplaceKzip \/ Crash \/ Sweep
  <2>1. mode' = "fresh"
    BY <1>0, <1>2 DEF Discard, ReplaceKzip, Crash, Sweep, Exit, OffInv, Idle, run
  <2> QED BY <1>0, <1>2, <2>1 DEF Discard, ReplaceKzip, Crash, Sweep, disk
<1>3. ASSUME NEW w \in Worker, Take(w) \/ Reuse(w) \/ Intern(w) \/ Fail(w) \/ Fold(w)
      PROVE  NamedInv'
  BY <1>0, <1>3 DEF Take, Reuse, Intern, Fail, Fold, disk, run
<1>4. ASSUME NEW w \in Worker, NEW D \in SUBSET Worker, Snapshot(w, D)
      PROVE  NamedInv'
  BY <1>0, <1>4 DEF Snapshot
<1>5. CASE WriteShas \/ MergeGlobal \/ Coalesce \/ Promote
  BY <1>0, <1>5 DEF WriteShas, MergeGlobal, Coalesce, Promote, disk, CheckpointInv
<1>6. CASE UNCHANGED vars
  BY <1>0, <1>6 DEF vars, disk, run
<1> QED BY <1>1, <1>2, <1>3, <1>4, <1>5, <1>6 DEF Next

\* A CU a checkpoint names has its rows in the shards beside it; one a sink
\* will name has them in that sink.
LEMMA ShasStep ==
    ASSUME AllInv, Apart, [Next]_vars
    PROVE  ShasHeld'
<1>0. /\ ShasHeld /\ FoldedHeld /\ Inv /\ Shape /\ OffInv
      /\ shards \in Seq(Table) /\ cached \in CacheMap
      /\ pending \in [Worker -> SUBSET CUs]
  BY DEF AllInv, RowsInv, Inv, NamespaceInv, Shape, PlanShape, TableShape
<1> DEFINE Disk == \A c \in shas' \cup committed' \cup staged' : Touches[c] \subseteq OnDisk'
           Sinks == \A w \in Worker : \A c \in pending'[w] : Touches[c] \subseteq Reached(sink'[w])
           Cache == \A c \in DOMAIN cached' : Touches[c] \subseteq Reached(cached'[c])
<1>1. ASSUME Disk, Sinks, Cache PROVE ShasHeld'
  BY <1>1 DEF ShasHeld, Reached
<1>2. ASSUME UNCHANGED <<sink, pending>> PROVE Sinks
  BY <1>0, <1>2 DEF ShasHeld
<1>3. ASSUME UNCHANGED cached PROVE Cache
  BY <1>0, <1>3 DEF ShasHeld
<1>4. ASSUME UNCHANGED <<shas, committed, staged>>, OnDisk \subseteq OnDisk' PROVE Disk
  BY <1>0, <1>4 DEF ShasHeld
<1>5. ASSUME shards' = shards PROVE OnDisk' = OnDisk
  BY <1>5 DEF OnDisk, Reached
<1>6. ASSUME NEW m \in Modes, Start(m) PROVE ShasHeld'
  <2>1. /\ shards' = shards /\ UNCHANGED <<sink, pending, shas, staged>>
        /\ committed' \subseteq shas
    BY <1>6 DEF Start, workers
  <2>2. cached' = cached \/ cached' = NoFiles
    BY <1>6 DEF Start
  <2>3. Cache
    BY <1>3, <2>2 DEF NoFiles
  <2>4. Disk
    BY <1>0, <1>5, <2>1 DEF ShasHeld
  <2> QED BY <1>1, <1>2, <2>1, <2>3, <2>4
<1>7. CASE Discard
  <2>1. /\ phase = "off" /\ shas' = {} /\ UNCHANGED <<cached, sink, pending, committed, staged>>
    BY <1>7 DEF Discard, workers, run
  <2>2. committed' = {} /\ staged' = {}
    BY <1>0, <2>1 DEF OffInv, Idle
  <2> QED BY <1>1, <1>2, <1>3, <2>1, <2>2
<1>8. CASE Crash
  <2>1. /\ shards' = shards /\ UNCHANGED <<shas, cached>> /\ committed' = {} /\ staged' = {}
        /\ pending' = [w \in Worker |-> {}]
    BY <1>8 DEF Crash, Exit, disk
  <2>2. Disk
    BY <1>0, <1>5, <2>1 DEF ShasHeld
  <2>3. Sinks
    BY <2>1
  <2> QED BY <1>1, <1>3, <2>1, <2>2, <2>3
<1>9. CASE Sweep
  <2>1. /\ shas' = {} /\ committed' = {} /\ staged' = {} /\ pending' = [w \in Worker |-> {}]
    BY <1>9 DEF Sweep, Exit
  <2>2. cached' = cached \/ cached' = [c \in DOMAIN cached \cap kzip |-> cached[c]]
    BY <1>9 DEF Sweep
  <2>3. Cache
    BY <1>0, <2>2 DEF ShasHeld
  <2>4. Sinks
    BY <2>1
  <2> QED BY <1>1, <2>1, <2>3, <2>4
<1>10. ASSUME NEW w \in Worker, Reuse(w) PROVE ShasHeld'
  <2>1. /\ UNCHANGED <<sink, pending, cached, shas, committed, staged>>
    BY <1>10 DEF Reuse, workers
  <2>2. PICK c \in DOMAIN cached : shards' = Append(shards, cached[c])
    BY <1>10 DEF Reuse
  <2>3. OnDisk \subseteq OnDisk'
    BY <1>0, <2>2, CacheOps, AppendReached
  <2> QED BY <1>1, <1>2, <1>3, <1>4, <2>1, <2>3
<1>11. ASSUME NEW w \in Worker, Fold(w) PROVE ShasHeld'
  <2>1. UNCHANGED <<shas, committed, staged>>
    BY <1>11 DEF Fold
  <2>2. CASE mode = "cache"
    <3>1. OnDisk \subseteq OnDisk' /\ UNCHANGED <<sink, pending>>
      BY <1>0, <1>11, <2>2, FoldRows
    <3>2. Touches[cu[w]] \subseteq Reached(Localize(own[w]))
      BY <1>0, <1>11, <2>2, FoldRows
    <3>3. \/ cached' = cached
          \/ cached' = [c \in DOMAIN cached \cup {cu[w]} |->
                           IF c = cu[w] THEN Localize(own[w]) ELSE cached[c]]
      BY <1>11 DEF Fold
    <3>4. Cache
      BY <1>0, <3>2, <3>3 DEF ShasHeld
    <3> QED BY <1>1, <1>2, <1>4, <2>1, <3>1, <3>4
  <2>3. CASE mode # "cache"
    <3>1. /\ OnDisk \subseteq OnDisk' /\ cached' = cached
          /\ \A v \in Worker :
                /\ v # w => Reached(sink'[v]) = Reached(sink[v]) /\ pending'[v] = pending[v]
                /\ v = w => Reached(sink'[v]) = Reached(sink[v]) \cup Reached(own[w])
                            /\ pending'[v] = pending[v] \cup {cu[w]}
      BY <1>0, <1>11, <2>3, FoldRows
    <3>2. Touches[cu[w]] \subseteq Reached(own[w])
      BY <1>0, <1>11, FoldRows
    <3>3. Sinks
      BY <1>0, <3>1, <3>2 DEF ShasHeld
    <3> QED BY <1>1, <1>3, <1>4, <2>1, <3>1, <3>3
  <2> QED BY <2>2, <2>3
<1>12. ASSUME NEW w \in Worker, NEW D \in SUBSET Worker, Snapshot(w, D) PROVE ShasHeld'
  <2>1. /\ UNCHANGED <<cached, shas, committed>>
        /\ staged' = UNION {pending[v] : v \in D}
        /\ pending' = [v \in Worker |-> IF v \in D THEN {} ELSE pending[v]]
    BY <1>12 DEF Snapshot
  <2>2. /\ OnDisk' = OnDisk \cup UNION {Reached(sink[v]) : v \in D}
        /\ \A v \in Worker : Reached(sink'[v]) = IF v \in D THEN {} ELSE Reached(sink[v])
    BY <1>0, <1>12, SnapshotRows
  <2>3. \A c \in staged' : Touches[c] \subseteq OnDisk'
    BY <1>0, <2>1, <2>2 DEF ShasHeld
  <2>4. Disk
    BY <1>0, <2>1, <2>2, <2>3 DEF ShasHeld
  <2>5. Sinks
    BY <1>0, <2>1, <2>2 DEF ShasHeld
  <2> QED BY <1>1, <1>3, <2>1, <2>4, <2>5
<1>13. CASE WriteShas
  <2>1. /\ shards' = shards /\ UNCHANGED <<cached, sink, pending>>
        /\ shas' = committed \cup staged /\ committed' = committed \cup staged /\ staged' = {}
    BY <1>13 DEF WriteShas, workers
  <2>2. Disk
    BY <1>0, <1>5, <2>1 DEF ShasHeld
  <2> QED BY <1>1, <1>2, <1>3, <2>1, <2>2
<1>14. CASE Coalesce
  <2>1. UNCHANGED <<cached, sink, pending>> /\ mode = "cache" /\ phase # "off"
    BY <1>14 DEF Coalesce, WorkersDone, workers
  <2>2. shas' = {} /\ committed' = {} /\ staged' = {}
    BY <1>14, <2>1 DEF Coalesce, AllInv, RowsInv, NamedInv, Inv, NamespaceInv,
                       CheckpointInv
  <2> QED BY <1>1, <1>2, <1>3, <2>1, <2>2
<1>15. CASE UNCHANGED <<shards, cached, sink, pending, shas, committed, staged>>
  BY <1>1, <1>2, <1>3, <1>4, <1>5, <1>15
<1> QED
  <2>1. ReplaceKzip \/ MergeGlobal \/ Promote
           => UNCHANGED <<shards, cached, sink, pending, shas, committed, staged>>
    BY DEF ReplaceKzip, MergeGlobal, Promote, disk, workers, run
  <2>2. ASSUME NEW w \in Worker, Take(w) \/ Intern(w) \/ Fail(w)
        PROVE  UNCHANGED <<shards, cached, sink, pending, shas, committed, staged>>
    BY <2>2 DEF Take, Intern, Fail, disk, workers, run
  <2>3. UNCHANGED vars => UNCHANGED <<shards, cached, sink, pending, shas, committed, staged>>
    BY DEF vars, disk, workers, run
  <2> QED BY <1>6, <1>7, <1>8, <1>9, <1>10, <1>11, <1>12, <1>13, <1>14, <1>15,
             <2>1, <2>2, <2>3 DEF Next

\* Rows of the CU a worker ingests: still to come, or in its builder.
LEMMA OwnRowsStep ==
    ASSUME AllInv, [Next]_vars
    PROVE  \A w \in Worker : cu'[w] # NoCU =>
              Touches[cu'[w]] \subseteq left'[w] \cup Reached(own'[w])
<1> DEFINE Held == \A w \in Worker : cu[w] # NoCU =>
                      Touches[cu[w]] \subseteq left[w] \cup Reached(own[w])
           HeldNext == \A w \in Worker : cu'[w] # NoCU =>
                          Touches[cu'[w]] \subseteq left'[w] \cup Reached(own'[w])
<1>0. /\ Held /\ Shape /\ own \in [Worker -> Table]
      /\ cu \in [Worker -> CUs \cup {NoCU}] /\ left \in [Worker -> SUBSET Paths]
  BY DEF AllInv, RowsInv, FoldedHeld, Inv, Shape, PlanShape, TableShape
<1>1. ASSUME NEW w \in Worker, Take(w) PROVE HeldNext
  <2>1. PICK c \in plan : cu' = [cu EXCEPT ![w] = c] /\ left' = [left EXCEPT ![w] = Touches[c]]
    BY <1>1 DEF Take
  <2>2. own' = own
    BY <1>1 DEF Take
  <2> QED BY <1>0, <2>1, <2>2
<1>2. ASSUME NEW w \in Worker, Intern(w) PROVE HeldNext
  <2>1. cu' = cu
    BY <1>2 DEF Intern
  <2>2. PICK p \in left[w], i \in Nat, t \in Table, u \in Table :
           /\ p \in Paths /\ p \in DOMAIN ids' /\ ids'[p] = i
           /\ t = Upsert(own[w], [j \in {i} |-> p])
           /\ u = [files |-> t.files, xrefs |-> t.xrefs \cup {<<p, i>>}]
           /\ [j \in {i} |-> p] \in FileMap /\ i \in DOMAIN t.files
           /\ own' = [own EXCEPT ![w] = u]
           /\ left' = [left EXCEPT ![w] = @ \ {p}]
           /\ Reached(u) = Reached(own[w]) \cup {p}
           /\ OneToOne(ids) => OneToOne(ids')
           /\ DOMAIN ids \subseteq DOMAIN ids' /\ \A q \in DOMAIN ids : ids'[q] = ids[q]
    BY <1>0, <1>2, InternTable
  <2>3. /\ own' = [own EXCEPT ![w] = u] /\ left' = [left EXCEPT ![w] = @ \ {p}]
        /\ Reached(u) = Reached(own[w]) \cup {p}
    BY <2>2
  <2>4. ASSUME NEW v \in Worker, cu'[v] # NoCU
        PROVE  Touches[cu'[v]] \subseteq left'[v] \cup Reached(own'[v])
    <3>1. CASE v = w
      <4>1. left'[v] = left[w] \ {p} /\ own'[v] = u
        BY <1>0, <2>3, <3>1
      <4> QED BY <1>0, <2>1, <2>3, <2>4, <3>1, <4>1
    <3>2. CASE v # w
      BY <1>0, <2>1, <2>3, <2>4, <3>2
    <3> QED BY <3>1, <3>2
  <2> QED BY <2>4
<1>3. ASSUME NEW w \in Worker, Fail(w) \/ Fold(w) PROVE HeldNext
  <2>1. cu' = [cu EXCEPT ![w] = NoCU] /\ own' = [own EXCEPT ![w] = NoTable]
    BY <1>3 DEF Fail, Fold
  <2>2. \A v \in Worker : v # w => left'[v] = left[v]
    BY <1>0, <1>3 DEF Fail, Fold
  <2> QED BY <1>0, <2>1, <2>2
<1>4. CASE Exit
  BY <1>4 DEF Exit
<1>5. CASE UNCHANGED <<cu, left, own>>
  BY <1>0, <1>5
<1> QED
  <2>1. Crash \/ Sweep => Exit
    BY DEF Crash, Sweep
  <2>2. ASSUME NEW m \in Modes, Start(m) PROVE UNCHANGED <<cu, left, own>>
    BY <2>2 DEF Start, workers
  <2>3. ASSUME NEW w \in Worker, Reuse(w) PROVE UNCHANGED <<cu, left, own>>
    BY <2>3 DEF Reuse, workers
  <2>4. ASSUME NEW w \in Worker, NEW D \in SUBSET Worker, Snapshot(w, D)
        PROVE  UNCHANGED <<cu, left, own>>
    BY <2>4 DEF Snapshot
  <2>5. Discard \/ ReplaceKzip \/ WriteShas \/ MergeGlobal \/ Coalesce \/ Promote
           => UNCHANGED <<cu, left, own>>
    BY DEF Discard, ReplaceKzip, WriteShas, MergeGlobal, Coalesce, Promote, workers
  <2>6. UNCHANGED vars => UNCHANGED <<cu, left, own>>
    BY DEF vars, workers
  <2> QED BY <1>1, <1>2, <1>3, <1>4, <1>5, <2>1, <2>2, <2>3, <2>4, <2>5, <2>6 DEF Next

\* Rows of the CUs a run has done: in shards or sinks, then in the merged index.
LEMMA FoldedStep ==
    ASSUME AllInv, Apart, SeedCovers, [Next]_vars
    PROVE  FoldedHeld'
<1>0. /\ ShasHeld /\ FoldedHeld /\ PlanInv /\ Inv /\ Shape /\ OffInv
      /\ shards \in Seq(Table) /\ cached \in CacheMap /\ seed \in SUBSET Paths
      /\ kzip \in SUBSET CUs /\ folded \in SUBSET CUs
      /\ \A k \in DOMAIN shards : Sound(shards[k])
  BY DEF AllInv, RowsInv, Inv, NamespaceInv, ShardsInv, Shape, PlanShape, TableShape
<1> DEFINE Rows == phase' = "index" =>
                      \A c \in folded' : Touches[c] \subseteq OnDisk' \cup InSinks'
           Merged == phase' \in {"promote", "sweep"} =>
                        \A c \in folded' : Touches[c] \subseteq Reached(merging')
<1>1. ASSUME Rows, Merged PROVE FoldedHeld'
  BY <1>1, OwnRowsStep DEF FoldedHeld, Reached
<1>2. ASSUME shards' = shards PROVE OnDisk' = OnDisk
  BY <1>2 DEF OnDisk, Reached
<1>3. ASSUME sink' = sink PROVE InSinks' = InSinks
  BY <1>3 DEF InSinks, Reached
<1>4. ASSUME phase = "index", phase' = "index",
             OnDisk \cup InSinks \subseteq OnDisk' \cup InSinks',
             \A c \in folded' \ folded : Touches[c] \subseteq OnDisk' \cup InSinks'
      PROVE  FoldedHeld'
  BY <1>0, <1>1, <1>4 DEF FoldedHeld
<1>5. CASE phase' = "off"
  BY <1>1, <1>5
<1>6. ASSUME NEW m \in Modes, Start(m) PROVE FoldedHeld'
  <2>1. phase' = "index" /\ shards' = shards
    BY <1>6 DEF Start
  <2>2. folded' = IF m = "resume" THEN shas ELSE {}
    BY <1>6 DEF Start
  <2>3. \A c \in folded' : Touches[c] \subseteq OnDisk'
    BY <1>0, <1>2, <2>1, <2>2 DEF ShasHeld
  <2> QED BY <1>1, <2>1, <2>3
<1>7. ASSUME NEW w \in Worker, Reuse(w) PROVE FoldedHeld'
  <2>1. phase = "index" /\ phase' = "index" /\ sink' = sink
    BY <1>7 DEF Reuse, workers
  <2>2. PICK c \in DOMAIN cached : shards' = Append(shards, cached[c])
                                   /\ folded' = folded \cup {c}
    BY <1>7 DEF Reuse
  <2>3. OnDisk' = OnDisk \cup Reached(cached[c])
    BY <1>0, <2>2, CacheOps, AppendReached
  <2>4. Touches[c] \subseteq OnDisk'
    BY <1>0, <2>3 DEF ShasHeld
  <2>5. InSinks' = InSinks
    BY <1>3, <2>1
  <2>6. \A d \in folded' \ folded : Touches[d] \subseteq OnDisk' \cup InSinks'
    BY <2>2, <2>4
  <2> QED BY <1>4, <2>1, <2>3, <2>5, <2>6
<1>8. ASSUME NEW w \in Worker, Fold(w) PROVE FoldedHeld'
  <2>1. phase = "index" /\ phase' = "index" /\ folded' = folded \cup {cu[w]}
    BY <1>8 DEF Fold
  <2>2. /\ OnDisk \cup InSinks \cup Reached(own[w]) \subseteq OnDisk' \cup InSinks'
        /\ Touches[cu[w]] \subseteq Reached(own[w])
    BY <1>0, <1>8, FoldRows
  <2>3. \A d \in folded' \ folded : Touches[d] \subseteq OnDisk' \cup InSinks'
    BY <2>1, <2>2
  <2>4. OnDisk \cup InSinks \subseteq OnDisk' \cup InSinks'
    BY <2>2
  <2> QED BY <1>4, <2>1, <2>3, <2>4
<1>9. ASSUME NEW w \in Worker, NEW D \in SUBSET Worker, Snapshot(w, D) PROVE FoldedHeld'
  <2>1. phase = "index" /\ phase' = "index" /\ folded' = folded
    BY <1>9 DEF Snapshot
  <2>2. OnDisk \cup InSinks \subseteq OnDisk' \cup InSinks'
    BY <1>0, <1>9, SnapshotRows
  <2> QED BY <1>4, <2>1, <2>2
<1>10. CASE MergeGlobal
  <2>1. phase = "index" /\ phase' = "promote" /\ folded' = folded
    BY <1>10 DEF MergeGlobal, WorkersDone
  <2>2. Reached(merging') = OnDisk \cup InSinks
    BY <1>0, <1>10, GlobalTyped
  <2>3. Merged
    BY <1>0, <2>1, <2>2 DEF FoldedHeld
  <2> QED BY <1>1, <2>1, <2>3
<1>11. CASE Coalesce
  <2>1. /\ phase = "index" /\ phase' = "promote" /\ folded' = folded /\ mode = "cache"
    BY <1>11 DEF Coalesce, WorkersDone
  <2>2. Reached(merging') = UNION {Reached(Remap(shards[k])) : k \in DOMAIN shards}
    BY <1>0, <1>11, CoalesceTyped
  <2>3. \A k \in DOMAIN shards : Reached(Remap(shards[k])) = Reached(shards[k]) \cap seed
    BY <1>0, <1>11, CoalesceTyped, RankedKeeps DEF Remap
  <2>4. Reached(merging') = OnDisk \cap seed
    BY <2>2, <2>3 DEF OnDisk
  <2>5. InSinks = {}
    BY <1>0, <2>1 DEF PlanInv, InSinks
  <2>6. ASSUME NEW c \in folded PROVE Touches[c] \subseteq seed
    <3>1. c \in kzip /\ c \in CUs /\ seed = SeedPaths(kzip)
      BY <1>0, <2>1 DEF PlanInv
    <3>2. Touches[c] \subseteq {0} \cup Candidates[c]
      BY <1>0, <2>1, <3>1 DEF OffInv, SeedCovers
    <3> QED BY <3>1, <3>2 DEF SeedPaths
  <2>7. Merged
    BY <1>0, <2>1, <2>4, <2>5, <2>6 DEF FoldedHeld
  <2> QED BY <1>1, <2>1, <2>7
<1>12. CASE Promote
  <2>1. phase = "promote" /\ phase' = "sweep" /\ merging' = merging /\ folded' = folded
    BY <1>12 DEF Promote
  <2> QED BY <1>0, <1>1, <2>1 DEF FoldedHeld
<1>13. CASE phase = "index" /\ phase' = "index" /\ UNCHANGED <<shards, sink, folded>>
  BY <1>2, <1>3, <1>4, <1>13
<1>14. CASE UNCHANGED vars
  <2>1. UNCHANGED <<shards, sink, folded, merging, phase>>
    BY <1>14 DEF vars, disk, workers, run
  <2> QED BY <1>0, <1>1, <1>2, <1>3, <2>1 DEF FoldedHeld
<1> QED
  <2>1. Discard \/ ReplaceKzip \/ Crash \/ Sweep => phase' = "off"
    BY DEF Discard, ReplaceKzip, Crash, Sweep, Exit, run
  <2>2. ASSUME NEW w \in Worker, Take(w) \/ Intern(w) \/ Fail(w)
        PROVE  phase = "index" /\ phase' = "index" /\ UNCHANGED <<shards, sink, folded>>
    BY <2>2 DEF Take, Intern, Fail, disk, run
  <2>3. WriteShas => phase = "index" /\ phase' = "index" /\ UNCHANGED <<shards, sink, folded>>
    BY DEF WriteShas, workers
  <2> QED BY <1>5, <1>6, <1>7, <1>8, <1>9, <1>10, <1>11, <1>12, <1>13, <1>14,
             <2>1, <2>2, <2>3 DEF Next

\* Nothing is on its way at the start.
LEMMA InitRows == ASSUME Init PROVE RowsInv
<1>1. Idle /\ shas = {} /\ cached = NoFiles
  BY DEF Init
<1>2. ShasHeld
  BY <1>1 DEF ShasHeld, Idle, NoFiles
<1>3. FoldedHeld
  BY <1>1 DEF FoldedHeld, Idle
<1>4. PlanInv /\ NamedInv
  BY <1>1 DEF PlanInv, NamedInv, Idle
<1> QED BY <1>2, <1>3, <1>4 DEF RowsInv

\* When a checkpoint that is not resumed from is discarded and, with a cache,
\* anchors name only paths of their CU's proto, a published index has an xref
\* to every path of every CU the run folded, copied or skipped: no snapshot,
\* kill, checkpoint, remapping or final remainder loses rows.
THEOREM RowsPublished ==
    ASSUME Apart, SeedCovers
    PROVE  Spec => []FoldedPublished
<1>1. Init => AllInv
  BY InitInv, InitRows DEF AllInv
<1>2. AllInv /\ [Next]_vars => AllInv'
  <2> SUFFICES ASSUME AllInv, [Next]_vars PROVE AllInv'
    OBVIOUS
  <2>1. Inv'
    BY StepShape, AllocStep, WorkersStep, ShardsStep, CheckpointStep, MergedStep
       DEF AllInv, Inv, NamespaceInv
  <2>2. RowsInv'
    BY ShasStep, FoldedStep, NamedStep, PlanInvStep DEF RowsInv
  <2> QED BY <2>1, <2>2 DEF AllInv
<1>3. AllInv => FoldedPublished
  <2> SUFFICES ASSUME AllInv, phase = "sweep", NEW c \in folded
               PROVE  Touches[c] \subseteq Reached(out)
    BY DEF FoldedPublished, Reached
  <2>1. out = merging
    BY DEF AllInv, Inv, NamespaceInv, MergedInv
  <2> QED BY <2>1 DEF AllInv, RowsInv, FoldedHeld
<1> QED BY <1>1, <1>2, <1>3, PTL DEF Spec
=============================================================================
