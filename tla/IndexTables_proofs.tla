-------------------------- MODULE IndexTables_proofs --------------------------
(***************************************************************************)
(* What the index builder and the merge compute, for every set of units,   *)
(* facts and sinks and every number of shards.  Each of the four two-way   *)
(* merges of write_merged_snapshot, on two sorted sections, writes the     *)
(* section of the union that merge_from takes in memory.  So a k-way merge *)
(* of finished builders is itself a finished builder, and every file the   *)
(* build writes has the order the reader's binary search relies on.  On    *)
(* units that agree about their symbols, what a builder holds of its units *)
(* determines the file, so the output depends on the facts alone.          *)
(***************************************************************************)
EXTENDS IndexTables, SortedRows_proofs

-----------------------------------------------------------------------------
(* The stream merges.                                                      *)

\* The order of whole rows of k columns.
WholeOrder(k) == {p \in Tuple(k) \X Tuple(k) : LexLess(p[1], p[2])}

PickFirst(k) == [p \in Tuple(k) \X Tuple(k) |-> p[1]]

\* Whole rows are totally ordered: two that tie are equal.
LEMMA WholeStream ==
    ASSUME NEW k \in Nat
    PROVE  /\ StreamOrder(Tuple(k), WholeOrder(k), PickFirst(k))
           /\ \A x, y \in Tuple(k) : /\ <<x, y>> \in WholeOrder(k) <=> LexLess(x, y)
                                     /\ Tie(WholeOrder(k), x, y) <=> x = y
                                     /\ PickFirst(k)[<<x, y>>] = x
<1>1. \A x, y \in Tuple(k) : <<x, y>> \in WholeOrder(k) <=> LexLess(x, y)
  BY DEF WholeOrder
<1>2. \A x, y \in Tuple(k) : PickFirst(k)[<<x, y>>] = x
  BY DEF PickFirst
<1>3. \A x, y \in Tuple(k) : Tie(WholeOrder(k), x, y) <=> x = y
  BY <1>1, LexIrreflexive, LexTotal DEF Tie
<1>4. WholeOrder(k) \in SUBSET (Tuple(k) \X Tuple(k))
  BY DEF WholeOrder
<1>5. PickFirst(k) \in [Tuple(k) \X Tuple(k) -> Tuple(k)]
  BY DEF PickFirst
<1>6. \A x \in Tuple(k) : <<x, x>> \notin WholeOrder(k)
  BY <1>1, LexIrreflexive
<1>7. \A x, y, z \in Tuple(k) : <<x, y>> \in WholeOrder(k) /\ <<y, z>> \in WholeOrder(k)
                                  => <<x, z>> \in WholeOrder(k)
  BY <1>1, LexTransitive
<1>8. StreamOrder(Tuple(k), WholeOrder(k), PickFirst(k))
  BY <1>2, <1>3, <1>4, <1>5, <1>6, <1>7 DEF StreamOrder
<1> QED BY <1>1, <1>2, <1>3, <1>8

\* merge_sorted_dedup follows the rule of a two-stream merge.
LEMMA DedupRule ==
    ASSUME NEW k \in Nat, NEW a \in Seq(Tuple(k)), NEW b \in Seq(Tuple(k))
    PROVE  \E m : /\ MergeRule(a, b, WholeOrder(k), PickFirst(k), m)
                  /\ merge_sorted_dedup(a, b) = m[<<1, 1>>]
<1> DEFINE Body(m, i, j) ==
             IF i > Len(a) THEN SubSeq(b, j, Len(b))
             ELSE IF j > Len(b) THEN SubSeq(a, i, Len(a))
             ELSE IF LexLess(a[i], b[j]) THEN <<a[i]>> \o m[<<i + 1, j>>]
             ELSE IF LexLess(b[j], a[i]) THEN <<b[j]>> \o m[<<i, j + 1>>]
             ELSE <<a[i]>> \o m[<<i + 1, j + 1>>]
           E(m) == m = [p \in Places(a, b) |-> Body(m, p[1], p[2])]
           it == CHOOSE m : E(m)
<1>1. merge_sorted_dedup(a, b) = it[<<1, 1>>]
  BY Zenon DEF merge_sorted_dedup, MergeBy, Whole, First, Places
<1>2. PickFirst(k) \in [Tuple(k) \X Tuple(k) -> Tuple(k)]
  BY DEF PickFirst
<1>3. PICK m \in [Places(a, b) -> Seq(Tuple(k))] : MergeRule(a, b, WholeOrder(k), PickFirst(k), m)
  BY <1>2, MergeDefined
<1>4. ASSUME NEW f, NEW i \in 1..(Len(a) + 1), NEW j \in 1..(Len(b) + 1)
      PROVE  MergeFrom(a, b, WholeOrder(k), PickFirst(k), f, i, j) = Body(f, i, j)
  <2>1. CASE i > Len(a) \/ j > Len(b)
    BY <2>1 DEF MergeFrom
  <2>2. CASE ~ (i > Len(a)) /\ ~ (j > Len(b))
    <3>1. a[i] \in Tuple(k) /\ b[j] \in Tuple(k)
      BY <2>2
    <3>2. /\ <<a[i], b[j]>> \in WholeOrder(k) <=> LexLess(a[i], b[j])
          /\ <<b[j], a[i]>> \in WholeOrder(k) <=> LexLess(b[j], a[i])
          /\ PickFirst(k)[<<a[i], b[j]>>] = a[i]
      BY <3>1, WholeStream
    <3> QED BY <2>2, <3>2 DEF MergeFrom
  <2> QED BY <2>1, <2>2
<1> HIDE DEF Body
<1>5. \A p \in Places(a, b) : p = <<p[1], p[2]>> /\ p[1] \in 1..(Len(a) + 1) /\ p[2] \in 1..(Len(b) + 1)
  BY DEF Places
<1>6. E(m)
  <2>1. \A p \in Places(a, b) : m[p] = Body(m, p[1], p[2])
    BY <1>3, <1>4, <1>5 DEF MergeRule
  <2>2. m = [p \in Places(a, b) |-> m[p]]
    OBVIOUS
  <2> QED BY <2>1, <2>2
<1>7. E(it)
  <2> HIDE DEF E
  <2> QED BY <1>6
<1> HIDE DEF it
<1>8. MergeRule(a, b, WholeOrder(k), PickFirst(k), it)
  <2> SUFFICES ASSUME NEW i \in 1..(Len(a) + 1), NEW j \in 1..(Len(b) + 1)
               PROVE  it[<<i, j>>] = MergeFrom(a, b, WholeOrder(k), PickFirst(k), it, i, j)
    BY DEF MergeRule
  <2>1. <<i, j>> \in Places(a, b)
    BY DEF Places
  <2>2. it[<<i, j>>] = Body(it, i, j)
    BY <1>7, <2>1
  <2> QED BY <1>4, <2>2
<1> QED BY <1>1, <1>8

-----------------------------------------------------------------------------
(* Rows as tuples.                                                         *)

SymRow == Int \X Int \X Strings                     \* <<kind, lang, name>>
SymRec == {r \in Tuple(4) : r[4] \in Strings}       \* <<sym, kind, lang, name>>
StrRec == {r \in Tuple(2) : r[2] \in Strings /\ r[2] # NoName}

\* Rows of two columns.
LEMMA Pairs ==
    /\ \A x, y \in Int : <<x, y>> \in Tuple(2)
    /\ \A r \in Tuple(2) : r = <<r[1], r[2]>> /\ r[1] \in Int /\ r[2] \in Int
    /\ \A s \in Int, n \in Strings \ {NoName} : <<s, n>> \in StrRec
<1>1. \A x, y \in Int : <<x, y>> \in Tuple(2)
  BY DEF Tuple
<1>2. \A r \in Tuple(2) : r = <<r[1], r[2]>> /\ r[1] \in Int /\ r[2] \in Int
  BY DEF Tuple
<1> QED BY <1>1, <1>2, StringsAssumption DEF StrRec

\* Rows of three columns.
LEMMA Triples ==
    /\ \A x, y, z \in Int : <<x, y, z>> \in Tuple(3)
    /\ \A r \in Tuple(3) : r = <<r[1], r[2], r[3]>> /\ r[1] \in Int /\ r[2] \in Int /\ r[3] \in Int
BY DEF Tuple

\* Putting a number in front of three gives a row of four columns.
LEMMA Quads ==
    /\ \A s, x, y, z \in Int : <<s, x, y, z>> \in Tuple(4)
    /\ \A r \in Tuple(4) : /\ r = <<r[1], r[2], r[3], r[4]>>
                           /\ r[1] \in Int /\ r[2] \in Int /\ r[3] \in Int /\ r[4] \in Int
    /\ \A s, x, y, z \in Int : <<s>> \o <<x, y, z>> = <<s, x, y, z>>
<1>1. \A r \in Tuple(4) : /\ r = <<r[1], r[2], r[3], r[4]>>
                          /\ r[1] \in Int /\ r[2] \in Int /\ r[3] \in Int /\ r[4] \in Int
  BY DEF Tuple
<1>2. \A s, x, y, z \in Int : <<s, x, y, z>> \in Tuple(4)
  BY DEF Tuple
<1>3. ASSUME NEW s \in Int, NEW x \in Int, NEW y \in Int, NEW z \in Int
      PROVE  <<s>> \o <<x, y, z>> = <<s, x, y, z>>
  <2> DEFINE e == <<x, y, z>>
             t == <<s>> \o e
  <2>1. e \in Seq(Int) /\ Len(e) = 3 /\ e[1] = x /\ e[2] = y /\ e[3] = z
    OBVIOUS
  <2> HIDE DEF e
  <2>2. /\ t \in Seq(Int) /\ Len(t) = Len(e) + 1 /\ t[1] = s
        /\ \A i \in 1..Len(e) : t[i + 1] = e[i]
    <3>1. e \in Seq(Int) /\ s \in Int
      BY <2>1
    <3> QED BY <3>1, ConsSeq
  <2> HIDE DEF t
  <2>3. 1 \in 1..Len(e) /\ 2 \in 1..Len(e) /\ 3 \in 1..Len(e)
    BY <2>1
  <2>4. t[1 + 1] = x /\ t[2 + 1] = y /\ t[3 + 1] = z
    BY <2>1, <2>2, <2>3
  <2>6. t[2] = x /\ t[3] = y /\ t[4] = z
    BY <2>4
  <2>5. t \in Tuple(4)
    BY <2>1, <2>2 DEF Tuple
  <2> QED BY <1>1, <2>2, <2>5, <2>6 DEF t, e
<1> QED BY <1>1, <1>2, <1>3

\* A symbol's row in a file is its number and its metadata.
LEMMA SymRecs ==
    /\ \A e \in SymRow : /\ e = <<e[1], e[2], e[3]>>
                         /\ e[1] \in Int /\ e[2] \in Int /\ e[3] \in Strings /\ e[3] \in Int
    /\ \A s \in Int, e \in SymRow : /\ <<s>> \o e = <<s, e[1], e[2], e[3]>>
                                    /\ <<s>> \o e \in SymRec
                                    /\ Tail(<<s>> \o e) = e
                                    /\ (<<s>> \o e)[1] = s
    /\ \A r \in SymRec : /\ r[1] \in Int /\ Tail(r) \in SymRow
                         /\ r = <<r[1]>> \o Tail(r)
                         /\ Tail(r)[1] = r[2] /\ Tail(r)[2] = r[3] /\ Tail(r)[3] = r[4]
<1>1. \A e \in SymRow : /\ e = <<e[1], e[2], e[3]>>
                        /\ e[1] \in Int /\ e[2] \in Int /\ e[3] \in Strings /\ e[3] \in Int
  <2>1. \A n \in Strings : n \in Int
    BY StringsAssumption
  <2>2. \A e \in SymRow : e = <<e[1], e[2], e[3]>> /\ e[1] \in Int /\ e[2] \in Int /\ e[3] \in Strings
    BY DEF SymRow
  <2> QED BY <2>1, <2>2
<1>2. ASSUME NEW s \in Int, NEW e \in SymRow
      PROVE  /\ <<s>> \o e = <<s, e[1], e[2], e[3]>>
             /\ <<s>> \o e \in SymRec
             /\ Tail(<<s>> \o e) = e
             /\ (<<s>> \o e)[1] = s
  <2> DEFINE x == e[1]
             y == e[2]
             z == e[3]
  <2>1. e = <<x, y, z>> /\ x \in Int /\ y \in Int /\ z \in Strings /\ z \in Int
    BY <1>1
  <2> HIDE DEF x, y, z
  <2>2. <<s>> \o <<x, y, z>> = <<s, x, y, z>>
    BY <2>1, Quads
  <2>3. Tail(<<s, x, y, z>>) = <<x, y, z>> /\ <<s, x, y, z>>[1] = s
    OBVIOUS
  <2>4. <<s, x, y, z>> \in SymRec
    <3>1. <<s, x, y, z>> \in Tuple(4)
      BY <2>1 DEF Tuple
    <3> QED BY <2>1, <3>1 DEF SymRec
  <2> QED BY <2>1, <2>2, <2>3, <2>4 DEF x, y, z
<1>3. ASSUME NEW r \in SymRec
      PROVE  /\ r[1] \in Int /\ Tail(r) \in SymRow
             /\ r = <<r[1]>> \o Tail(r)
             /\ Tail(r)[1] = r[2] /\ Tail(r)[2] = r[3] /\ Tail(r)[3] = r[4]
  <2> DEFINE s == r[1]
             x == r[2]
             y == r[3]
             z == r[4]
  <2>1. r = <<s, x, y, z>> /\ s \in Int /\ x \in Int /\ y \in Int /\ z \in Int /\ z \in Strings
    <3>1. r \in Tuple(4) /\ z \in Strings
      BY DEF SymRec
    <3> QED BY <3>1 DEF Tuple
  <2> HIDE DEF s, x, y, z
  <2>2. Tail(<<s, x, y, z>>) = <<x, y, z>>
    BY <2>1
  <2>3. <<s>> \o <<x, y, z>> = <<s, x, y, z>>
    BY <2>1, Quads
  <2>4. <<x, y, z>> \in SymRow
    BY <2>1 DEF SymRow
  <2>5. /\ s \in Int /\ Tail(r) \in SymRow /\ r = <<s>> \o Tail(r)
        /\ Tail(r)[1] = x /\ Tail(r)[2] = y /\ Tail(r)[3] = z
    BY <2>1, <2>2, <2>3, <2>4
  <2> QED BY <2>5 DEF s, x, y, z
<1> QED BY <1>1, <1>2, <1>3

\* Refining stays among the rows.
LEMMA RefineType ==
    ASSUME NEW p \in SymRow, NEW q \in SymRow
    PROVE  Refine(p, q) \in SymRow
BY DEF SymRow, Refine, Known, BetterName

-----------------------------------------------------------------------------
(* Streams ordered by their first column.                                  *)

ByFirst(R) == {p \in R \X R : p[1][1] < p[2][1]}

\* P picks a row with the same first column as the two that tie.
KeepsFirst(R, k, P) ==
    /\ k \in Nat /\ k >= 1 /\ R \in SUBSET Tuple(k)
    /\ P \in [R \X R -> R]
    /\ \A x, y \in R : x[1] = y[1] => P[<<x, y>>][1] = x[1]

\* With such a pick the streams are ordered, and two rows tie when their
\* first columns are equal.
LEMMA FirstStream ==
    ASSUME NEW R, NEW k, NEW P, KeepsFirst(R, k, P)
    PROVE  /\ StreamOrder(R, ByFirst(R), P)
           /\ \A x, y \in R : /\ <<x, y>> \in ByFirst(R) <=> x[1] < y[1]
                              /\ LexLess(FirstCol(x), FirstCol(y)) <=> x[1] < y[1]
                              /\ Tie(ByFirst(R), x, y) <=> x[1] = y[1]
<1> USE DEF KeepsFirst
<1>0. \A x \in R : x[1] \in Int
  BY DEF Tuple
<1>1. \A x, y \in R : <<x, y>> \in ByFirst(R) <=> x[1] < y[1]
  BY DEF ByFirst
<1>2. \A x, y \in R : LexLess(FirstCol(x), FirstCol(y)) <=> x[1] < y[1]
  <2>1. \A u, v \in Int : LexLess(<<u>>, <<v>>) <=> u < v
    <3> SUFFICES ASSUME NEW u \in Int, NEW v \in Int PROVE LexLess(<<u>>, <<v>>) <=> u < v
      OBVIOUS
    <3>1. DOMAIN <<u>> = 1..1 /\ <<u>>[1] = u /\ <<v>>[1] = v
      OBVIOUS
    <3>2. \A i \in 1..1 : i = 1
      OBVIOUS
    <3>3. \A j : j \notin 1..(1 - 1)
      OBVIOUS
    <3>4. LexLess(<<u>>, <<v>>) <=> \E i \in 1..1 : <<u>>[i] < <<v>>[i] /\ \A j \in 1..(i - 1) : <<u>>[j] = <<v>>[j]
      BY <3>1 DEF LexLess
    <3>5. 1 \in 1..1
      OBVIOUS
    <3> QED BY <3>1, <3>2, <3>3, <3>4, <3>5
  <2> QED BY <1>0, <2>1 DEF FirstCol
<1>3. \A x, y \in R : Tie(ByFirst(R), x, y) <=> x[1] = y[1]
  <2>1. \A x, y \in R : ~ (x[1] < y[1]) /\ ~ (y[1] < x[1]) <=> x[1] = y[1]
    <3> SUFFICES ASSUME NEW x \in R, NEW y \in R
                 PROVE  ~ (x[1] < y[1]) /\ ~ (y[1] < x[1]) <=> x[1] = y[1]
      OBVIOUS
    <3> DEFINE u == x[1]
               v == y[1]
    <3>1. u \in Int /\ v \in Int
      BY <1>0
    <3> HIDE DEF u, v
    <3>2. ~ (u < v) /\ ~ (v < u) <=> u = v
      BY <3>1
    <3> QED BY <3>2 DEF u, v
  <2> QED BY <1>1, <2>1 DEF Tie
<1>4. ByFirst(R) \in SUBSET (R \X R)
  BY DEF ByFirst
<1>5. \A x \in R : <<x, x>> \notin ByFirst(R)
  BY <1>0, <1>1
<1>6. \A x, y, z \in R : <<x, y>> \in ByFirst(R) /\ <<y, z>> \in ByFirst(R) => <<x, z>> \in ByFirst(R)
  BY <1>0, <1>1
<1>7. \A x, y, z \in R : Tie(ByFirst(R), x, y) =>
                            /\ <<x, z>> \in ByFirst(R) => <<y, z>> \in ByFirst(R)
                            /\ <<z, x>> \in ByFirst(R) => <<z, y>> \in ByFirst(R)
  BY <1>1, <1>3
<1>8. \A x, y \in R : P[<<x, y>>] \in R
  OBVIOUS
<1>9. \A x, y \in R : Tie(ByFirst(R), x, y) => Tie(ByFirst(R), P[<<x, y>>], x)
  BY <1>3, <1>8
<1>10. StreamOrder(R, ByFirst(R), P)
  BY <1>4, <1>5, <1>6, <1>7, <1>9 DEF StreamOrder
<1> QED BY <1>1, <1>2, <1>3, <1>10

\* The picks of the three merges by first column.
FilePick == [p \in Tuple(2) \X Tuple(2) |-> p[1]]
SymPick  == [p \in SymRec \X SymRec |-> <<p[1][1]>> \o Refine(Tail(p[1]), Tail(p[2]))]
StrPick  == [p \in StrRec \X StrRec |-> <<p[1][1], PickString(p[1][2], p[2][2])>>]

\* Files: the first path wins.
LEMMA FileStream ==
    /\ FilePick \in [Tuple(2) \X Tuple(2) -> Tuple(2)]
    /\ StreamOrder(Tuple(2), ByFirst(Tuple(2)), FilePick)
    /\ \A x, y \in Tuple(2) : /\ <<x, y>> \in ByFirst(Tuple(2)) <=> LexLess(FirstCol(x), FirstCol(y))
                              /\ Tie(ByFirst(Tuple(2)), x, y) <=> x[1] = y[1]
                              /\ FilePick[<<x, y>>] = x
<1>1. FilePick \in [Tuple(2) \X Tuple(2) -> Tuple(2)] /\ \A x, y \in Tuple(2) : FilePick[<<x, y>>] = x
  BY DEF FilePick
<1>2. Tuple(2) \in SUBSET Tuple(2) /\ \A x, y \in Tuple(2) : x[1] = y[1] => FilePick[<<x, y>>][1] = x[1]
  BY <1>1
<1>3. KeepsFirst(Tuple(2), 2, FilePick)
  BY <1>1, <1>2 DEF KeepsFirst
<1> QED BY <1>1, <1>3, FirstStream

\* Symbols: the rows are refined.
LEMMA SymStream ==
    /\ SymPick \in [SymRec \X SymRec -> SymRec]
    /\ StreamOrder(SymRec, ByFirst(SymRec), SymPick)
    /\ \A x, y \in SymRec : /\ <<x, y>> \in ByFirst(SymRec) <=> LexLess(FirstCol(x), FirstCol(y))
                            /\ Tie(ByFirst(SymRec), x, y) <=> x[1] = y[1]
                            /\ SymPick[<<x, y>>] = <<x[1]>> \o Refine(Tail(x), Tail(y))
<1>1. \A x, y \in SymRec : SymPick[<<x, y>>] = <<x[1]>> \o Refine(Tail(x), Tail(y))
  BY DEF SymPick
<1>2. \A x, y \in SymRec : Refine(Tail(x), Tail(y)) \in SymRow
  BY SymRecs, RefineType
<1>3. \A x, y \in SymRec : /\ <<x[1]>> \o Refine(Tail(x), Tail(y)) \in SymRec
                           /\ (<<x[1]>> \o Refine(Tail(x), Tail(y)))[1] = x[1]
  BY <1>2, SymRecs
<1>4. SymPick \in [SymRec \X SymRec -> SymRec]
  BY <1>3 DEF SymPick
<1>5. SymRec \in SUBSET Tuple(4) /\ \A x, y \in SymRec : x[1] = y[1] => SymPick[<<x, y>>][1] = x[1]
  <2>1. SymRec \in SUBSET Tuple(4)
    BY DEF SymRec
  <2>2. ASSUME NEW x \in SymRec, NEW y \in SymRec PROVE SymPick[<<x, y>>][1] = x[1]
    <3>1. SymPick[<<x, y>>] = <<x[1]>> \o Refine(Tail(x), Tail(y))
      BY <1>1
    <3>2. (<<x[1]>> \o Refine(Tail(x), Tail(y)))[1] = x[1]
      BY <1>3
    <3> QED BY <3>1, <3>2
  <2> QED BY <2>1, <2>2
<1>6. KeepsFirst(SymRec, 4, SymPick)
  BY <1>4, <1>5 DEF KeepsFirst
<1> QED BY <1>1, <1>4, <1>6, FirstStream

\* Strings: the smaller one wins.
LEMMA StrStream ==
    /\ StrPick \in [StrRec \X StrRec -> StrRec]
    /\ StreamOrder(StrRec, ByFirst(StrRec), StrPick)
    /\ \A x, y \in StrRec : /\ <<x, y>> \in ByFirst(StrRec) <=> LexLess(FirstCol(x), FirstCol(y))
                            /\ Tie(ByFirst(StrRec), x, y) <=> x[1] = y[1]
                            /\ StrPick[<<x, y>>] = <<x[1], PickString(x[2], y[2])>>
                            /\ PickString(x[2], y[2]) = IF y[2] < x[2] THEN y[2] ELSE x[2]
<1>0. \A x \in StrRec : x \in Tuple(2) /\ x[1] \in Int /\ x[2] \in Strings /\ x[2] # NoName
  BY Pairs DEF StrRec
<1>1. \A x, y \in StrRec : StrPick[<<x, y>>] = <<x[1], PickString(x[2], y[2])>>
  BY DEF StrPick
<1>2. \A x, y \in StrRec : PickString(x[2], y[2]) = IF y[2] < x[2] THEN y[2] ELSE x[2]
  BY <1>0, StringsAssumption DEF PickString
<1>3. \A x, y \in StrRec : /\ <<x[1], PickString(x[2], y[2])>> \in StrRec
                           /\ <<x[1], PickString(x[2], y[2])>>[1] = x[1]
  BY <1>0, <1>2, Pairs
<1>4. StrPick \in [StrRec \X StrRec -> StrRec]
  BY <1>3 DEF StrPick
<1>5. StrRec \in SUBSET Tuple(2) /\ \A x, y \in StrRec : x[1] = y[1] => StrPick[<<x, y>>][1] = x[1]
  BY <1>1, <1>3 DEF StrRec
<1>6. KeepsFirst(StrRec, 2, StrPick)
  BY <1>4, <1>5 DEF KeepsFirst
<1> QED BY <1>1, <1>2, <1>4, <1>6, FirstStream

\* merge_files_first_wins follows the rule of a merge.
LEMMA FileRule ==
    ASSUME NEW a \in Seq(Tuple(2)), NEW b \in Seq(Tuple(2))
    PROVE  \E m : /\ MergeRule(a, b, ByFirst(Tuple(2)), FilePick, m)
                  /\ merge_files_first_wins(a, b) = m[<<1, 1>>]
<1> DEFINE Body(m, i, j) ==
             IF i > Len(a) THEN SubSeq(b, j, Len(b))
             ELSE IF j > Len(b) THEN SubSeq(a, i, Len(a))
             ELSE IF LexLess(FirstCol(a[i]), FirstCol(b[j])) THEN <<a[i]>> \o m[<<i + 1, j>>]
             ELSE IF LexLess(FirstCol(b[j]), FirstCol(a[i])) THEN <<b[j]>> \o m[<<i, j + 1>>]
             ELSE <<a[i]>> \o m[<<i + 1, j + 1>>]
           E(m) == m = [p \in Places(a, b) |-> Body(m, p[1], p[2])]
           it == CHOOSE m : E(m)
<1>1. merge_files_first_wins(a, b) = it[<<1, 1>>]
  BY Zenon DEF merge_files_first_wins, MergeBy, First, Places
<1>2. /\ FilePick \in [Tuple(2) \X Tuple(2) -> Tuple(2)]
      /\ \A x, y \in Tuple(2) : /\ <<x, y>> \in ByFirst(Tuple(2)) <=> LexLess(FirstCol(x), FirstCol(y))
                         /\ FilePick[<<x, y>>] = x
  BY FileStream
<1>3. PICK m \in [Places(a, b) -> Seq(Tuple(2))] : MergeRule(a, b, ByFirst(Tuple(2)), FilePick, m)
  BY <1>2, MergeDefined
<1>4. ASSUME NEW f, NEW i \in 1..(Len(a) + 1), NEW j \in 1..(Len(b) + 1)
      PROVE  MergeFrom(a, b, ByFirst(Tuple(2)), FilePick, f, i, j) = Body(f, i, j)
  <2>1. CASE i > Len(a) \/ j > Len(b)
    BY <2>1 DEF MergeFrom
  <2>2. CASE ~ (i > Len(a)) /\ ~ (j > Len(b))
    <3>1. a[i] \in Tuple(2) /\ b[j] \in Tuple(2)
      BY <2>2
    <3>2. /\ <<a[i], b[j]>> \in ByFirst(Tuple(2)) <=> LexLess(FirstCol(a[i]), FirstCol(b[j]))
          /\ <<b[j], a[i]>> \in ByFirst(Tuple(2)) <=> LexLess(FirstCol(b[j]), FirstCol(a[i]))
          /\ FilePick[<<a[i], b[j]>>] = a[i]
      BY <1>2, <3>1
    <3> QED BY <2>2, <3>2 DEF MergeFrom
  <2> QED BY <2>1, <2>2
<1> HIDE DEF Body
<1>5. \A p \in Places(a, b) : p = <<p[1], p[2]>> /\ p[1] \in 1..(Len(a) + 1) /\ p[2] \in 1..(Len(b) + 1)
  BY DEF Places
<1>6. E(m)
  <2>1. \A p \in Places(a, b) : m[p] = Body(m, p[1], p[2])
    BY <1>3, <1>4, <1>5 DEF MergeRule
  <2>2. m = [p \in Places(a, b) |-> m[p]]
    OBVIOUS
  <2> QED BY <2>1, <2>2
<1>7. E(it)
  <2> HIDE DEF E
  <2> QED BY <1>6
<1> HIDE DEF it
<1>8. MergeRule(a, b, ByFirst(Tuple(2)), FilePick, it)
  <2> SUFFICES ASSUME NEW i \in 1..(Len(a) + 1), NEW j \in 1..(Len(b) + 1)
               PROVE  it[<<i, j>>] = MergeFrom(a, b, ByFirst(Tuple(2)), FilePick, it, i, j)
    BY DEF MergeRule
  <2>1. <<i, j>> \in Places(a, b)
    BY DEF Places
  <2>2. it[<<i, j>>] = Body(it, i, j)
    BY <1>7, <2>1
  <2> QED BY <1>4, <2>2
<1> QED BY <1>1, <1>8

\* merge_syms_refine follows the rule of a merge.
LEMMA SymRule ==
    ASSUME NEW a \in Seq(SymRec), NEW b \in Seq(SymRec)
    PROVE  \E m : /\ MergeRule(a, b, ByFirst(SymRec), SymPick, m)
                  /\ merge_syms_refine(a, b) = m[<<1, 1>>]
<1> DEFINE Body(m, i, j) ==
             IF i > Len(a) THEN SubSeq(b, j, Len(b))
             ELSE IF j > Len(b) THEN SubSeq(a, i, Len(a))
             ELSE IF LexLess(FirstCol(a[i]), FirstCol(b[j])) THEN <<a[i]>> \o m[<<i + 1, j>>]
             ELSE IF LexLess(FirstCol(b[j]), FirstCol(a[i])) THEN <<b[j]>> \o m[<<i, j + 1>>]
             ELSE <<<<a[i][1]>> \o Refine(Tail(a[i]), Tail(b[j]))>> \o m[<<i + 1, j + 1>>]
           E(m) == m = [p \in Places(a, b) |-> Body(m, p[1], p[2])]
           it == CHOOSE m : E(m)
<1>1. merge_syms_refine(a, b) = it[<<1, 1>>]
  BY Zenon DEF merge_syms_refine, MergeBy, First, Places
<1>2. /\ SymPick \in [SymRec \X SymRec -> SymRec]
      /\ \A x, y \in SymRec : /\ <<x, y>> \in ByFirst(SymRec) <=> LexLess(FirstCol(x), FirstCol(y))
                         /\ SymPick[<<x, y>>] = <<x[1]>> \o Refine(Tail(x), Tail(y))
  BY SymStream
<1>3. PICK m \in [Places(a, b) -> Seq(SymRec)] : MergeRule(a, b, ByFirst(SymRec), SymPick, m)
  BY <1>2, MergeDefined
<1>4. ASSUME NEW f, NEW i \in 1..(Len(a) + 1), NEW j \in 1..(Len(b) + 1)
      PROVE  MergeFrom(a, b, ByFirst(SymRec), SymPick, f, i, j) = Body(f, i, j)
  <2>1. CASE i > Len(a) \/ j > Len(b)
    BY <2>1 DEF MergeFrom
  <2>2. CASE ~ (i > Len(a)) /\ ~ (j > Len(b))
    <3>1. a[i] \in SymRec /\ b[j] \in SymRec
      BY <2>2
    <3>2. /\ <<a[i], b[j]>> \in ByFirst(SymRec) <=> LexLess(FirstCol(a[i]), FirstCol(b[j]))
          /\ <<b[j], a[i]>> \in ByFirst(SymRec) <=> LexLess(FirstCol(b[j]), FirstCol(a[i]))
          /\ SymPick[<<a[i], b[j]>>] = <<a[i][1]>> \o Refine(Tail(a[i]), Tail(b[j]))
      BY <1>2, <3>1
    <3> QED BY <2>2, <3>2 DEF MergeFrom
  <2> QED BY <2>1, <2>2
<1> HIDE DEF Body
<1>5. \A p \in Places(a, b) : p = <<p[1], p[2]>> /\ p[1] \in 1..(Len(a) + 1) /\ p[2] \in 1..(Len(b) + 1)
  BY DEF Places
<1>6. E(m)
  <2>1. \A p \in Places(a, b) : m[p] = Body(m, p[1], p[2])
    BY <1>3, <1>4, <1>5 DEF MergeRule
  <2>2. m = [p \in Places(a, b) |-> m[p]]
    OBVIOUS
  <2> QED BY <2>1, <2>2
<1>7. E(it)
  <2> HIDE DEF E
  <2> QED BY <1>6
<1> HIDE DEF it
<1>8. MergeRule(a, b, ByFirst(SymRec), SymPick, it)
  <2> SUFFICES ASSUME NEW i \in 1..(Len(a) + 1), NEW j \in 1..(Len(b) + 1)
               PROVE  it[<<i, j>>] = MergeFrom(a, b, ByFirst(SymRec), SymPick, it, i, j)
    BY DEF MergeRule
  <2>1. <<i, j>> \in Places(a, b)
    BY DEF Places
  <2>2. it[<<i, j>>] = Body(it, i, j)
    BY <1>7, <2>1
  <2> QED BY <1>4, <2>2
<1> QED BY <1>1, <1>8

\* merge_typed_by_sym follows the rule of a merge.
LEMMA StrRule ==
    ASSUME NEW a \in Seq(StrRec), NEW b \in Seq(StrRec)
    PROVE  \E m : /\ MergeRule(a, b, ByFirst(StrRec), StrPick, m)
                  /\ merge_typed_by_sym(a, b) = m[<<1, 1>>]
<1> DEFINE Body(m, i, j) ==
             IF i > Len(a) THEN SubSeq(b, j, Len(b))
             ELSE IF j > Len(b) THEN SubSeq(a, i, Len(a))
             ELSE IF LexLess(FirstCol(a[i]), FirstCol(b[j])) THEN <<a[i]>> \o m[<<i + 1, j>>]
             ELSE IF LexLess(FirstCol(b[j]), FirstCol(a[i])) THEN <<b[j]>> \o m[<<i, j + 1>>]
             ELSE <<<<a[i][1], PickString(a[i][2], b[j][2])>>>> \o m[<<i + 1, j + 1>>]
           E(m) == m = [p \in Places(a, b) |-> Body(m, p[1], p[2])]
           it == CHOOSE m : E(m)
<1>1. merge_typed_by_sym(a, b) = it[<<1, 1>>]
  BY Zenon DEF merge_typed_by_sym, MergeBy, First, Places
<1>2. /\ StrPick \in [StrRec \X StrRec -> StrRec]
      /\ \A x, y \in StrRec : /\ <<x, y>> \in ByFirst(StrRec) <=> LexLess(FirstCol(x), FirstCol(y))
                         /\ StrPick[<<x, y>>] = <<x[1], PickString(x[2], y[2])>>
  BY StrStream
<1>3. PICK m \in [Places(a, b) -> Seq(StrRec)] : MergeRule(a, b, ByFirst(StrRec), StrPick, m)
  BY <1>2, MergeDefined
<1>4. ASSUME NEW f, NEW i \in 1..(Len(a) + 1), NEW j \in 1..(Len(b) + 1)
      PROVE  MergeFrom(a, b, ByFirst(StrRec), StrPick, f, i, j) = Body(f, i, j)
  <2>1. CASE i > Len(a) \/ j > Len(b)
    BY <2>1 DEF MergeFrom
  <2>2. CASE ~ (i > Len(a)) /\ ~ (j > Len(b))
    <3>1. a[i] \in StrRec /\ b[j] \in StrRec
      BY <2>2
    <3>2. /\ <<a[i], b[j]>> \in ByFirst(StrRec) <=> LexLess(FirstCol(a[i]), FirstCol(b[j]))
          /\ <<b[j], a[i]>> \in ByFirst(StrRec) <=> LexLess(FirstCol(b[j]), FirstCol(a[i]))
          /\ StrPick[<<a[i], b[j]>>] = <<a[i][1], PickString(a[i][2], b[j][2])>>
      BY <1>2, <3>1
    <3> QED BY <2>2, <3>2 DEF MergeFrom
  <2> QED BY <2>1, <2>2
<1> HIDE DEF Body
<1>5. \A p \in Places(a, b) : p = <<p[1], p[2]>> /\ p[1] \in 1..(Len(a) + 1) /\ p[2] \in 1..(Len(b) + 1)
  BY DEF Places
<1>6. E(m)
  <2>1. \A p \in Places(a, b) : m[p] = Body(m, p[1], p[2])
    BY <1>3, <1>4, <1>5 DEF MergeRule
  <2>2. m = [p \in Places(a, b) |-> m[p]]
    OBVIOUS
  <2> QED BY <2>1, <2>2
<1>7. E(it)
  <2> HIDE DEF E
  <2> QED BY <1>6
<1> HIDE DEF it
<1>8. MergeRule(a, b, ByFirst(StrRec), StrPick, it)
  <2> SUFFICES ASSUME NEW i \in 1..(Len(a) + 1), NEW j \in 1..(Len(b) + 1)
               PROVE  it[<<i, j>>] = MergeFrom(a, b, ByFirst(StrRec), StrPick, it, i, j)
    BY DEF MergeRule
  <2>1. <<i, j>> \in Places(a, b)
    BY DEF Places
  <2>2. it[<<i, j>>] = Body(it, i, j)
    BY <1>7, <2>1
  <2> QED BY <1>4, <2>2
<1> QED BY <1>1, <1>8

-----------------------------------------------------------------------------
(* What the merges do to sorted tables.                                    *)

\* merge_sorted_dedup unites two tables.
LEMMA DedupMerge ==
    ASSUME NEW k \in Nat, NEW A \in SUBSET Tuple(k), IsFiniteSet(A),
           NEW B \in SUBSET Tuple(k), IsFiniteSet(B)
    PROVE  merge_sorted_dedup(Sorted(A), Sorted(B)) = Sorted(A \cup B)
<1> DEFINE a == Sorted(A)
           b == Sorted(B)
           L == WholeOrder(k)
           P == PickFirst(k)
<1>1. Ascending(a, k) /\ Ascending(b, k) /\ RowsIn(a) = A /\ RowsIn(b) = B
  BY SortedAscends
<1>2. a \in Seq(Tuple(k)) /\ b \in Seq(Tuple(k))
  BY <1>1 DEF Ascending
<1>0. \A s \in Seq(Tuple(k)) : Up(s, L) <=> Ascending(s, k)
  <2> SUFFICES ASSUME NEW s \in Seq(Tuple(k)) PROVE Up(s, L) <=> Ascending(s, k)
    OBVIOUS
  <2>1. \A i \in 1..Len(s) : s[i] \in Tuple(k)
    OBVIOUS
  <2>2. \A i, j \in 1..Len(s) : <<s[i], s[j]>> \in L <=> LexLess(s[i], s[j])
    BY <2>1, WholeStream
  <2> QED BY <2>2 DEF Up, Ascending
<1>3. Up(a, L) /\ Up(b, L)
  BY <1>0, <1>1, <1>2
<1>4. PICK m : MergeRule(a, b, L, P, m) /\ merge_sorted_dedup(a, b) = m[<<1, 1>>]
  BY <1>2, DedupRule
<1>5. StreamOrder(Tuple(k), L, P)
  BY WholeStream
<1> DEFINE r == m[<<1, 1>>]
<1> HIDE DEF a, b, L, P
<1>6. r \in Seq(Tuple(k)) /\ Up(r, L) /\ RowsIn(r) = Merged(A, B, L, P)
  BY <1>1, <1>2, <1>3, <1>4, <1>5, MergeCorrect
<1>7. \A z : z \in Merged(A, B, L, P) <=> z \in A \cup B
  <2>1. \A x, y \in Tuple(k) : (Tie(L, x, y) <=> x = y) /\ P[<<x, y>>] = x
    BY WholeStream DEF L, P
  <2> SUFFICES ASSUME NEW z PROVE z \in Merged(A, B, L, P) <=> z \in A \cup B
    OBVIOUS
  <2>2. z \in Merged(A, B, L, P) <=> InMerged(z, A, B, L, P)
    BY MergedElements
  <2>3. (\A x \in A : x \in Tuple(k)) /\ (\A y \in B : y \in Tuple(k))
    OBVIOUS
  <2>4. InMerged(z, A, B, L, P) => z \in A \cup B
    BY <2>1, <2>3 DEF InMerged
  <2>5. z \in A /\ z \in B => InMerged(z, A, B, L, P)
    BY <2>1, <2>3 DEF InMerged
  <2>6. z \in A \cup B /\ ~ (z \in A /\ z \in B) => InMerged(z, A, B, L, P)
    BY <2>1, <2>3 DEF InMerged
  <2> QED BY <2>2, <2>4, <2>5, <2>6
<1>8. RowsIn(r) = A \cup B
  BY <1>6, <1>7
<1>9. Ascending(r, k)
  BY <1>0, <1>6
<1>10. r = Sorted(A \cup B)
  BY <1>8, <1>9, AscendingIsSorted
<1> QED BY <1>4, <1>10 DEF a, b

\* One row for each value of the first column.
Keyed(S) == \A x, y \in S : x[1] = y[1] => x = y

\* A sorted table with one row per key ascends by the first column, and the
\* other way round.
LEMMA KeyedSorted ==
    ASSUME NEW k \in Nat, k >= 1, NEW R \in SUBSET Tuple(k)
    PROVE  /\ \A S \in SUBSET R : IsFiniteSet(S) /\ Keyed(S) =>
                /\ Sorted(S) \in Seq(R) /\ Up(Sorted(S), ByFirst(R)) /\ RowsIn(Sorted(S)) = S
           /\ \A s \in Seq(R) : Up(s, ByFirst(R)) => Ascending(s, k) /\ s = Sorted(RowsIn(s))
<1>0. \A x \in R : x \in Tuple(k) /\ x[1] \in Int /\ DOMAIN x = 1..k
  BY DEF Tuple
<1>1. \A x, y \in R : <<x, y>> \in ByFirst(R) <=> x[1] < y[1]
  BY DEF ByFirst
<1>2. \A x, y \in R : x[1] < y[1] => LexLess(x, y)
  <2> SUFFICES ASSUME NEW x \in R, NEW y \in R, x[1] < y[1] PROVE LexLess(x, y)
    OBVIOUS
  <2>1. 1 \in DOMAIN x /\ \A j : j \notin 1..(1 - 1)
    BY <1>0
  <2> QED BY <2>1 DEF LexLess
<1>3. \A x, y \in R : LexLess(x, y) => x[1] < y[1] \/ x[1] = y[1]
  <2> SUFFICES ASSUME NEW x \in R, NEW y \in R, LexLess(x, y), x[1] # y[1] PROVE x[1] < y[1]
    OBVIOUS
  <2>1. PICK i \in 1..k : x[i] < y[i] /\ \A j \in 1..(i - 1) : x[j] = y[j]
    BY <1>0 DEF LexLess
  <2>2. i = 1
    <3> SUFFICES ASSUME i # 1 PROVE FALSE
      OBVIOUS
    <3>1. 1 \in 1..(i - 1)
      OBVIOUS
    <3> QED BY <2>1, <3>1
  <2> QED BY <2>1, <2>2
<1>4. ASSUME NEW S \in SUBSET R, IsFiniteSet(S), Keyed(S)
      PROVE  Sorted(S) \in Seq(R) /\ Up(Sorted(S), ByFirst(R)) /\ RowsIn(Sorted(S)) = S
  <2> DEFINE s == Sorted(S)
  <2>1. Ascending(s, k) /\ RowsIn(s) = S
    <3>1. S \in SUBSET Tuple(k)
      OBVIOUS
    <3> QED BY <1>4, <3>1, SortedAscends
  <2> HIDE DEF s
  <2>2. s \in Seq(Tuple(k)) /\ Len(s) \in Nat
    BY <2>1 DEF Ascending
  <2>3. \A i \in 1..Len(s) : s[i] \in S
    BY <2>1 DEF RowsIn
  <2>4. s \in Seq(R)
    <3>1. \A i \in 1..Len(s) : s[i] \in R
      BY <2>3
    <3> QED BY <2>2, <3>1
  <2>5. Up(s, ByFirst(R))
    <3> SUFFICES ASSUME NEW i \in 1..Len(s), NEW j \in 1..Len(s), i < j
                 PROVE  <<s[i], s[j]>> \in ByFirst(R)
      BY DEF Up
    <3>1. LexLess(s[i], s[j]) /\ s[i] \in S /\ s[j] \in S /\ s[i] \in R /\ s[j] \in R
      BY <2>1, <2>3 DEF Ascending
    <3>2. s[i] # s[j]
      BY <1>0, <3>1, LexIrreflexive
    <3>3. s[i][1] # s[j][1]
      BY <1>4, <3>1, <3>2 DEF Keyed
    <3> QED BY <1>1, <1>3, <3>1, <3>3
  <2> QED BY <2>1, <2>4, <2>5 DEF s
<1>5. ASSUME NEW s \in Seq(R), Up(s, ByFirst(R))
      PROVE  Ascending(s, k) /\ s = Sorted(RowsIn(s))
  <2>1. \A i \in 1..Len(s) : s[i] \in R
    OBVIOUS
  <2>2. s \in Seq(Tuple(k))
    BY <1>0, <2>1
  <2>3. Ascending(s, k)
    BY <1>1, <1>2, <1>5, <2>1, <2>2 DEF Ascending, Up
  <2> QED BY <2>3, AscendingIsSorted
<1> QED BY <1>4, <1>5

\* A merge by first column of two tables with one row per key.
LEMMA KeyedMerge ==
    ASSUME NEW R, NEW k, NEW P, KeepsFirst(R, k, P),
           NEW A \in SUBSET R, IsFiniteSet(A), Keyed(A),
           NEW B \in SUBSET R, IsFiniteSet(B), Keyed(B),
           NEW m, MergeRule(Sorted(A), Sorted(B), ByFirst(R), P, m),
           NEW C, \A z : z \in C <=> InMerged(z, A, B, ByFirst(R), P)
    PROVE  m[<<1, 1>>] = Sorted(C)
<1> DEFINE a == Sorted(A)
           b == Sorted(B)
           L == ByFirst(R)
           r == m[<<1, 1>>]
<1>0. k \in Nat /\ k >= 1 /\ R \in SUBSET Tuple(k)
  BY DEF KeepsFirst
<1>1. a \in Seq(R) /\ Up(a, L) /\ RowsIn(a) = A
  BY <1>0, KeyedSorted
<1>2. b \in Seq(R) /\ Up(b, L) /\ RowsIn(b) = B
  BY <1>0, KeyedSorted
<1>3. StreamOrder(R, L, P)
  BY FirstStream
<1>4. MergeRule(a, b, L, P, m)
  OBVIOUS
<1> HIDE DEF a, b, L
<1>5. r \in Seq(R) /\ Up(r, L) /\ RowsIn(r) = Merged(A, B, L, P)
  BY <1>1, <1>2, <1>3, <1>4, MergeCorrect
<1>6. \A z : z \in RowsIn(r) <=> z \in C
  BY <1>5, MergedElements DEF L
<1>7. RowsIn(r) = C
  BY <1>6
<1> HIDE DEF r
<1>8. r = Sorted(RowsIn(r))
  BY <1>0, <1>5, KeyedSorted DEF L
<1> QED BY <1>7, <1>8 DEF r

\* A finite map from numbers, and the tables of the two kinds of maps.
IsMap(f, V) ==
    DOMAIN f \in SUBSET Int /\ IsFiniteSet(DOMAIN f) /\ f \in [DOMAIN f -> V]

FileSet(f) == {<<i, f[i]>> : i \in DOMAIN f}
SymSet(f)  == {<<s>> \o f[s] : s \in DOMAIN f}

\* The table of a map has one row per key.
LEMMA FileTable ==
    ASSUME NEW f, IsMap(f, Int)
    PROVE  FileSet(f) \in SUBSET Tuple(2) /\ IsFiniteSet(FileSet(f)) /\ Keyed(FileSet(f))
<1>1. \A i \in DOMAIN f : <<i, f[i]>> \in Tuple(2) /\ <<i, f[i]>>[1] = i
  BY Pairs DEF IsMap
<1>2. FileSet(f) \in SUBSET Tuple(2)
  BY <1>1 DEF FileSet
<1>3. IsFiniteSet(FileSet(f))
  <2> DEFINE g == [i \in DOMAIN f |-> <<i, f[i]>>]
  <2>1. g \in Surjection(DOMAIN f, FileSet(f))
    BY DEF Surjection, FileSet
  <2> HIDE DEF g
  <2> QED BY <2>1, FS_Surjection DEF IsMap
<1>4. Keyed(FileSet(f))
  BY <1>1 DEF FileSet, Keyed
<1> QED BY <1>2, <1>3, <1>4

\* The same for symbols.
LEMMA SymTable ==
    ASSUME NEW f, IsMap(f, SymRow)
    PROVE  SymSet(f) \in SUBSET SymRec /\ IsFiniteSet(SymSet(f)) /\ Keyed(SymSet(f))
<1>1. \A s \in DOMAIN f : <<s>> \o f[s] \in SymRec /\ (<<s>> \o f[s])[1] = s
  BY SymRecs DEF IsMap
<1>2. SymSet(f) \in SUBSET SymRec
  BY <1>1 DEF SymSet
<1>3. IsFiniteSet(SymSet(f))
  <2> DEFINE g == [s \in DOMAIN f |-> <<s>> \o f[s]]
  <2>1. g \in Surjection(DOMAIN f, SymSet(f))
    BY DEF Surjection, SymSet
  <2> HIDE DEF g
  <2> QED BY <2>1, FS_Surjection DEF IsMap
<1>4. Keyed(SymSet(f))
  BY <1>1 DEF SymSet, Keyed
<1> QED BY <1>2, <1>3, <1>4

\* merge_files_first_wins is merge_from's rule for files.
LEMMA FileMerge ==
    ASSUME NEW f, IsMap(f, Int), NEW g, IsMap(g, Int)
    PROVE  /\ IsMap(MergeFiles(f, g), Int)
           /\ merge_files_first_wins(FileRows(f), FileRows(g)) = FileRows(MergeFiles(f, g))
<1> DEFINE A == FileSet(f)
           B == FileSet(g)
           h == MergeFiles(f, g)
           C == FileSet(h)
           R == Tuple(2)
<1>1. DOMAIN h = DOMAIN f \cup DOMAIN g /\ \A i \in DOMAIN h : h[i] = IF i \in DOMAIN f THEN f[i] ELSE g[i]
  BY DEF MergeFiles
<1>2. IsMap(h, Int)
  <2>1. IsFiniteSet(DOMAIN f \cup DOMAIN g)
    BY FS_Union DEF IsMap
  <2>2. h \in [DOMAIN f \cup DOMAIN g -> Int]
    BY DEF MergeFiles, IsMap
  <2> HIDE DEF h
  <2> QED BY <1>1, <2>1, <2>2 DEF IsMap
<1>3. A \in SUBSET R /\ IsFiniteSet(A) /\ Keyed(A) /\ B \in SUBSET R /\ IsFiniteSet(B) /\ Keyed(B)
  BY FileTable
<1>4. FileRows(f) = Sorted(A) /\ FileRows(g) = Sorted(B) /\ FileRows(h) = Sorted(C)
  BY DEF FileRows, FileSet
<1>5. Sorted(A) \in Seq(R) /\ Sorted(B) \in Seq(R)
  BY <1>3, KeyedSorted
<1>6. KeepsFirst(R, 2, FilePick)
  BY FileStream DEF KeepsFirst
<1>7. ASSUME NEW z PROVE z \in C <=> InMerged(z, A, B, ByFirst(R), FilePick)
  <2>1. \A x, y \in R : (Tie(ByFirst(R), x, y) <=> x[1] = y[1]) /\ FilePick[<<x, y>>] = x
    BY FileStream
  <2>2. /\ \A u : u \in A <=> \E i \in DOMAIN f : u = <<i, f[i]>>
        /\ \A u : u \in B <=> \E i \in DOMAIN g : u = <<i, g[i]>>
        /\ \A u : u \in C <=> \E i \in DOMAIN h : u = <<i, h[i]>>
    BY DEF FileSet
  <2>3. \A i, v : <<i, v>>[1] = i
    OBVIOUS
  <2> HIDE DEF h, A, B, C, R
  <2>4. ASSUME z \in C PROVE InMerged(z, A, B, ByFirst(R), FilePick)
    <3>1. PICK i \in DOMAIN h : z = <<i, h[i]>>
      BY <2>2, <2>4
    <3>2. CASE i \in DOMAIN f
      <4>1. z = <<i, f[i]>> /\ z \in A
        BY <1>1, <2>2, <3>1, <3>2
      <4>2. CASE i \in DOMAIN g
        <5>1. <<i, g[i]>> \in B
          BY <2>2, <4>2
        <5>2. Tie(ByFirst(R), z, <<i, g[i]>>) /\ FilePick[<<z, <<i, g[i]>>>>] = z
          BY <1>3, <2>1, <2>3, <4>1, <5>1
        <5> QED BY <4>1, <5>1, <5>2 DEF InMerged
      <4>3. CASE i \notin DOMAIN g
        <5>1. ASSUME NEW y \in B PROVE ~ Tie(ByFirst(R), z, y)
          <6>1. PICK j \in DOMAIN g : y = <<j, g[j]>>
            BY <2>2
          <6>2. z[1] = i /\ y[1] = j /\ i # j /\ z \in R /\ y \in R
            BY <1>3, <2>3, <4>1, <4>3, <6>1
          <6> QED BY <2>1, <6>2
        <5> QED BY <4>1, <5>1 DEF InMerged
      <4> QED BY <4>2, <4>3
    <3>3. CASE i \notin DOMAIN f
      <4>1. z = <<i, g[i]>> /\ z \in B
        BY <1>1, <2>2, <3>1, <3>3
      <4>2. ASSUME NEW x \in A PROVE ~ Tie(ByFirst(R), x, z)
        <5>1. PICK j \in DOMAIN f : x = <<j, f[j]>>
          BY <2>2
        <5>2. z[1] = i /\ x[1] = j /\ i # j /\ z \in R /\ x \in R
          BY <1>3, <2>3, <3>3, <4>1, <5>1
        <5> QED BY <2>1, <5>2
      <4> QED BY <4>1, <4>2 DEF InMerged
    <3> QED BY <3>2, <3>3
  <2>5. ASSUME InMerged(z, A, B, ByFirst(R), FilePick) PROVE z \in C
    <3>1. \A x \in A : x \in C
      BY <1>1, <2>2
    <3>2. CASE z \in A
      BY <3>1, <3>2
    <3>3. CASE z \in B /\ \A x \in A : ~ Tie(ByFirst(R), x, z)
      <4>1. PICK i \in DOMAIN g : z = <<i, g[i]>>
        BY <2>2, <3>3
      <4>2. i \notin DOMAIN f
        <5> SUFFICES ASSUME i \in DOMAIN f PROVE FALSE
          OBVIOUS
        <5>1. <<i, f[i]>> \in A
          BY <2>2
        <5> QED BY <1>3, <2>1, <2>3, <3>3, <4>1, <5>1
      <4> QED BY <1>1, <2>2, <4>1, <4>2
    <3>4. CASE \E x \in A, y \in B : Tie(ByFirst(R), x, y) /\ z = FilePick[<<x, y>>]
      BY <1>3, <2>1, <3>1, <3>4
    <3> QED BY <2>5, <3>2, <3>3, <3>4 DEF InMerged
  <2> QED BY <2>4, <2>5
<1>8. PICK m : /\ MergeRule(Sorted(A), Sorted(B), ByFirst(R), FilePick, m)
               /\ merge_files_first_wins(Sorted(A), Sorted(B)) = m[<<1, 1>>]
  BY <1>5, FileRule
<1> HIDE DEF A, B, C, R
<1>9. m[<<1, 1>>] = Sorted(C)
  BY <1>3, <1>6, <1>7, <1>8, KeyedMerge
<1> QED BY <1>2, <1>4, <1>8, <1>9

\* merge_syms_refine is merge_from's rule for symbols.
LEMMA SymMerge ==
    ASSUME NEW f, IsMap(f, SymRow), NEW g, IsMap(g, SymRow)
    PROVE  /\ IsMap(MergeSyms(f, g), SymRow)
           /\ merge_syms_refine(SymRows(f), SymRows(g)) = SymRows(MergeSyms(f, g))
<1> DEFINE A == SymSet(f)
           B == SymSet(g)
           h == MergeSyms(f, g)
           C == SymSet(h)
           R == SymRec
<1>1. /\ DOMAIN h = DOMAIN f \cup DOMAIN g
      /\ \A s \in DOMAIN h : h[s] = IF s \notin DOMAIN g THEN f[s]
                                    ELSE IF s \notin DOMAIN f THEN g[s] ELSE Refine(f[s], g[s])
  BY DEF MergeSyms
<1>2. IsMap(h, SymRow)
  <2>1. IsFiniteSet(DOMAIN f \cup DOMAIN g)
    BY FS_Union DEF IsMap
  <2>2. \A s \in DOMAIN h : h[s] \in SymRow
    BY <1>1, RefineType DEF IsMap
  <2>3. h = [s \in DOMAIN h |-> h[s]]
    BY DEF MergeSyms
  <2> HIDE DEF h
  <2> QED BY <1>1, <2>1, <2>2, <2>3 DEF IsMap
<1>3. A \in SUBSET R /\ IsFiniteSet(A) /\ Keyed(A) /\ B \in SUBSET R /\ IsFiniteSet(B) /\ Keyed(B)
  BY SymTable
<1>4. SymRows(f) = Sorted(A) /\ SymRows(g) = Sorted(B) /\ SymRows(h) = Sorted(C)
  BY DEF SymRows, SymSet
<1>5. Sorted(A) \in Seq(R) /\ Sorted(B) \in Seq(R)
  <2>1. R \in SUBSET Tuple(4)
    BY DEF SymRec
  <2> QED BY <1>3, <2>1, KeyedSorted
<1>6. KeepsFirst(R, 4, SymPick)
  <2>1. R \in SUBSET Tuple(4)
    BY DEF SymRec
  <2>2. \A x, y \in R : x[1] = y[1] => SymPick[<<x, y>>][1] = x[1]
    <3>1. \A x, y \in R : Refine(Tail(x), Tail(y)) \in SymRow
      BY SymRecs, RefineType
    <3>2. \A x, y \in R : (<<x[1]>> \o Refine(Tail(x), Tail(y)))[1] = x[1]
      BY <3>1, SymRecs
    <3>3. \A x, y \in R : SymPick[<<x, y>>] = <<x[1]>> \o Refine(Tail(x), Tail(y))
      BY SymStream
    <3> HIDE DEF R
    <3>4. ASSUME NEW x \in R, NEW y \in R PROVE SymPick[<<x, y>>][1] = x[1]
      <4> DEFINE p == SymPick[<<x, y>>]
                 q == <<x[1]>> \o Refine(Tail(x), Tail(y))
      <4>1. p = q
        BY <3>3
      <4>2. q[1] = x[1]
        BY <3>2
      <4> HIDE DEF p, q
      <4>3. p[1] = x[1]
        BY <4>1, <4>2
      <4> QED BY <4>3 DEF p
    <3> QED BY <3>4
  <2> QED BY <2>1, <2>2, SymStream DEF KeepsFirst
<1>7. ASSUME NEW z PROVE z \in C <=> InMerged(z, A, B, ByFirst(R), SymPick)
  <2>1. \A x, y \in R : /\ Tie(ByFirst(R), x, y) <=> x[1] = y[1]
                        /\ SymPick[<<x, y>>] = <<x[1]>> \o Refine(Tail(x), Tail(y))
    BY SymStream
  <2>2. /\ \A u : u \in A <=> \E s \in DOMAIN f : u = <<s>> \o f[s]
        /\ \A u : u \in B <=> \E s \in DOMAIN g : u = <<s>> \o g[s]
        /\ \A u : u \in C <=> \E s \in DOMAIN h : u = <<s>> \o h[s]
    BY DEF SymSet
  <2>3. /\ \A s \in DOMAIN f : (<<s>> \o f[s])[1] = s /\ Tail(<<s>> \o f[s]) = f[s] /\ <<s>> \o f[s] \in R
        /\ \A s \in DOMAIN g : (<<s>> \o g[s])[1] = s /\ Tail(<<s>> \o g[s]) = g[s] /\ <<s>> \o g[s] \in R
    BY SymRecs DEF IsMap
  <2> HIDE DEF h, A, B, C, R
  <2>4. ASSUME NEW s \in DOMAIN f, NEW t \in DOMAIN g
        PROVE  /\ Tie(ByFirst(R), <<s>> \o f[s], <<t>> \o g[t]) <=> s = t
               /\ SymPick[<<<<s>> \o f[s], <<t>> \o g[t]>>] = <<s>> \o Refine(f[s], g[t])
    <3> DEFINE x == <<s>> \o f[s]
               y == <<t>> \o g[t]
    <3>1. /\ x \in R /\ x[1] = s /\ Tail(x) = f[s]
          /\ y \in R /\ y[1] = t /\ Tail(y) = g[t]
      BY <2>3
    <3> HIDE DEF x, y
    <3>2. /\ Tie(ByFirst(R), x, y) <=> x[1] = y[1]
          /\ SymPick[<<x, y>>] = <<x[1]>> \o Refine(Tail(x), Tail(y))
      BY <2>1, <3>1
    <3>3. (Tie(ByFirst(R), x, y) <=> s = t) /\ SymPick[<<x, y>>] = <<s>> \o Refine(f[s], g[t])
      BY <3>1, <3>2
    <3> QED BY <3>3 DEF x, y
  <2>5. ASSUME z \in C PROVE InMerged(z, A, B, ByFirst(R), SymPick)
    <3>1. PICK s \in DOMAIN h : z = <<s>> \o h[s]
      BY <2>2, <2>5
    <3>2. CASE s \in DOMAIN f /\ s \in DOMAIN g
      <4>1. z = <<s>> \o Refine(f[s], g[s])
        BY <1>1, <3>1, <3>2
      <4>2. <<s>> \o f[s] \in A /\ <<s>> \o g[s] \in B
        BY <2>2, <3>2
      <4>3. Tie(ByFirst(R), <<s>> \o f[s], <<s>> \o g[s]) /\ z = SymPick[<<<<s>> \o f[s], <<s>> \o g[s]>>]
        BY <2>4, <3>2, <4>1
      <4> QED BY <4>2, <4>3 DEF InMerged
    <3>3. CASE s \in DOMAIN f /\ s \notin DOMAIN g
      <4>1. z = <<s>> \o f[s] /\ z \in A
        BY <1>1, <2>2, <3>1, <3>3
      <4>2. ASSUME NEW y \in B PROVE ~ Tie(ByFirst(R), z, y)
        <5>1. PICK t \in DOMAIN g : y = <<t>> \o g[t]
          BY <2>2
        <5> QED BY <2>4, <3>3, <4>1, <5>1
      <4> QED BY <4>1, <4>2 DEF InMerged
    <3>4. CASE s \notin DOMAIN f
      <4>1. s \in DOMAIN g /\ z = <<s>> \o g[s] /\ z \in B
        BY <1>1, <2>2, <3>1, <3>4
      <4>2. ASSUME NEW x \in A PROVE ~ Tie(ByFirst(R), x, z)
        <5>1. PICK t \in DOMAIN f : x = <<t>> \o f[t]
          BY <2>2
        <5> QED BY <2>4, <3>4, <4>1, <5>1
      <4> QED BY <4>1, <4>2 DEF InMerged
    <3> QED BY <3>2, <3>3, <3>4
  <2>6. ASSUME InMerged(z, A, B, ByFirst(R), SymPick) PROVE z \in C
    <3>1. CASE z \in A /\ \A y \in B : ~ Tie(ByFirst(R), z, y)
      <4>1. PICK s \in DOMAIN f : z = <<s>> \o f[s]
        BY <2>2, <3>1
      <4>2. s \notin DOMAIN g
        BY <2>2, <2>4, <3>1, <4>1
      <4>3. s \in DOMAIN h /\ h[s] = f[s]
        BY <1>1, <4>2
      <4> QED BY <2>2, <4>1, <4>3
    <3>2. CASE z \in B /\ \A x \in A : ~ Tie(ByFirst(R), x, z)
      <4>1. PICK s \in DOMAIN g : z = <<s>> \o g[s]
        BY <2>2, <3>2
      <4>2. s \notin DOMAIN f
        BY <2>2, <2>4, <3>2, <4>1
      <4>3. s \in DOMAIN h /\ h[s] = g[s]
        BY <1>1, <4>2
      <4> QED BY <2>2, <4>1, <4>3
    <3>3. CASE \E x \in A, y \in B : Tie(ByFirst(R), x, y) /\ z = SymPick[<<x, y>>]
      <4>1. PICK x \in A, y \in B : Tie(ByFirst(R), x, y) /\ z = SymPick[<<x, y>>]
        BY <3>3
      <4>2. PICK s \in DOMAIN f : x = <<s>> \o f[s]
        BY <2>2
      <4>3. PICK t \in DOMAIN g : y = <<t>> \o g[t]
        BY <2>2
      <4>4. s = t /\ z = <<s>> \o Refine(f[s], g[s])
        BY <2>4, <4>1, <4>2, <4>3
      <4>5. s \in DOMAIN h /\ h[s] = Refine(f[s], g[s])
        BY <1>1, <4>4
      <4> QED BY <2>2, <4>4, <4>5
    <3> QED BY <2>6, <3>1, <3>2, <3>3 DEF InMerged
  <2> QED BY <2>5, <2>6
<1>8. PICK m : /\ MergeRule(Sorted(A), Sorted(B), ByFirst(R), SymPick, m)
               /\ merge_syms_refine(Sorted(A), Sorted(B)) = m[<<1, 1>>]
  BY <1>5, SymRule
<1> HIDE DEF A, B, C, R
<1>9. m[<<1, 1>>] = Sorted(C)
  BY <1>3, <1>6, <1>7, <1>8, KeyedMerge
<1> QED BY <1>2, <1>4, <1>8, <1>9

\* The rows of S with the smallest string of their symbol.
Least(S) == {r \in S : \A q \in S : q[1] = r[1] => r[2] <= q[2]}

\* A table of strings keeps one row per symbol, and loses no symbol.
LEMMA LeastRows ==
    ASSUME NEW S \in SUBSET StrRec
    PROVE  /\ Least(S) \in SUBSET S /\ Keyed(Least(S))
           /\ IsFiniteSet(S) => IsFiniteSet(Least(S))
           /\ \A r \in S : \E q \in Least(S) : q[1] = r[1] /\ q[2] <= r[2]
<1>0. \A r \in S : r = <<r[1], r[2]>> /\ r[1] \in Int /\ r[2] \in Nat
  BY Pairs, StringsAssumption DEF StrRec
<1>1. Least(S) \in SUBSET S
  BY DEF Least
<1>2. Keyed(Least(S))
  <2> SUFFICES ASSUME NEW x \in Least(S), NEW y \in Least(S), x[1] = y[1] PROVE x = y
    BY DEF Keyed
  <2>1. x \in S /\ y \in S /\ x[2] <= y[2] /\ y[2] <= x[2]
    BY DEF Least
  <2>2. x[2] = y[2]
    BY <1>0, <2>1
  <2> QED BY <1>0, <2>1, <2>2
<1>3. IsFiniteSet(S) => IsFiniteSet(Least(S))
  BY <1>1, FS_Subset
<1>4. ASSUME NEW r \in S PROVE \E q \in Least(S) : q[1] = r[1] /\ q[2] <= r[2]
  <2> DEFINE N == {n \in Nat : \E q \in S : q[1] = r[1] /\ q[2] = n}
  <2>1. N \in SUBSET Nat /\ r[2] \in N
    BY <1>0
  <2>2. PICK n \in N : \A l \in N : n <= l
    <3>1. N # {}
      BY <2>1
    <3> HIDE DEF N
    <3> QED BY <2>1, <3>1, LeastNat
  <2>3. PICK q \in S : q[1] = r[1] /\ q[2] = n
    BY <2>2
  <2>4. \A p \in S : p[1] = q[1] => p[2] \in N
    BY <1>0, <2>3
  <2>5. q \in Least(S)
    BY <2>2, <2>3, <2>4 DEF Least
  <2> QED BY <2>1, <2>2, <2>3, <2>5
<1> QED BY <1>1, <1>2, <1>3, <1>4

\* merge_typed_by_sym keeps the smallest string of each symbol.
LEMMA StrMerge ==
    ASSUME NEW S \in SUBSET StrRec, IsFiniteSet(S), NEW T \in SUBSET StrRec, IsFiniteSet(T)
    PROVE  merge_typed_by_sym(OnePerSym(S), OnePerSym(T)) = OnePerSym(S \cup T)
<1> DEFINE U == S \cup T
           A == Least(S)
           B == Least(T)
           C == Least(U)
           R == StrRec
<1>1. OnePerSym(S) = Sorted(A) /\ OnePerSym(T) = Sorted(B) /\ OnePerSym(U) = Sorted(C)
  BY DEF OnePerSym, Least
<1>2. \A r \in R : r = <<r[1], r[2]>> /\ r[1] \in Int /\ r[2] \in Nat
  BY Pairs, StringsAssumption DEF StrRec
<1>3. /\ A \in SUBSET R /\ IsFiniteSet(A) /\ Keyed(A) /\ B \in SUBSET R /\ IsFiniteSet(B) /\ Keyed(B)
      /\ \A r \in S : \E q \in A : q[1] = r[1] /\ q[2] <= r[2]
      /\ \A r \in T : \E q \in B : q[1] = r[1] /\ q[2] <= r[2]
  BY LeastRows
<1>4. R \in SUBSET Tuple(2)
  BY DEF StrRec
<1>5. Sorted(A) \in Seq(R) /\ Sorted(B) \in Seq(R)
  BY <1>3, <1>4, KeyedSorted
<1>6. /\ \A x, y \in R : /\ Tie(ByFirst(R), x, y) <=> x[1] = y[1]
                         /\ StrPick[<<x, y>>] = <<x[1], PickString(x[2], y[2])>>
                         /\ PickString(x[2], y[2]) = IF y[2] < x[2] THEN y[2] ELSE x[2]
      /\ StrPick \in [R \X R -> R]
  BY StrStream
<1>7. KeepsFirst(R, 2, StrPick)
  <2>1. ASSUME NEW x \in R, NEW y \in R PROVE StrPick[<<x, y>>][1] = x[1]
    <3> DEFINE p == StrPick[<<x, y>>]
               n == PickString(x[2], y[2])
    <3>1. p = <<x[1], n>>
      BY <1>6
    <3> HIDE DEF p, n
    <3>2. p[1] = x[1]
      BY <3>1
    <3> QED BY <3>2 DEF p
  <2> QED BY <1>4, <1>6, <2>1 DEF KeepsFirst
<1>8. /\ \A r : r \in A <=> r \in S /\ \A q \in S : q[1] = r[1] => r[2] <= q[2]
      /\ \A r : r \in B <=> r \in T /\ \A q \in T : q[1] = r[1] => r[2] <= q[2]
      /\ \A r : r \in C <=> (r \in S \/ r \in T) /\ \A q : (q \in S \/ q \in T) => (q[1] = r[1] => r[2] <= q[2])
  BY DEF Least
<1>9. \A r : (r \in S => r \in R) /\ (r \in T => r \in R)
  OBVIOUS
<1> HIDE DEF A, B, C, R, U
<1>10. ASSUME NEW x \in R, NEW y \in R, x[1] = y[1]
       PROVE  /\ Tie(ByFirst(R), x, y)
              /\ y[2] < x[2] => StrPick[<<x, y>>] = y
              /\ x[2] <= y[2] => StrPick[<<x, y>>] = x
              /\ x[2] = y[2] => x = y
  <2>1. /\ Tie(ByFirst(R), x, y)
        /\ StrPick[<<x, y>>] = <<x[1], IF y[2] < x[2] THEN y[2] ELSE x[2]>>
    BY <1>6, <1>10
  <2>2. x = <<x[1], x[2]>> /\ y = <<y[1], y[2]>> /\ x[2] \in Nat /\ y[2] \in Nat
    BY <1>2
  <2>3. y[2] < x[2] => StrPick[<<x, y>>] = y
    BY <1>10, <2>1, <2>2
  <2>4. x[2] <= y[2] => StrPick[<<x, y>>] = x
    <3>1. x[2] <= y[2] => ~ (y[2] < x[2])
      BY <2>2
    <3> QED BY <2>1, <2>2, <3>1
  <2> QED BY <1>10, <2>1, <2>2, <2>3, <2>4
<1>11. ASSUME NEW z PROVE z \in C <=> InMerged(z, A, B, ByFirst(R), StrPick)
  <2>1. ASSUME z \in C PROVE InMerged(z, A, B, ByFirst(R), StrPick)
    <3>1. CASE z \in S
      <4>1. z \in A /\ z \in R
        BY <1>8, <1>9, <2>1, <3>1
      <4>2. CASE \E y \in B : Tie(ByFirst(R), z, y)
        <5>1. PICK y \in B : Tie(ByFirst(R), z, y)
          BY <4>2
        <5>2. y \in R /\ y \in T /\ y[1] = z[1]
          BY <1>6, <1>8, <1>9, <4>1, <5>1
        <5>3. z[2] <= y[2]
          BY <1>8, <2>1, <5>2
        <5>4. z = StrPick[<<z, y>>]
          BY <1>10, <4>1, <5>2, <5>3
        <5> QED BY <4>1, <5>1, <5>4 DEF InMerged
      <4> QED BY <4>1, <4>2 DEF InMerged
    <3>2. CASE z \in T
      <4>1. z \in B /\ z \in R
        BY <1>8, <1>9, <2>1, <3>2
      <4>2. CASE \E x \in A : Tie(ByFirst(R), x, z)
        <5>1. PICK x \in A : Tie(ByFirst(R), x, z)
          BY <4>2
        <5>2. x \in R /\ x \in S /\ x[1] = z[1]
          BY <1>6, <1>8, <1>9, <4>1, <5>1
        <5>3. z[2] <= x[2]
          BY <1>8, <2>1, <5>2
        <5>4. z[2] < x[2] \/ x[2] = z[2]
          BY <1>2, <4>1, <5>2, <5>3
        <5>5. z = StrPick[<<x, z>>]
          <6>1. CASE z[2] < x[2]
            BY <1>10, <4>1, <5>2, <6>1
          <6>2. CASE x[2] = z[2]
            BY <1>10, <4>1, <5>2, <5>3, <6>2
          <6> QED BY <5>4, <6>1, <6>2
        <5> QED BY <4>1, <5>1, <5>5 DEF InMerged
      <4> QED BY <4>1, <4>2 DEF InMerged
    <3> QED BY <1>8, <2>1, <3>1, <3>2
  <2>2. ASSUME InMerged(z, A, B, ByFirst(R), StrPick) PROVE z \in C
    <3>1. CASE z \in A /\ \A y \in B : ~ Tie(ByFirst(R), z, y)
      <4>1. z \in S /\ z \in R /\ \A q \in S : q[1] = z[1] => z[2] <= q[2]
        BY <1>8, <1>9, <3>1
      <4>2. \A q \in T : q[1] # z[1]
        <5> SUFFICES ASSUME NEW q \in T, q[1] = z[1] PROVE FALSE
          OBVIOUS
        <5>1. PICK y \in B : y[1] = q[1]
          BY <1>3
        <5>2. y \in R /\ z[1] = y[1]
          BY <1>8, <1>9, <5>1
        <5> QED BY <1>10, <3>1, <4>1, <5>2
      <4> QED BY <1>8, <4>1, <4>2
    <3>2. CASE z \in B /\ \A x \in A : ~ Tie(ByFirst(R), x, z)
      <4>1. z \in T /\ z \in R /\ \A q \in T : q[1] = z[1] => z[2] <= q[2]
        BY <1>8, <1>9, <3>2
      <4>2. \A q \in S : q[1] # z[1]
        <5> SUFFICES ASSUME NEW q \in S, q[1] = z[1] PROVE FALSE
          OBVIOUS
        <5>1. PICK x \in A : x[1] = q[1]
          BY <1>3
        <5>2. x \in R /\ x[1] = z[1]
          BY <1>8, <1>9, <5>1
        <5> QED BY <1>10, <3>2, <4>1, <5>2
      <4> QED BY <1>8, <4>1, <4>2
    <3>3. CASE \E x \in A, y \in B : Tie(ByFirst(R), x, y) /\ z = StrPick[<<x, y>>]
      <4>1. PICK x \in A, y \in B : Tie(ByFirst(R), x, y) /\ z = StrPick[<<x, y>>]
        BY <3>3
      <4>2. x \in R /\ y \in R /\ x \in S /\ y \in T /\ x[1] = y[1]
        BY <1>6, <1>8, <1>9, <4>1
      <4>3. x[2] \in Nat /\ y[2] \in Nat /\ \A q : (q \in S \/ q \in T) => q[2] \in Nat
        BY <1>2, <1>9, <4>2
      <4>4. CASE y[2] < x[2]
        <5>1. z = y
          BY <1>10, <4>1, <4>2, <4>4
        <5>2. \A q \in T : q[1] = y[1] => y[2] <= q[2]
          BY <1>8
        <5>3. \A q \in S : q[1] = x[1] => x[2] <= q[2]
          BY <1>8
        <5>4. \A q \in S : q[1] = y[1] => y[2] <= q[2]
          BY <4>2, <4>3, <4>4, <5>3
        <5> QED BY <1>8, <4>2, <5>1, <5>2, <5>4
      <4>5. CASE ~ (y[2] < x[2])
        <5>0. x[2] <= y[2]
          BY <4>3, <4>5
        <5>1. z = x
          BY <1>10, <4>1, <4>2, <5>0
        <5>2. \A q \in T : q[1] = y[1] => y[2] <= q[2]
          BY <1>8
        <5>3. \A q \in S : q[1] = x[1] => x[2] <= q[2]
          BY <1>8
        <5>4. \A q \in T : q[1] = x[1] => x[2] <= q[2]
          BY <4>2, <4>3, <5>0, <5>2
        <5> QED BY <1>8, <4>2, <5>1, <5>3, <5>4
      <4> QED BY <4>4, <4>5
    <3> QED BY <2>2, <3>1, <3>2, <3>3 DEF InMerged
  <2> QED BY <2>1, <2>2
<1>12. PICK m : /\ MergeRule(Sorted(A), Sorted(B), ByFirst(R), StrPick, m)
                /\ merge_typed_by_sym(Sorted(A), Sorted(B)) = m[<<1, 1>>]
  BY <1>5, StrRule DEF R
<1>13. m[<<1, 1>>] = Sorted(C)
  BY <1>3, <1>7, <1>11, <1>12, KeyedMerge
<1> QED BY <1>1, <1>12, <1>13 DEF U

-----------------------------------------------------------------------------
(* Folds.  The q of a fold is a sequence of n elements, and S a set that   *)
(* its steps do not leave: then the fold has a value h[k] after k of them. *)

DedupSteps(n, q, S, z) ==
    /\ n \in Nat /\ DOMAIN q = 1..n /\ z \in S
    /\ \A x \in S, i \in 1..n : merge_sorted_dedup(x, q[i]) \in S

DedupStages(h, n, q, S, z) ==
    /\ h \in [0..n -> S] /\ h[0] = z
    /\ \A k \in 1..n : h[k - 1] \in S /\ h[k] = merge_sorted_dedup(h[k - 1], q[k])
    /\ FoldLeft(merge_sorted_dedup, z, q) = h[n]

\* A fold of merge_sorted_dedup has stages.
LEMMA DedupFold ==
    ASSUME NEW n, NEW q, NEW S, NEW z, DedupSteps(n, q, S, z)
    PROVE  \E h : DedupStages(h, n, q, S, z)
<1> DEFINE Body(f, s) == IF s = {} THEN z ELSE merge_sorted_dedup(f[s \ {Max(s)}], q[Max(s)])
           E(f) == f = [s \in SUBSET (DOMAIN q) |-> Body(f, s)]
           it == CHOOSE f : E(f)
           U == [p \in S \X (1..n) |-> merge_sorted_dedup(p[1], q[p[2]])]
<1>1. FoldLeft(merge_sorted_dedup, z, q) = it[DOMAIN q]
  BY Zenon DEF FoldLeft, MapThenFoldSet
<1>2. /\ n \in Nat /\ DOMAIN q = 1..n /\ z \in S
      /\ U \in [S \X (1..n) -> S] /\ \A x \in S, i \in 1..n : U[<<x, i>>] = merge_sorted_dedup(x, q[i])
  BY DEF DedupSteps
<1> HIDE DEF U
<1>3. PICK f : /\ f = [s \in SUBSET (1..n) |-> f[s]] /\ FoldsBy(f, n, S, z, U)
               /\ \A s \in SUBSET (1..n) : s # {} => f[s \ {Max(s)}] \in S /\ Max(s) \in 1..n
  <2>1. n \in Nat /\ z \in S /\ U \in [S \X (1..n) -> S]
    BY <1>2
  <2> QED BY <2>1, FoldTable, Zenon
<1>4. E(f)
  <2>1. \A s \in SUBSET (1..n) : f[s] = Body(f, s)
    BY <1>2, <1>3 DEF FoldsBy
  <2> HIDE DEF Body
  <2> QED BY <1>2, <1>3, <2>1
<1>5. E(it)
  <2> HIDE DEF E
  <2> QED BY <1>4
<1> HIDE DEF it
<1>6. FoldsBy(it, n, S, z, U)
  <2>1. \A s \in SUBSET (1..n) : it[s] = Body(it, s)
    <3> HIDE DEF Body
    <3> QED BY <1>2, <1>5
  <2>2. {} \in SUBSET (1..n) /\ \A s \in SUBSET (1..n) : s # {} => Max(s) \in 1..n
    BY <1>3
  <2> QED BY <1>2, <2>1, <2>2 DEF FoldsBy
<1>7. PICK h : StagesOf(h, it, n, S, z, U)
  BY <1>6, FoldStages
<1> QED BY <1>1, <1>2, <1>7 DEF StagesOf, DedupStages

FileSteps(n, q, S, z) ==
    /\ n \in Nat /\ DOMAIN q = 1..n /\ z \in S
    /\ \A x \in S, i \in 1..n : merge_files_first_wins(x, q[i]) \in S

FileStages(h, n, q, S, z) ==
    /\ h \in [0..n -> S] /\ h[0] = z
    /\ \A k \in 1..n : h[k - 1] \in S /\ h[k] = merge_files_first_wins(h[k - 1], q[k])
    /\ FoldLeft(merge_files_first_wins, z, q) = h[n]

\* A fold of merge_files_first_wins has stages.
LEMMA FileFold ==
    ASSUME NEW n, NEW q, NEW S, NEW z, FileSteps(n, q, S, z)
    PROVE  \E h : FileStages(h, n, q, S, z)
<1> DEFINE Body(f, s) == IF s = {} THEN z ELSE merge_files_first_wins(f[s \ {Max(s)}], q[Max(s)])
           E(f) == f = [s \in SUBSET (DOMAIN q) |-> Body(f, s)]
           it == CHOOSE f : E(f)
           U == [p \in S \X (1..n) |-> merge_files_first_wins(p[1], q[p[2]])]
<1>1. FoldLeft(merge_files_first_wins, z, q) = it[DOMAIN q]
  BY Zenon DEF FoldLeft, MapThenFoldSet
<1>2. /\ n \in Nat /\ DOMAIN q = 1..n /\ z \in S
      /\ U \in [S \X (1..n) -> S] /\ \A x \in S, i \in 1..n : U[<<x, i>>] = merge_files_first_wins(x, q[i])
  BY DEF FileSteps
<1> HIDE DEF U
<1>3. PICK f : /\ f = [s \in SUBSET (1..n) |-> f[s]] /\ FoldsBy(f, n, S, z, U)
               /\ \A s \in SUBSET (1..n) : s # {} => f[s \ {Max(s)}] \in S /\ Max(s) \in 1..n
  <2>1. n \in Nat /\ z \in S /\ U \in [S \X (1..n) -> S]
    BY <1>2
  <2> QED BY <2>1, FoldTable, Zenon
<1>4. E(f)
  <2>1. \A s \in SUBSET (1..n) : f[s] = Body(f, s)
    BY <1>2, <1>3 DEF FoldsBy
  <2> HIDE DEF Body
  <2> QED BY <1>2, <1>3, <2>1
<1>5. E(it)
  <2> HIDE DEF E
  <2> QED BY <1>4
<1> HIDE DEF it
<1>6. FoldsBy(it, n, S, z, U)
  <2>1. \A s \in SUBSET (1..n) : it[s] = Body(it, s)
    <3> HIDE DEF Body
    <3> QED BY <1>2, <1>5
  <2>2. {} \in SUBSET (1..n) /\ \A s \in SUBSET (1..n) : s # {} => Max(s) \in 1..n
    BY <1>3
  <2> QED BY <1>2, <2>1, <2>2 DEF FoldsBy
<1>7. PICK h : StagesOf(h, it, n, S, z, U)
  BY <1>6, FoldStages
<1> QED BY <1>1, <1>2, <1>7 DEF StagesOf, FileStages

SymSteps(n, q, S, z) ==
    /\ n \in Nat /\ DOMAIN q = 1..n /\ z \in S
    /\ \A x \in S, i \in 1..n : merge_syms_refine(x, q[i]) \in S

SymStages(h, n, q, S, z) ==
    /\ h \in [0..n -> S] /\ h[0] = z
    /\ \A k \in 1..n : h[k - 1] \in S /\ h[k] = merge_syms_refine(h[k - 1], q[k])
    /\ FoldLeft(merge_syms_refine, z, q) = h[n]

\* A fold of merge_syms_refine has stages.
LEMMA SymFold ==
    ASSUME NEW n, NEW q, NEW S, NEW z, SymSteps(n, q, S, z)
    PROVE  \E h : SymStages(h, n, q, S, z)
<1> DEFINE Body(f, s) == IF s = {} THEN z ELSE merge_syms_refine(f[s \ {Max(s)}], q[Max(s)])
           E(f) == f = [s \in SUBSET (DOMAIN q) |-> Body(f, s)]
           it == CHOOSE f : E(f)
           U == [p \in S \X (1..n) |-> merge_syms_refine(p[1], q[p[2]])]
<1>1. FoldLeft(merge_syms_refine, z, q) = it[DOMAIN q]
  BY Zenon DEF FoldLeft, MapThenFoldSet
<1>2. /\ n \in Nat /\ DOMAIN q = 1..n /\ z \in S
      /\ U \in [S \X (1..n) -> S] /\ \A x \in S, i \in 1..n : U[<<x, i>>] = merge_syms_refine(x, q[i])
  BY DEF SymSteps
<1> HIDE DEF U
<1>3. PICK f : /\ f = [s \in SUBSET (1..n) |-> f[s]] /\ FoldsBy(f, n, S, z, U)
               /\ \A s \in SUBSET (1..n) : s # {} => f[s \ {Max(s)}] \in S /\ Max(s) \in 1..n
  <2>1. n \in Nat /\ z \in S /\ U \in [S \X (1..n) -> S]
    BY <1>2
  <2> QED BY <2>1, FoldTable, Zenon
<1>4. E(f)
  <2>1. \A s \in SUBSET (1..n) : f[s] = Body(f, s)
    BY <1>2, <1>3 DEF FoldsBy
  <2> HIDE DEF Body
  <2> QED BY <1>2, <1>3, <2>1
<1>5. E(it)
  <2> HIDE DEF E
  <2> QED BY <1>4
<1> HIDE DEF it
<1>6. FoldsBy(it, n, S, z, U)
  <2>1. \A s \in SUBSET (1..n) : it[s] = Body(it, s)
    <3> HIDE DEF Body
    <3> QED BY <1>2, <1>5
  <2>2. {} \in SUBSET (1..n) /\ \A s \in SUBSET (1..n) : s # {} => Max(s) \in 1..n
    BY <1>3
  <2> QED BY <1>2, <2>1, <2>2 DEF FoldsBy
<1>7. PICK h : StagesOf(h, it, n, S, z, U)
  BY <1>6, FoldStages
<1> QED BY <1>1, <1>2, <1>7 DEF StagesOf, SymStages

StrSteps(n, q, S, z) ==
    /\ n \in Nat /\ DOMAIN q = 1..n /\ z \in S
    /\ \A x \in S, i \in 1..n : merge_typed_by_sym(x, q[i]) \in S

StrStages(h, n, q, S, z) ==
    /\ h \in [0..n -> S] /\ h[0] = z
    /\ \A k \in 1..n : h[k - 1] \in S /\ h[k] = merge_typed_by_sym(h[k - 1], q[k])
    /\ FoldLeft(merge_typed_by_sym, z, q) = h[n]

\* A fold of merge_typed_by_sym has stages.
LEMMA StrFold ==
    ASSUME NEW n, NEW q, NEW S, NEW z, StrSteps(n, q, S, z)
    PROVE  \E h : StrStages(h, n, q, S, z)
<1> DEFINE Body(f, s) == IF s = {} THEN z ELSE merge_typed_by_sym(f[s \ {Max(s)}], q[Max(s)])
           E(f) == f = [s \in SUBSET (DOMAIN q) |-> Body(f, s)]
           it == CHOOSE f : E(f)
           U == [p \in S \X (1..n) |-> merge_typed_by_sym(p[1], q[p[2]])]
<1>1. FoldLeft(merge_typed_by_sym, z, q) = it[DOMAIN q]
  BY Zenon DEF FoldLeft, MapThenFoldSet
<1>2. /\ n \in Nat /\ DOMAIN q = 1..n /\ z \in S
      /\ U \in [S \X (1..n) -> S] /\ \A x \in S, i \in 1..n : U[<<x, i>>] = merge_typed_by_sym(x, q[i])
  BY DEF StrSteps
<1> HIDE DEF U
<1>3. PICK f : /\ f = [s \in SUBSET (1..n) |-> f[s]] /\ FoldsBy(f, n, S, z, U)
               /\ \A s \in SUBSET (1..n) : s # {} => f[s \ {Max(s)}] \in S /\ Max(s) \in 1..n
  <2>1. n \in Nat /\ z \in S /\ U \in [S \X (1..n) -> S]
    BY <1>2
  <2> QED BY <2>1, FoldTable, Zenon
<1>4. E(f)
  <2>1. \A s \in SUBSET (1..n) : f[s] = Body(f, s)
    BY <1>2, <1>3 DEF FoldsBy
  <2> HIDE DEF Body
  <2> QED BY <1>2, <1>3, <2>1
<1>5. E(it)
  <2> HIDE DEF E
  <2> QED BY <1>4
<1> HIDE DEF it
<1>6. FoldsBy(it, n, S, z, U)
  <2>1. \A s \in SUBSET (1..n) : it[s] = Body(it, s)
    <3> HIDE DEF Body
    <3> QED BY <1>2, <1>5
  <2>2. {} \in SUBSET (1..n) /\ \A s \in SUBSET (1..n) : s # {} => Max(s) \in 1..n
    BY <1>3
  <2> QED BY <1>2, <2>1, <2>2 DEF FoldsBy
<1>7. PICK h : StagesOf(h, it, n, S, z, U)
  BY <1>6, FoldStages
<1> QED BY <1>1, <1>2, <1>7 DEF StagesOf, StrStages

ReplaySteps(n, q, S, z) ==
    /\ n \in Nat /\ DOMAIN q = 1..n /\ z \in S
    /\ \A x \in S, i \in 1..n : populate_from_index(x, q[i]) \in S

ReplayStages(h, n, q, S, z) ==
    /\ h \in [0..n -> S] /\ h[0] = z
    /\ \A k \in 1..n : h[k - 1] \in S /\ h[k] = populate_from_index(h[k - 1], q[k])
    /\ FoldLeft(populate_from_index, z, q) = h[n]

\* A fold of populate_from_index has stages.
LEMMA ReplayFold ==
    ASSUME NEW n, NEW q, NEW S, NEW z, ReplaySteps(n, q, S, z)
    PROVE  \E h : ReplayStages(h, n, q, S, z)
<1> DEFINE Body(f, s) == IF s = {} THEN z ELSE populate_from_index(f[s \ {Max(s)}], q[Max(s)])
           E(f) == f = [s \in SUBSET (DOMAIN q) |-> Body(f, s)]
           it == CHOOSE f : E(f)
           U == [p \in S \X (1..n) |-> populate_from_index(p[1], q[p[2]])]
<1>1. FoldLeft(populate_from_index, z, q) = it[DOMAIN q]
  BY Zenon DEF FoldLeft, MapThenFoldSet
<1>2. /\ n \in Nat /\ DOMAIN q = 1..n /\ z \in S
      /\ U \in [S \X (1..n) -> S] /\ \A x \in S, i \in 1..n : U[<<x, i>>] = populate_from_index(x, q[i])
  BY DEF ReplaySteps
<1> HIDE DEF U
<1>3. PICK f : /\ f = [s \in SUBSET (1..n) |-> f[s]] /\ FoldsBy(f, n, S, z, U)
               /\ \A s \in SUBSET (1..n) : s # {} => f[s \ {Max(s)}] \in S /\ Max(s) \in 1..n
  <2>1. n \in Nat /\ z \in S /\ U \in [S \X (1..n) -> S]
    BY <1>2
  <2> QED BY <2>1, FoldTable, Zenon
<1>4. E(f)
  <2>1. \A s \in SUBSET (1..n) : f[s] = Body(f, s)
    BY <1>2, <1>3 DEF FoldsBy
  <2> HIDE DEF Body
  <2> QED BY <1>2, <1>3, <2>1
<1>5. E(it)
  <2> HIDE DEF E
  <2> QED BY <1>4
<1> HIDE DEF it
<1>6. FoldsBy(it, n, S, z, U)
  <2>1. \A s \in SUBSET (1..n) : it[s] = Body(it, s)
    <3> HIDE DEF Body
    <3> QED BY <1>2, <1>5
  <2>2. {} \in SUBSET (1..n) /\ \A s \in SUBSET (1..n) : s # {} => Max(s) \in 1..n
    BY <1>3
  <2> QED BY <1>2, <2>1, <2>2 DEF FoldsBy
<1>7. PICK h : StagesOf(h, it, n, S, z, U)
  BY <1>6, FoldStages
<1> QED BY <1>1, <1>2, <1>7 DEF StagesOf, ReplayStages

ApplySteps(n, q, S, z) ==
    /\ n \in Nat /\ DOMAIN q = 1..n /\ z \in S
    /\ \A x \in S, i \in 1..n : Apply(x, q[i]) \in S

ApplyStages(h, n, q, S, z) ==
    /\ h \in [0..n -> S] /\ h[0] = z
    /\ \A k \in 1..n : h[k - 1] \in S /\ h[k] = Apply(h[k - 1], q[k])
    /\ FoldLeft(Apply, z, q) = h[n]

\* A fold of Apply has stages.
LEMMA ApplyFold ==
    ASSUME NEW n, NEW q, NEW S, NEW z, ApplySteps(n, q, S, z)
    PROVE  \E h : ApplyStages(h, n, q, S, z)
<1> DEFINE Body(f, s) == IF s = {} THEN z ELSE Apply(f[s \ {Max(s)}], q[Max(s)])
           E(f) == f = [s \in SUBSET (DOMAIN q) |-> Body(f, s)]
           it == CHOOSE f : E(f)
           U == [p \in S \X (1..n) |-> Apply(p[1], q[p[2]])]
<1>1. FoldLeft(Apply, z, q) = it[DOMAIN q]
  BY Zenon DEF FoldLeft, MapThenFoldSet
<1>2. /\ n \in Nat /\ DOMAIN q = 1..n /\ z \in S
      /\ U \in [S \X (1..n) -> S] /\ \A x \in S, i \in 1..n : U[<<x, i>>] = Apply(x, q[i])
  BY DEF ApplySteps
<1> HIDE DEF U
<1>3. PICK f : /\ f = [s \in SUBSET (1..n) |-> f[s]] /\ FoldsBy(f, n, S, z, U)
               /\ \A s \in SUBSET (1..n) : s # {} => f[s \ {Max(s)}] \in S /\ Max(s) \in 1..n
  <2>1. n \in Nat /\ z \in S /\ U \in [S \X (1..n) -> S]
    BY <1>2
  <2> QED BY <2>1, FoldTable, Zenon
<1>4. E(f)
  <2>1. \A s \in SUBSET (1..n) : f[s] = Body(f, s)
    BY <1>2, <1>3 DEF FoldsBy
  <2> HIDE DEF Body
  <2> QED BY <1>2, <1>3, <2>1
<1>5. E(it)
  <2> HIDE DEF E
  <2> QED BY <1>4
<1> HIDE DEF it
<1>6. FoldsBy(it, n, S, z, U)
  <2>1. \A s \in SUBSET (1..n) : it[s] = Body(it, s)
    <3> HIDE DEF Body
    <3> QED BY <1>2, <1>5
  <2>2. {} \in SUBSET (1..n) /\ \A s \in SUBSET (1..n) : s # {} => Max(s) \in 1..n
    BY <1>3
  <2> QED BY <1>2, <2>1, <2>2 DEF FoldsBy
<1>7. PICK h : StagesOf(h, it, n, S, z, U)
  BY <1>6, FoldStages
<1> QED BY <1>1, <1>2, <1>7 DEF StagesOf, ApplyStages

SymReplaySteps(n, q, S, z) ==
    /\ n \in Nat /\ DOMAIN q = 1..n /\ z \in S
    /\ \A x \in S, i \in 1..n : upsert_sym(x, q[i][1], Tail(q[i])) \in S

SymReplayStages(h, n, q, S, z) ==
    /\ h \in [0..n -> S] /\ h[0] = z
    /\ \A k \in 1..n : h[k - 1] \in S /\ h[k] = upsert_sym(h[k - 1], q[k][1], Tail(q[k]))
    /\ FoldLeft(LAMBDA acc, r : upsert_sym(acc, r[1], Tail(r)), z, q) = h[n]

\* The replay of a symbol table has stages.
LEMMA SymReplayFold ==
    ASSUME NEW n, NEW q, NEW S, NEW z, SymReplaySteps(n, q, S, z)
    PROVE  \E h : SymReplayStages(h, n, q, S, z)
<1> DEFINE Body(f, s) == IF s = {} THEN z ELSE upsert_sym(f[s \ {Max(s)}], q[Max(s)][1], Tail(q[Max(s)]))
           E(f) == f = [s \in SUBSET (DOMAIN q) |-> Body(f, s)]
           it == CHOOSE f : E(f)
           U == [p \in S \X (1..n) |-> upsert_sym(p[1], q[p[2]][1], Tail(q[p[2]]))]
<1>1. FoldLeft(LAMBDA acc, r : upsert_sym(acc, r[1], Tail(r)), z, q) = it[DOMAIN q]
  BY Zenon DEF FoldLeft, MapThenFoldSet
<1>2. /\ n \in Nat /\ DOMAIN q = 1..n /\ z \in S
      /\ U \in [S \X (1..n) -> S] /\ \A x \in S, i \in 1..n : U[<<x, i>>] = upsert_sym(x, q[i][1], Tail(q[i]))
  BY DEF SymReplaySteps
<1> HIDE DEF U
<1>3. PICK f : /\ f = [s \in SUBSET (1..n) |-> f[s]] /\ FoldsBy(f, n, S, z, U)
               /\ \A s \in SUBSET (1..n) : s # {} => f[s \ {Max(s)}] \in S /\ Max(s) \in 1..n
  <2>1. n \in Nat /\ z \in S /\ U \in [S \X (1..n) -> S]
    BY <1>2
  <2> QED BY <2>1, FoldTable, Zenon
<1>4. E(f)
  <2>1. \A s \in SUBSET (1..n) : f[s] = Body(f, s)
    BY <1>2, <1>3 DEF FoldsBy
  <2> HIDE DEF Body
  <2> QED BY <1>2, <1>3, <2>1
<1>5. E(it)
  <2> HIDE DEF E
  <2> QED BY <1>4
<1> HIDE DEF it
<1>6. FoldsBy(it, n, S, z, U)
  <2>1. \A s \in SUBSET (1..n) : it[s] = Body(it, s)
    <3> HIDE DEF Body
    <3> QED BY <1>2, <1>5
  <2>2. {} \in SUBSET (1..n) /\ \A s \in SUBSET (1..n) : s # {} => Max(s) \in 1..n
    BY <1>3
  <2> QED BY <1>2, <2>1, <2>2 DEF FoldsBy
<1>7. PICK h : StagesOf(h, it, n, S, z, U)
  BY <1>6, FoldStages
<1> QED BY <1>1, <1>2, <1>7 DEF StagesOf, SymReplayStages

FileReplaySteps(n, q, S, z) ==
    /\ n \in Nat /\ DOMAIN q = 1..n /\ z \in S
    /\ \A x \in S, i \in 1..n : upsert_file(x, q[i][1], q[i][2]) \in S

FileReplayStages(h, n, q, S, z) ==
    /\ h \in [0..n -> S] /\ h[0] = z
    /\ \A k \in 1..n : h[k - 1] \in S /\ h[k] = upsert_file(h[k - 1], q[k][1], q[k][2])
    /\ FoldLeft(LAMBDA acc, r : upsert_file(acc, r[1], r[2]), z, q) = h[n]

\* The replay of a file table has stages.
LEMMA FileReplayFold ==
    ASSUME NEW n, NEW q, NEW S, NEW z, FileReplaySteps(n, q, S, z)
    PROVE  \E h : FileReplayStages(h, n, q, S, z)
<1> DEFINE Body(f, s) == IF s = {} THEN z ELSE upsert_file(f[s \ {Max(s)}], q[Max(s)][1], q[Max(s)][2])
           E(f) == f = [s \in SUBSET (DOMAIN q) |-> Body(f, s)]
           it == CHOOSE f : E(f)
           U == [p \in S \X (1..n) |-> upsert_file(p[1], q[p[2]][1], q[p[2]][2])]
<1>1. FoldLeft(LAMBDA acc, r : upsert_file(acc, r[1], r[2]), z, q) = it[DOMAIN q]
  BY Zenon DEF FoldLeft, MapThenFoldSet
<1>2. /\ n \in Nat /\ DOMAIN q = 1..n /\ z \in S
      /\ U \in [S \X (1..n) -> S] /\ \A x \in S, i \in 1..n : U[<<x, i>>] = upsert_file(x, q[i][1], q[i][2])
  BY DEF FileReplaySteps
<1> HIDE DEF U
<1>3. PICK f : /\ f = [s \in SUBSET (1..n) |-> f[s]] /\ FoldsBy(f, n, S, z, U)
               /\ \A s \in SUBSET (1..n) : s # {} => f[s \ {Max(s)}] \in S /\ Max(s) \in 1..n
  <2>1. n \in Nat /\ z \in S /\ U \in [S \X (1..n) -> S]
    BY <1>2
  <2> QED BY <2>1, FoldTable, Zenon
<1>4. E(f)
  <2>1. \A s \in SUBSET (1..n) : f[s] = Body(f, s)
    BY <1>2, <1>3 DEF FoldsBy
  <2> HIDE DEF Body
  <2> QED BY <1>2, <1>3, <2>1
<1>5. E(it)
  <2> HIDE DEF E
  <2> QED BY <1>4
<1> HIDE DEF it
<1>6. FoldsBy(it, n, S, z, U)
  <2>1. \A s \in SUBSET (1..n) : it[s] = Body(it, s)
    <3> HIDE DEF Body
    <3> QED BY <1>2, <1>5
  <2>2. {} \in SUBSET (1..n) /\ \A s \in SUBSET (1..n) : s # {} => Max(s) \in 1..n
    BY <1>3
  <2> QED BY <1>2, <2>1, <2>2 DEF FoldsBy
<1>7. PICK h : StagesOf(h, it, n, S, z, U)
  BY <1>6, FoldStages
<1> QED BY <1>1, <1>2, <1>7 DEF StagesOf, FileReplayStages

StringSteps(n, q, S, z) ==
    /\ n \in Nat /\ DOMAIN q = 1..n /\ z \in S
    /\ \A x \in S, i \in 1..n : (IF q[i][2] = NoName THEN x ELSE Append(x, q[i])) \in S

StringStages(h, n, q, S, z) ==
    /\ h \in [0..n -> S] /\ h[0] = z
    /\ \A k \in 1..n : h[k - 1] \in S /\ h[k] = (IF q[k][2] = NoName THEN h[k - 1] ELSE Append(h[k - 1], q[k]))
    /\ FoldLeft(LAMBDA acc, r : IF r[2] = NoName THEN acc ELSE Append(acc, r), z, q) = h[n]

\* The pass that drops rows without a string has stages.
LEMMA StringFold ==
    ASSUME NEW n, NEW q, NEW S, NEW z, StringSteps(n, q, S, z)
    PROVE  \E h : StringStages(h, n, q, S, z)
<1> DEFINE Body(f, s) == IF s = {} THEN z ELSE (IF q[Max(s)][2] = NoName THEN f[s \ {Max(s)}] ELSE Append(f[s \ {Max(s)}], q[Max(s)]))
           E(f) == f = [s \in SUBSET (DOMAIN q) |-> Body(f, s)]
           it == CHOOSE f : E(f)
           U == [p \in S \X (1..n) |-> (IF q[p[2]][2] = NoName THEN p[1] ELSE Append(p[1], q[p[2]]))]
<1>1. FoldLeft(LAMBDA acc, r : IF r[2] = NoName THEN acc ELSE Append(acc, r), z, q) = it[DOMAIN q]
  BY Zenon DEF FoldLeft, MapThenFoldSet
<1>2. /\ n \in Nat /\ DOMAIN q = 1..n /\ z \in S
      /\ U \in [S \X (1..n) -> S] /\ \A x \in S, i \in 1..n : U[<<x, i>>] = (IF q[i][2] = NoName THEN x ELSE Append(x, q[i]))
  BY DEF StringSteps
<1> HIDE DEF U
<1>3. PICK f : /\ f = [s \in SUBSET (1..n) |-> f[s]] /\ FoldsBy(f, n, S, z, U)
               /\ \A s \in SUBSET (1..n) : s # {} => f[s \ {Max(s)}] \in S /\ Max(s) \in 1..n
  <2>1. n \in Nat /\ z \in S /\ U \in [S \X (1..n) -> S]
    BY <1>2
  <2> QED BY <2>1, FoldTable, Zenon
<1>4. E(f)
  <2>1. \A s \in SUBSET (1..n) : f[s] = Body(f, s)
    BY <1>2, <1>3 DEF FoldsBy
  <2> HIDE DEF Body
  <2> QED BY <1>2, <1>3, <2>1
<1>5. E(it)
  <2> HIDE DEF E
  <2> QED BY <1>4
<1> HIDE DEF it
<1>6. FoldsBy(it, n, S, z, U)
  <2>1. \A s \in SUBSET (1..n) : it[s] = Body(it, s)
    <3> HIDE DEF Body
    <3> QED BY <1>2, <1>5
  <2>2. {} \in SUBSET (1..n) /\ \A s \in SUBSET (1..n) : s # {} => Max(s) \in 1..n
    BY <1>3
  <2> QED BY <1>2, <2>1, <2>2 DEF FoldsBy
<1>7. PICK h : StagesOf(h, it, n, S, z, U)
  BY <1>6, FoldStages
<1>8. ASSUME NEW k \in 1..n
      PROVE  h[k - 1] \in S /\ h[k] = (IF q[k][2] = NoName THEN h[k - 1] ELSE Append(h[k - 1], q[k]))
  BY <1>2, <1>7 DEF StagesOf
<1>9. h \in [0..n -> S] /\ h[0] = z /\ it[DOMAIN q] = h[n]
  BY <1>2, <1>7 DEF StagesOf
<1> QED BY <1>1, <1>8, <1>9 DEF StringStages

-----------------------------------------------------------------------------
(* Sections.                                                               *)

Fin(R)  == {A \in SUBSET R : IsFiniteSet(A)}
Maps(V) == UNION {[D -> V] : D \in Fin(Int)}

\* The finite maps, and what merge_from does to sets and maps.
LEMMA FiniteParts ==
    /\ \A R : {} \in Fin(R) /\ \A A, B \in Fin(R) : A \cup B \in Fin(R)
    /\ \A V : \A f : f \in Maps(V) <=> IsMap(f, V)
    /\ \A V : <<>> \in Maps(V) /\ DOMAIN <<>> = {}
<1>1. \A R : {} \in Fin(R) /\ \A A, B \in Fin(R) : A \cup B \in Fin(R)
  BY FS_EmptySet, FS_Union DEF Fin
<1>2. \A V : \A f : f \in Maps(V) <=> IsMap(f, V)
  <2> SUFFICES ASSUME NEW V, NEW f PROVE f \in Maps(V) <=> IsMap(f, V)
    OBVIOUS
  <2>1. ASSUME f \in Maps(V) PROVE IsMap(f, V)
    <3>1. PICK D \in Fin(Int) : f \in [D -> V]
      BY <2>1 DEF Maps
    <3>2. DOMAIN f = D
      BY <3>1
    <3> QED BY <3>1, <3>2 DEF IsMap, Fin
  <2>2. ASSUME IsMap(f, V) PROVE f \in Maps(V)
    <3>1. DOMAIN f \in Fin(Int) /\ f \in [DOMAIN f -> V]
      BY <2>2 DEF IsMap, Fin
    <3> QED BY <3>1 DEF Maps
  <2> QED BY <2>1, <2>2
<1>3. \A V : <<>> \in Maps(V) /\ DOMAIN <<>> = {}
  <2>1. DOMAIN <<>> = {}
    OBVIOUS
  <2>2. {} \in Fin(Int)
    BY <1>1
  <2>3. \A V : <<>> \in [{} -> V]
    OBVIOUS
  <2> QED BY <2>1, <2>2, <2>3 DEF Maps
<1> QED BY <1>1, <1>2, <1>3

\* The table of nothing.
LEMMA NoRows ==
    Sorted({}) = <<>> /\ SymRows(<<>>) = <<>> /\ FileRows(<<>>) = <<>> /\ OnePerSym({}) = <<>>
<1>1. Sorted({}) = <<>>
  <2> DEFINE s == Sorted({})
  <2>1. {} \in SUBSET Tuple(2) /\ IsFiniteSet({})
    BY FS_EmptySet
  <2>2. Ascending(s, 2) /\ RowsIn(s) = {}
    BY <2>1, SortedAscends
  <2> HIDE DEF s
  <2>3. s \in Seq(Tuple(2)) /\ Len(s) \in Nat
    BY <2>2 DEF Ascending
  <2>4. \A i \in 1..Len(s) : s[i] \in RowsIn(s)
    BY DEF RowsIn
  <2>5. Len(s) = 0
    <3> SUFFICES ASSUME Len(s) # 0 PROVE FALSE
      OBVIOUS
    <3>1. 1 \in 1..Len(s)
      BY <2>3
    <3> QED BY <2>2, <2>4, <3>1
  <2>6. s = <<>>
    BY <2>3, <2>5
  <2> QED BY <2>6 DEF s
<1>2. DOMAIN <<>> = {}
  OBVIOUS
<1>3. {<<i, <<>>[i]>> : i \in {}} = {} /\ {<<s>> \o <<>>[s] : s \in {}} = {}
  OBVIOUS
<1>4. {r \in {} : \A q \in {} : q[1] = r[1] => r[2] <= q[2]} = {}
  OBVIOUS
<1>5. SymRows(<<>>) = <<>> /\ FileRows(<<>>) = <<>>
  BY <1>1, <1>2, <1>3 DEF SymRows, FileRows
<1> QED BY <1>1, <1>4, <1>5 DEF OnePerSym

RowsJoined(c, n, A, J, q) ==
    /\ c \in Nat /\ n \in Nat /\ A \in [1..n -> Fin(Tuple(c))] /\ J \in [0..n -> Fin(Tuple(c))]
    /\ J[0] = {} /\ \A k \in 1..n : J[k] = J[k - 1] \cup A[k]
    /\ DOMAIN q = 1..n /\ \A i \in 1..n : q[i] = Sorted(A[i])

\* A fold of merge_sorted_dedup over sorted tables: their union, J after all
\* of them.
LEMMA RowsSection ==
    ASSUME NEW c, NEW n, NEW A, NEW J, NEW q, RowsJoined(c, n, A, J, q)
    PROVE  FoldLeft(merge_sorted_dedup, <<>>, q) = Sorted(J[n])
<1> USE DEF RowsJoined
<1> DEFINE S == {Sorted(B) : B \in Fin(Tuple(c))}
<1>1. <<>> \in S
  BY FiniteParts, NoRows
<1>2. ASSUME NEW B \in Fin(Tuple(c)), NEW C \in Fin(Tuple(c))
      PROVE  merge_sorted_dedup(Sorted(B), Sorted(C)) = Sorted(B \cup C) /\ B \cup C \in Fin(Tuple(c))
  <2>1. B \in SUBSET Tuple(c) /\ IsFiniteSet(B) /\ C \in SUBSET Tuple(c) /\ IsFiniteSet(C)
    BY DEF Fin
  <2> QED BY <2>1, DedupMerge, FiniteParts
<1>3. ASSUME NEW x \in S, NEW i \in 1..n PROVE merge_sorted_dedup(x, q[i]) \in S
  <2>1. PICK B \in Fin(Tuple(c)) : x = Sorted(B)
    OBVIOUS
  <2>2. A[i] \in Fin(Tuple(c)) /\ q[i] = Sorted(A[i])
    OBVIOUS
  <2> DEFINE C == B \cup A[i]
  <2>3. merge_sorted_dedup(x, q[i]) = Sorted(C) /\ C \in Fin(Tuple(c))
    BY <1>2, <2>1, <2>2
  <2> HIDE DEF C
  <2> QED BY <2>3
<1> HIDE DEF S
<1>8. DedupSteps(n, q, S, <<>>)
  BY <1>1, <1>3 DEF DedupSteps
<1>4. PICK h : DedupStages(h, n, q, S, <<>>)
  BY <1>8, DedupFold
<1> DEFINE G == {k \in 0..n : h[k] = Sorted(J[k])}
<1>5. 0 \in G
  <2>1. h[0] = <<>> /\ 0 \in 0..n
    BY <1>4 DEF DedupStages
  <2> QED BY <2>1, NoRows
<1>6. ASSUME NEW k \in 1..n, k - 1 \in G PROVE k \in G
  <2>1. h[k - 1] = Sorted(J[k - 1]) /\ J[k - 1] \in Fin(Tuple(c)) /\ A[k] \in Fin(Tuple(c))
    BY <1>6
  <2>2. h[k] = merge_sorted_dedup(Sorted(J[k - 1]), Sorted(A[k]))
    BY <1>4, <2>1 DEF DedupStages
  <2>3. h[k] = Sorted(J[k - 1] \cup A[k])
    BY <1>2, <2>1, <2>2
  <2> HIDE DEF G
  <2>4. h[k] = Sorted(J[k])
    BY <2>3
  <2> QED BY <2>4 DEF G
<1>7. \A k \in 0..n : k \in G
  <2> HIDE DEF G
  <2> QED BY <1>5, <1>6, UpTo
<1> QED BY <1>4, <1>7 DEF DedupStages

SymJoined(n, A, J, q) ==
    /\ n \in Nat /\ A \in [1..n -> Maps(SymRow)] /\ J \in [0..n -> Maps(SymRow)]
    /\ J[0] = <<>> /\ \A k \in 1..n : J[k] = MergeSyms(J[k - 1], A[k])
    /\ DOMAIN q = 1..n /\ \A i \in 1..n : q[i] = SymRows(A[i])

\* The fold of symbol tables.
LEMMA SymSection ==
    ASSUME NEW n, NEW A, NEW J, NEW q, SymJoined(n, A, J, q)
    PROVE  FoldLeft(merge_syms_refine, <<>>, q) = SymRows(J[n])
<1> USE DEF SymJoined
<1> DEFINE S == {SymRows(B) : B \in Maps(SymRow)}
<1>1. <<>> \in S
  BY FiniteParts, NoRows
<1>2. ASSUME NEW B \in Maps(SymRow), NEW C \in Maps(SymRow)
      PROVE  merge_syms_refine(SymRows(B), SymRows(C)) = SymRows(MergeSyms(B, C)) /\ MergeSyms(B, C) \in Maps(SymRow)
  BY SymMerge, FiniteParts
<1>3. ASSUME NEW x \in S, NEW i \in 1..n PROVE merge_syms_refine(x, q[i]) \in S
  <2>1. PICK B \in Maps(SymRow) : x = SymRows(B)
    OBVIOUS
  <2>2. A[i] \in Maps(SymRow) /\ q[i] = SymRows(A[i])
    OBVIOUS
  <2> DEFINE C == MergeSyms(B, A[i])
  <2>3. merge_syms_refine(x, q[i]) = SymRows(C) /\ C \in Maps(SymRow)
    BY <1>2, <2>1, <2>2
  <2> HIDE DEF C
  <2> QED BY <2>3
<1> HIDE DEF S
<1>8. SymSteps(n, q, S, <<>>)
  BY <1>1, <1>3 DEF SymSteps
<1>4. PICK h : SymStages(h, n, q, S, <<>>)
  BY <1>8, SymFold
<1> DEFINE G == {k \in 0..n : h[k] = SymRows(J[k])}
<1>5. 0 \in G
  <2>1. h[0] = <<>> /\ 0 \in 0..n
    BY <1>4 DEF SymStages
  <2> QED BY <2>1, NoRows
<1>6. ASSUME NEW k \in 1..n, k - 1 \in G PROVE k \in G
  <2>1. h[k - 1] = SymRows(J[k - 1]) /\ J[k - 1] \in Maps(SymRow) /\ A[k] \in Maps(SymRow)
    BY <1>6
  <2>2. h[k] = merge_syms_refine(SymRows(J[k - 1]), SymRows(A[k]))
    BY <1>4, <2>1 DEF SymStages
  <2>3. h[k] = SymRows(MergeSyms(J[k - 1], A[k]))
    BY <1>2, <2>1, <2>2
  <2> HIDE DEF G
  <2>4. h[k] = SymRows(J[k])
    BY <2>3
  <2> QED BY <2>4 DEF G
<1>7. \A k \in 0..n : k \in G
  <2> HIDE DEF G
  <2> QED BY <1>5, <1>6, UpTo
<1> QED BY <1>4, <1>7 DEF SymStages

FileJoined(n, A, J, q) ==
    /\ n \in Nat /\ A \in [1..n -> Maps(Int)] /\ J \in [0..n -> Maps(Int)]
    /\ J[0] = <<>> /\ \A k \in 1..n : J[k] = MergeFiles(J[k - 1], A[k])
    /\ DOMAIN q = 1..n /\ \A i \in 1..n : q[i] = FileRows(A[i])

\* The fold of file tables.
LEMMA FileSection ==
    ASSUME NEW n, NEW A, NEW J, NEW q, FileJoined(n, A, J, q)
    PROVE  FoldLeft(merge_files_first_wins, <<>>, q) = FileRows(J[n])
<1> USE DEF FileJoined
<1> DEFINE S == {FileRows(B) : B \in Maps(Int)}
<1>1. <<>> \in S
  BY FiniteParts, NoRows
<1>2. ASSUME NEW B \in Maps(Int), NEW C \in Maps(Int)
      PROVE  merge_files_first_wins(FileRows(B), FileRows(C)) = FileRows(MergeFiles(B, C)) /\ MergeFiles(B, C) \in Maps(Int)
  BY FileMerge, FiniteParts
<1>3. ASSUME NEW x \in S, NEW i \in 1..n PROVE merge_files_first_wins(x, q[i]) \in S
  <2>1. PICK B \in Maps(Int) : x = FileRows(B)
    OBVIOUS
  <2>2. A[i] \in Maps(Int) /\ q[i] = FileRows(A[i])
    OBVIOUS
  <2> DEFINE C == MergeFiles(B, A[i])
  <2>3. merge_files_first_wins(x, q[i]) = FileRows(C) /\ C \in Maps(Int)
    BY <1>2, <2>1, <2>2
  <2> HIDE DEF C
  <2> QED BY <2>3
<1> HIDE DEF S
<1>8. FileSteps(n, q, S, <<>>)
  BY <1>1, <1>3 DEF FileSteps
<1>4. PICK h : FileStages(h, n, q, S, <<>>)
  BY <1>8, FileFold
<1> DEFINE G == {k \in 0..n : h[k] = FileRows(J[k])}
<1>5. 0 \in G
  <2>1. h[0] = <<>> /\ 0 \in 0..n
    BY <1>4 DEF FileStages
  <2> QED BY <2>1, NoRows
<1>6. ASSUME NEW k \in 1..n, k - 1 \in G PROVE k \in G
  <2>1. h[k - 1] = FileRows(J[k - 1]) /\ J[k - 1] \in Maps(Int) /\ A[k] \in Maps(Int)
    BY <1>6
  <2>2. h[k] = merge_files_first_wins(FileRows(J[k - 1]), FileRows(A[k]))
    BY <1>4, <2>1 DEF FileStages
  <2>3. h[k] = FileRows(MergeFiles(J[k - 1], A[k]))
    BY <1>2, <2>1, <2>2
  <2> HIDE DEF G
  <2>4. h[k] = FileRows(J[k])
    BY <2>3
  <2> QED BY <2>4 DEF G
<1>7. \A k \in 0..n : k \in G
  <2> HIDE DEF G
  <2> QED BY <1>5, <1>6, UpTo
<1> QED BY <1>4, <1>7 DEF FileStages

StrJoined(n, A, J, q) ==
    /\ n \in Nat /\ A \in [1..n -> Fin(StrRec)] /\ J \in [0..n -> Fin(StrRec)]
    /\ J[0] = {} /\ \A k \in 1..n : J[k] = J[k - 1] \cup A[k]
    /\ DOMAIN q = 1..n /\ \A i \in 1..n : q[i] = OnePerSym(A[i])

\* The fold of tables of strings.
LEMMA StrSection ==
    ASSUME NEW n, NEW A, NEW J, NEW q, StrJoined(n, A, J, q)
    PROVE  FoldLeft(merge_typed_by_sym, <<>>, q) = OnePerSym(J[n])
<1> USE DEF StrJoined
<1> DEFINE S == {OnePerSym(B) : B \in Fin(StrRec)}
<1>1. <<>> \in S
  BY FiniteParts, NoRows
<1>2. ASSUME NEW B \in Fin(StrRec), NEW C \in Fin(StrRec)
      PROVE  merge_typed_by_sym(OnePerSym(B), OnePerSym(C)) = OnePerSym(B \cup C) /\ B \cup C \in Fin(StrRec)
  <2>1. B \in SUBSET StrRec /\ IsFiniteSet(B) /\ C \in SUBSET StrRec /\ IsFiniteSet(C)
    BY DEF Fin
  <2> QED BY <2>1, StrMerge, FiniteParts
<1>3. ASSUME NEW x \in S, NEW i \in 1..n PROVE merge_typed_by_sym(x, q[i]) \in S
  <2>1. PICK B \in Fin(StrRec) : x = OnePerSym(B)
    OBVIOUS
  <2>2. A[i] \in Fin(StrRec) /\ q[i] = OnePerSym(A[i])
    OBVIOUS
  <2> DEFINE C == B \cup A[i]
  <2>3. merge_typed_by_sym(x, q[i]) = OnePerSym(C) /\ C \in Fin(StrRec)
    BY <1>2, <2>1, <2>2
  <2> HIDE DEF C
  <2> QED BY <2>3
<1> HIDE DEF S
<1>8. StrSteps(n, q, S, <<>>)
  BY <1>1, <1>3 DEF StrSteps
<1>4. PICK h : StrStages(h, n, q, S, <<>>)
  BY <1>8, StrFold
<1> DEFINE G == {k \in 0..n : h[k] = OnePerSym(J[k])}
<1>5. 0 \in G
  <2>1. h[0] = <<>> /\ 0 \in 0..n
    BY <1>4 DEF StrStages
  <2> QED BY <2>1, NoRows
<1>6. ASSUME NEW k \in 1..n, k - 1 \in G PROVE k \in G
  <2>1. h[k - 1] = OnePerSym(J[k - 1]) /\ J[k - 1] \in Fin(StrRec) /\ A[k] \in Fin(StrRec)
    BY <1>6
  <2>2. h[k] = merge_typed_by_sym(OnePerSym(J[k - 1]), OnePerSym(A[k]))
    BY <1>4, <2>1 DEF StrStages
  <2>3. h[k] = OnePerSym(J[k - 1] \cup A[k])
    BY <1>2, <2>1, <2>2
  <2> HIDE DEF G
  <2>4. h[k] = OnePerSym(J[k])
    BY <2>3
  <2> QED BY <2>4 DEF G
<1>7. \A k \in 0..n : k \in G
  <2> HIDE DEF G
  <2> QED BY <1>5, <1>6, UpTo
<1> QED BY <1>4, <1>7 DEF StrStages

\* What is written of a set, and read back.
LEMMA SortedSet ==
    ASSUME NEW k \in Nat, NEW A \in Fin(Tuple(k))
    PROVE  /\ ToSet(Sorted(A)) = A /\ Sorted(A) \in Seq(Tuple(k))
           /\ DOMAIN Sorted(A) = 1..Len(Sorted(A)) /\ Ascending(Sorted(A), k)
<1> DEFINE s == Sorted(A)
<1>1. Ascending(s, k) /\ RowsIn(s) = A
  BY SortedAscends DEF Fin
<1> HIDE DEF s
<1>2. s \in Seq(Tuple(k))
  BY <1>1 DEF Ascending
<1>3. DOMAIN s = 1..Len(s)
  BY <1>2
<1>4. ToSet(s) = A
  BY <1>1, <1>3 DEF ToSet, RowsIn
<1> QED BY <1>1, <1>2, <1>3, <1>4 DEF s

\* The same of the tables of a builder.
LEMMA TableSet ==
    /\ \A f \in Maps(SymRow) : /\ SymSet(f) \in Fin(Tuple(4)) /\ Keyed(SymSet(f))
                               /\ SymRows(f) = Sorted(SymSet(f)) /\ ToSet(SymRows(f)) = SymSet(f)
                               /\ SymRows(f) \in Seq(SymRec)
    /\ \A f \in Maps(Int) : /\ FileSet(f) \in Fin(Tuple(2)) /\ Keyed(FileSet(f))
                            /\ FileRows(f) = Sorted(FileSet(f)) /\ ToSet(FileRows(f)) = FileSet(f)
                            /\ FileRows(f) \in Seq(Tuple(2))
    /\ \A S \in Fin(StrRec) : /\ Least(S) \in Fin(StrRec) /\ Least(S) \in Fin(Tuple(2)) /\ Keyed(Least(S))
                              /\ OnePerSym(S) = Sorted(Least(S)) /\ ToSet(OnePerSym(S)) = Least(S)
                              /\ OnePerSym(S) \in Seq(StrRec)
    /\ Fin(StrRec) \subseteq Fin(Tuple(2))
<1>1. ASSUME NEW f \in Maps(SymRow)
      PROVE  /\ SymSet(f) \in Fin(Tuple(4)) /\ Keyed(SymSet(f))
             /\ SymRows(f) = Sorted(SymSet(f)) /\ ToSet(SymRows(f)) = SymSet(f)
             /\ SymRows(f) \in Seq(SymRec)
  <2>1. SymSet(f) \in SUBSET SymRec /\ IsFiniteSet(SymSet(f)) /\ Keyed(SymSet(f))
    BY FiniteParts, SymTable
  <2>2. SymRec \in SUBSET Tuple(4)
    BY DEF SymRec
  <2>3. SymSet(f) \in Fin(Tuple(4))
    BY <2>1, <2>2 DEF Fin
  <2>4. SymRows(f) = Sorted(SymSet(f))
    BY DEF SymRows, SymSet
  <2> QED BY <2>1, <2>2, <2>3, <2>4, SortedSet, KeyedSorted
<1>2. ASSUME NEW f \in Maps(Int)
      PROVE  /\ FileSet(f) \in Fin(Tuple(2)) /\ Keyed(FileSet(f))
             /\ FileRows(f) = Sorted(FileSet(f)) /\ ToSet(FileRows(f)) = FileSet(f)
             /\ FileRows(f) \in Seq(Tuple(2))
  <2>1. FileSet(f) \in Fin(Tuple(2)) /\ Keyed(FileSet(f))
    BY FiniteParts, FileTable DEF Fin
  <2>2. FileRows(f) = Sorted(FileSet(f))
    BY DEF FileRows, FileSet
  <2> QED BY <2>1, <2>2, SortedSet
<1>3. StrRec \in SUBSET Tuple(2) /\ Fin(StrRec) \subseteq Fin(Tuple(2))
  BY DEF StrRec, Fin
<1>4. ASSUME NEW S \in Fin(StrRec)
      PROVE  /\ Least(S) \in Fin(StrRec) /\ Least(S) \in Fin(Tuple(2)) /\ Keyed(Least(S))
             /\ OnePerSym(S) = Sorted(Least(S)) /\ ToSet(OnePerSym(S)) = Least(S)
             /\ OnePerSym(S) \in Seq(StrRec)
  <2>1. Least(S) \in SUBSET StrRec /\ IsFiniteSet(Least(S)) /\ Keyed(Least(S))
    BY LeastRows DEF Fin
  <2>2. Least(S) \in Fin(StrRec) /\ Least(S) \in Fin(Tuple(2))
    BY <1>3, <2>1 DEF Fin
  <2>3. OnePerSym(S) = Sorted(Least(S))
    BY DEF OnePerSym, Least
  <2> QED BY <1>3, <2>1, <2>2, <2>3, SortedSet, KeyedSorted
<1> QED BY <1>1, <1>2, <1>3, <1>4

\* Every row of a table of strings has one, so none is dropped.
LEMMA StringsKept ==
    ASSUME NEW s \in Seq(StrRec)
    PROVE  WithString(s) = s
<1> DEFINE n == Len(s)
           S == Seq(StrRec)
<1>1. n \in Nat /\ DOMAIN s = 1..n /\ <<>> \in S
  OBVIOUS
<1>2. \A i \in 1..n : s[i] \in StrRec /\ s[i][2] # NoName
  BY DEF StrRec
<1>3. ASSUME NEW x \in S, NEW i \in 1..n
      PROVE  (IF s[i][2] = NoName THEN x ELSE Append(x, s[i])) \in S
  BY <1>2
<1> HIDE DEF S
<1>4. StringSteps(n, s, S, <<>>)
  BY <1>1, <1>3 DEF StringSteps
<1>5. PICK h : StringStages(h, n, s, S, <<>>)
  BY <1>4, StringFold
<1> DEFINE G == {k \in 0..n : h[k] = SubSeq(s, 1, k)}
<1>6. 0 \in G
  <2>1. h[0] = <<>>
    BY <1>5 DEF StringStages
  <2>2. SubSeq(s, 1, 0) = <<>>
    OBVIOUS
  <2>3. 0 \in 0..n /\ h[0] = SubSeq(s, 1, 0)
    BY <1>1, <2>1, <2>2
  <2> QED BY <2>3
<1>7. ASSUME NEW k \in 1..n, k - 1 \in G PROVE k \in G
  <2>1. h[k - 1] = SubSeq(s, 1, k - 1)
    BY <1>7
  <2>2. h[k] = Append(h[k - 1], s[k])
    BY <1>2, <1>5 DEF StringStages
  <2>3. Append(SubSeq(s, 1, k - 1), s[k]) = SubSeq(s, 1, k)
    OBVIOUS
  <2>4. k \in 0..n
    BY <1>1
  <2> QED BY <2>1, <2>2, <2>3, <2>4
<1>8. \A k \in 0..n : k \in G
  <2> HIDE DEF G
  <2> QED BY <1>1, <1>6, <1>7, UpTo
<1>9. h[n] = SubSeq(s, 1, n) /\ SubSeq(s, 1, n) = s
  BY <1>1, <1>8
<1> QED BY <1>5, <1>9 DEF StringStages, WithString

-----------------------------------------------------------------------------
(* The name index.                                                         *)

VarSyms(f)   == {s \in DOMAIN f : f[s][1] = KindVariable}
Shown(f, al) == {a \in al : a[1] \notin VarSyms(f)}

NameSet(f, al) ==
    {<<f[s][3], s, 0>> : s \in DOMAIN f} \cup {<<a[2], a[1], 1>> : a \in Shown(f, al)}

\* The rows of the name index, and the aliases that are read back from them.
LEMMA NameTable ==
    ASSUME NEW f \in Maps(SymRow), NEW al \in Fin(StrRec)
    PROVE  /\ NameRows(SymRows(f), al) = Sorted(NameSet(f, al))
           /\ NameSet(f, al) \in Fin(Tuple(3))
           /\ \A ix : ix.names = NameRows(SymRows(f), al) => iter_aliases(ix) = Shown(f, al)
           /\ Shown(f, al) \in Fin(StrRec)
<1> DEFINE R == SymSet(f)
           N == NameSet(f, al)
<1>0. IsMap(f, SymRow) /\ ToSet(SymRows(f)) = R
  BY FiniteParts, TableSet
<1>1. \A s \in DOMAIN f : /\ s \in Int /\ f[s] \in SymRow /\ f[s][3] \in Int
                          /\ (<<s>> \o f[s])[1] = s /\ (<<s>> \o f[s])[2] = f[s][1]
                          /\ (<<s>> \o f[s])[4] = f[s][3]
  <2> SUFFICES ASSUME NEW s \in DOMAIN f
               PROVE  /\ s \in Int /\ f[s] \in SymRow /\ f[s][3] \in Int
                      /\ (<<s>> \o f[s])[1] = s /\ (<<s>> \o f[s])[2] = f[s][1]
                      /\ (<<s>> \o f[s])[4] = f[s][3]
    OBVIOUS
  <2>1. s \in Int /\ f[s] \in SymRow
    BY <1>0 DEF IsMap
  <2>2. <<s>> \o f[s] = <<s, f[s][1], f[s][2], f[s][3]>> /\ f[s][3] \in Int
    BY <2>1, SymRecs
  <2> QED BY <2>1, <2>2
<1>2. \A r : r \in R <=> \E s \in DOMAIN f : r = <<s>> \o f[s]
  BY DEF SymSet
<1>3. \A a \in al : a = <<a[1], a[2]>> /\ a[1] \in Int /\ a[2] \in Int /\ a \in StrRec
  BY Pairs DEF Fin, StrRec
<1> HIDE DEF R
<1>4. {r[1] : r \in {x \in R : x[2] = KindVariable}} = VarSyms(f)
  <2> DEFINE V == {r[1] : r \in {x \in R : x[2] = KindVariable}}
  <2>1. ASSUME NEW s \in V PROVE s \in VarSyms(f)
    <3>1. PICK r \in R : r[2] = KindVariable /\ s = r[1]
      OBVIOUS
    <3>2. PICK t \in DOMAIN f : r = <<t>> \o f[t]
      BY <1>2
    <3> QED BY <1>1, <3>1, <3>2 DEF VarSyms
  <2>2. ASSUME NEW s \in VarSyms(f) PROVE s \in V
    <3>1. s \in DOMAIN f /\ f[s][1] = KindVariable
      BY DEF VarSyms
    <3> DEFINE r == <<s>> \o f[s]
    <3>2. r \in R /\ r[1] = s /\ r[2] = KindVariable
      BY <1>1, <1>2, <3>1
    <3> HIDE DEF r
    <3> QED BY <3>2
  <2> QED BY <2>1, <2>2
<1>5. {<<r[4], r[1], 0>> : r \in R} = {<<f[s][3], s, 0>> : s \in DOMAIN f}
  <2> DEFINE P == {<<r[4], r[1], 0>> : r \in R}
             Q == {<<f[s][3], s, 0>> : s \in DOMAIN f}
  <2>1. ASSUME NEW z \in P PROVE z \in Q
    <3>1. PICK r \in R : z = <<r[4], r[1], 0>>
      OBVIOUS
    <3>2. PICK s \in DOMAIN f : r = <<s>> \o f[s]
      BY <1>2
    <3>3. r[4] = f[s][3] /\ r[1] = s
      BY <1>1, <3>2
    <3> QED BY <3>1, <3>3
  <2>2. ASSUME NEW z \in Q PROVE z \in P
    <3>1. PICK s \in DOMAIN f : z = <<f[s][3], s, 0>>
      OBVIOUS
    <3> DEFINE r == <<s>> \o f[s]
    <3>2. r \in R /\ r[4] = f[s][3] /\ r[1] = s
      BY <1>1, <1>2
    <3> HIDE DEF r
    <3>3. z = <<r[4], r[1], 0>>
      BY <3>1, <3>2
    <3> QED BY <3>2, <3>3
  <2> QED BY <2>1, <2>2
<1>6. NameRows(SymRows(f), al) = Sorted(N)
  BY <1>0, <1>4, <1>5, Zenon DEF NameRows, NameSet, Shown
<1>7. Shown(f, al) \in Fin(StrRec)
  <2>1. Shown(f, al) \subseteq al
    BY DEF Shown
  <2>2. IsFiniteSet(Shown(f, al))
    BY <2>1, FS_Subset DEF Fin
  <2> QED BY <2>1, <2>2 DEF Fin
<1>8. N \in Fin(Tuple(3))
  <2> DEFINE P == {<<f[s][3], s, 0>> : s \in DOMAIN f}
             Q == {<<a[2], a[1], 1>> : a \in Shown(f, al)}
             p == [s \in DOMAIN f |-> <<f[s][3], s, 0>>]
             t == [a \in Shown(f, al) |-> <<a[2], a[1], 1>>]
  <2>1. IsFiniteSet(P)
    <3>1. p \in Surjection(DOMAIN f, P)
      BY DEF Surjection
    <3> HIDE DEF p, P
    <3> QED BY <1>0, <3>1, FS_Surjection DEF IsMap
  <2>2. IsFiniteSet(Q)
    <3>1. t \in Surjection(Shown(f, al), Q)
      BY DEF Surjection
    <3>2. IsFiniteSet(Shown(f, al))
      BY <1>7 DEF Fin
    <3> HIDE DEF t, Q
    <3> QED BY <3>1, <3>2, FS_Surjection
  <2>3. P \subseteq Tuple(3)
    <3>1. \A s \in DOMAIN f : <<f[s][3], s, 0>> \in Tuple(3)
      BY <1>1, Triples
    <3> QED BY <3>1
  <2>4. Q \subseteq Tuple(3)
    <3>1. \A a \in Shown(f, al) : <<a[2], a[1], 1>> \in Tuple(3)
      BY <1>3, Triples DEF Shown
    <3> QED BY <3>1
  <2>5. P \in Fin(Tuple(3)) /\ Q \in Fin(Tuple(3))
    BY <2>1, <2>2, <2>3, <2>4 DEF Fin
  <2> HIDE DEF P, Q
  <2>6. P \cup Q \in Fin(Tuple(3))
    BY <2>5, FiniteParts
  <2> QED BY <2>6 DEF P, Q, NameSet
<1>9. ASSUME NEW ix, ix.names = NameRows(SymRows(f), al) PROVE iter_aliases(ix) = Shown(f, al)
  <2>1. ToSet(ix.names) = N
    BY <1>6, <1>8, <1>9, SortedSet
  <2>2. \A r : r \in N <=> \/ \E s \in DOMAIN f : r = <<f[s][3], s, 0>>
                           \/ \E a \in Shown(f, al) : r = <<a[2], a[1], 1>>
    BY DEF NameSet
  <2> HIDE DEF N
  <2> DEFINE I == {<<r[2], r[1]>> : r \in {x \in N : x[3] = 1}}
  <2>3. iter_aliases(ix) = I
    BY <2>1 DEF iter_aliases
  <2>4. ASSUME NEW z \in I PROVE z \in Shown(f, al)
    <3>1. PICK r \in N : r[3] = 1 /\ z = <<r[2], r[1]>>
      OBVIOUS
    <3>2. CASE \E s \in DOMAIN f : r = <<f[s][3], s, 0>>
      BY <3>1, <3>2
    <3>3. CASE \E a \in Shown(f, al) : r = <<a[2], a[1], 1>>
      <4>1. PICK a \in Shown(f, al) : r = <<a[2], a[1], 1>>
        BY <3>3
      <4>2. r[1] = a[2] /\ r[2] = a[1] /\ a = <<a[1], a[2]>>
        BY <1>3, <4>1 DEF Shown
      <4>3. z = a
        BY <3>1, <4>2
      <4> QED BY <4>1, <4>3
    <3> QED BY <2>2, <3>1, <3>2, <3>3
  <2>5. ASSUME NEW a \in Shown(f, al) PROVE a \in I
    <3> DEFINE r == <<a[2], a[1], 1>>
    <3>1. r \in N /\ r[1] = a[2] /\ r[2] = a[1] /\ r[3] = 1
      BY <2>2
    <3>2. a = <<a[1], a[2]>>
      BY <1>3 DEF Shown
    <3> HIDE DEF r
    <3>3. a = <<r[2], r[1]>>
      BY <3>1, <3>2
    <3> QED BY <3>1, <3>3
  <2> HIDE DEF I
  <2> QED BY <2>3, <2>4, <2>5
<1> QED BY <1>6, <1>7, <1>8, <1>9

-----------------------------------------------------------------------------
(* Builders.                                                               *)

Builders ==
    [xrefs : Fin(Tuple(4)), inherits : Fin(Tuple(2)), calls : Fin(Tuple(3)),
     childof : Fin(Tuple(2)), aliases : Fin(StrRec), typed : Fin(StrRec),
     sig : Fin(StrRec), syms : Maps(SymRow), files : Maps(Int)]

\* Joining builders gives builders, and the new builder is neutral.
LEMMA Joins ==
    /\ NewBuilder \in Builders
    /\ \A b, c \in Builders : merge_from(b, c) \in Builders
    /\ \A b \in Builders : merge_from(NewBuilder, b) = b /\ merge_from(b, NewBuilder) = b
<1>1. NewBuilder \in Builders
  BY FiniteParts DEF NewBuilder, Builders
<1>2. \A f, g \in Maps(SymRow) : MergeSyms(f, g) \in Maps(SymRow)
  BY FiniteParts, SymMerge
<1>3. \A f, g \in Maps(Int) : MergeFiles(f, g) \in Maps(Int)
  BY FiniteParts, FileMerge
<1>4. ASSUME NEW b \in Builders, NEW c \in Builders PROVE merge_from(b, c) \in Builders
  <2>1. /\ b.xrefs \cup c.xrefs \in Fin(Tuple(4)) /\ b.inherits \cup c.inherits \in Fin(Tuple(2))
        /\ b.calls \cup c.calls \in Fin(Tuple(3)) /\ b.childof \cup c.childof \in Fin(Tuple(2))
    BY FiniteParts DEF Builders
  <2>2. /\ b.aliases \cup c.aliases \in Fin(StrRec) /\ b.typed \cup c.typed \in Fin(StrRec)
        /\ b.sig \cup c.sig \in Fin(StrRec)
    BY FiniteParts DEF Builders
  <2>3. MergeSyms(b.syms, c.syms) \in Maps(SymRow) /\ MergeFiles(b.files, c.files) \in Maps(Int)
    BY <1>2, <1>3 DEF Builders
  <2> QED BY <2>1, <2>2, <2>3 DEF merge_from, Builders
<1>5. ASSUME NEW V, NEW f \in Maps(V)
      PROVE  /\ MergeSyms(<<>>, f) = f /\ MergeSyms(f, <<>>) = f
             /\ MergeFiles(<<>>, f) = f /\ MergeFiles(f, <<>>) = f
  <2>1. DOMAIN <<>> = {} /\ f = [s \in DOMAIN f |-> f[s]]
    BY FiniteParts DEF IsMap
  <2> QED BY <2>1 DEF MergeSyms, MergeFiles
<1>6. ASSUME NEW b \in Builders PROVE merge_from(NewBuilder, b) = b /\ merge_from(b, NewBuilder) = b
  <2>1. b.syms \in Maps(SymRow) /\ b.files \in Maps(Int)
    BY DEF Builders
  <2>2. /\ MergeSyms(<<>>, b.syms) = b.syms /\ MergeSyms(b.syms, <<>>) = b.syms
        /\ MergeFiles(<<>>, b.files) = b.files /\ MergeFiles(b.files, <<>>) = b.files
    BY <1>5, <2>1
  <2>3. b = [xrefs |-> b.xrefs, inherits |-> b.inherits, calls |-> b.calls, childof |-> b.childof,
             aliases |-> b.aliases, typed |-> b.typed, sig |-> b.sig, syms |-> b.syms,
             files |-> b.files]
    BY DEF Builders
  <2>4. \A A : A \cup {} = A /\ {} \cup A = A
    OBVIOUS
  <2> QED BY <2>2, <2>3, <2>4 DEF merge_from, NewBuilder
<1> QED BY <1>1, <1>4, <1>6

\* What of a builder its file keeps.
Norm(x) ==
    [xrefs |-> x.xrefs, inherits |-> x.inherits, calls |-> x.calls, childof |-> x.childof,
     aliases |-> Shown(x.syms, x.aliases), typed |-> Least(x.typed), sig |-> Least(x.sig),
     syms |-> x.syms, files |-> x.files]

\* The smallest of the smallest strings.
LEMMA LeastLeast ==
    ASSUME NEW S \in SUBSET StrRec
    PROVE  Least(Least(S)) = Least(S)
<1>1. Least(S) \in SUBSET S
  BY LeastRows
<1>2. \A r \in Least(S) : \A q \in Least(S) : q[1] = r[1] => r[2] <= q[2]
  BY <1>1 DEF Least
<1> DEFINE L == Least(S)
<1>3. \A r \in L : \A q \in L : q[1] = r[1] => r[2] <= q[2]
  BY <1>2
<1> HIDE DEF L
<1>4. Least(L) = L
  BY <1>3 DEF Least
<1> QED BY <1>4 DEF L

\* It is a builder with the same file.
LEMMA Normal ==
    ASSUME NEW x \in Builders
    PROVE  Norm(x) \in Builders /\ finish(Norm(x)) = finish(x)
<1>1. x.syms \in Maps(SymRow) /\ x.aliases \in Fin(StrRec) /\ x.typed \in Fin(StrRec) /\ x.sig \in Fin(StrRec)
  BY DEF Builders
<1> DEFINE al == Shown(x.syms, x.aliases)
<1>2. al \in Fin(StrRec)
  BY <1>1, NameTable
<1>3. Least(x.typed) \in Fin(StrRec) /\ Least(x.sig) \in Fin(StrRec)
  BY <1>1, TableSet
<1>4. Norm(x) \in Builders
  BY <1>2, <1>3 DEF Norm, Builders
<1>5. Shown(x.syms, al) = al
  BY DEF Shown
<1>6. NameRows(SymRows(x.syms), al) = NameRows(SymRows(x.syms), x.aliases)
  <2>1. NameSet(x.syms, al) = NameSet(x.syms, x.aliases)
    BY <1>5 DEF NameSet
  <2> QED BY <1>1, <1>2, <2>1, NameTable
<1>7. OnePerSym(Least(x.typed)) = OnePerSym(x.typed) /\ OnePerSym(Least(x.sig)) = OnePerSym(x.sig)
  <2>1. x.typed \in SUBSET StrRec /\ x.sig \in SUBSET StrRec
    BY <1>1 DEF Fin
  <2>2. \A S : OnePerSym(S) = Sorted(Least(S))
    BY DEF OnePerSym, Least
  <2> QED BY <2>1, <2>2, LeastLeast
<1>8. /\ Norm(x).xrefs = x.xrefs /\ Norm(x).inherits = x.inherits /\ Norm(x).calls = x.calls
      /\ Norm(x).childof = x.childof /\ Norm(x).aliases = al /\ Norm(x).typed = Least(x.typed)
      /\ Norm(x).sig = Least(x.sig) /\ Norm(x).syms = x.syms /\ Norm(x).files = x.files
  BY DEF Norm
<1> HIDE DEF al
<1>9. finish(Norm(x)) = finish(x)
  BY <1>6, <1>7, <1>8 DEF finish
<1> QED BY <1>4, <1>9

-----------------------------------------------------------------------------
(* The k-way merge.                                                        *)

\* src are the files of the n builders x, and J joins what the files keep of
\* them, one after the other.
Chain(src, n, x, J) ==
    /\ n \in Nat /\ x \in [1..n -> Builders] /\ J \in [0..n -> Builders]
    /\ J[0] = NewBuilder
    /\ \A k \in 1..n : J[k] = merge_from(J[k - 1], Norm(x[k]))
    /\ DOMAIN src = 1..n /\ \A i \in 1..n : src[i] = finish(x[i])

\* The builders of some files can be joined.
LEMMA ChainExists ==
    ASSUME NEW n \in Nat, NEW x \in [1..n -> Builders], NEW src,
           DOMAIN src = 1..n, \A i \in 1..n : src[i] = finish(x[i])
    PROVE  \E J : Chain(src, n, x, J)
<1> DEFINE U == [p \in Builders \X (1..n) |-> merge_from(p[1], Norm(x[p[2]]))]
<1>1. NewBuilder \in Builders /\ \A b \in Builders, i \in 1..n : merge_from(b, Norm(x[i])) \in Builders
  BY Joins, Normal
<1>2. U \in [Builders \X (1..n) -> Builders]
  BY <1>1
<1>3. \A b \in Builders, i \in 1..n : U[<<b, i>>] = merge_from(b, Norm(x[i]))
  OBVIOUS
<1> HIDE DEF U
<1>4. PICK f : FoldsBy(f, n, Builders, NewBuilder, U)
  BY <1>1, <1>2, FoldTable
<1>5. PICK J : StagesOf(J, f, n, Builders, NewBuilder, U)
  BY <1>4, FoldStages
<1>6. J \in [0..n -> Builders] /\ J[0] = NewBuilder
  BY <1>5 DEF StagesOf
<1>7. \A k \in 1..n : J[k] = merge_from(J[k - 1], Norm(x[k]))
  BY <1>3, <1>5 DEF StagesOf
<1> QED BY <1>6, <1>7 DEF Chain

\* The tables of the joined builders are the joined tables.
LEMMA ChainTables ==
    ASSUME NEW src, NEW n, NEW x, NEW J, Chain(src, n, x, J)
    PROVE  /\ J[0] = NewBuilder
           /\ \A k \in 1..n :
                /\ J[k].xrefs = J[k - 1].xrefs \cup x[k].xrefs
                /\ J[k].inherits = J[k - 1].inherits \cup x[k].inherits
                /\ J[k].calls = J[k - 1].calls \cup x[k].calls
                /\ J[k].childof = J[k - 1].childof \cup x[k].childof
                /\ J[k].aliases = J[k - 1].aliases \cup Shown(x[k].syms, x[k].aliases)
                /\ J[k].typed = J[k - 1].typed \cup Least(x[k].typed)
                /\ J[k].sig = J[k - 1].sig \cup Least(x[k].sig)
                /\ J[k].syms = MergeSyms(J[k - 1].syms, x[k].syms)
                /\ J[k].files = MergeFiles(J[k - 1].files, x[k].files)
           /\ \A k \in 1..n : x[k] \in Builders
           /\ \A k \in 0..n : J[k] \in Builders
<1>1. ASSUME NEW k \in 1..n
      PROVE  /\ J[k].xrefs = J[k - 1].xrefs \cup x[k].xrefs
             /\ J[k].inherits = J[k - 1].inherits \cup x[k].inherits
             /\ J[k].calls = J[k - 1].calls \cup x[k].calls
             /\ J[k].childof = J[k - 1].childof \cup x[k].childof
             /\ J[k].aliases = J[k - 1].aliases \cup Shown(x[k].syms, x[k].aliases)
             /\ J[k].typed = J[k - 1].typed \cup Least(x[k].typed)
             /\ J[k].sig = J[k - 1].sig \cup Least(x[k].sig)
             /\ J[k].syms = MergeSyms(J[k - 1].syms, x[k].syms)
             /\ J[k].files = MergeFiles(J[k - 1].files, x[k].files)
  <2> DEFINE a == J[k]
             b == J[k - 1]
             c == Norm(x[k])
             y == x[k]
  <2>1. a = merge_from(b, c)
    BY DEF Chain
  <2>2. c = Norm(y)
    OBVIOUS
  <2> HIDE DEF a, b, c, y
  <2>3. /\ a.xrefs = b.xrefs \cup y.xrefs /\ a.inherits = b.inherits \cup y.inherits
        /\ a.calls = b.calls \cup y.calls /\ a.childof = b.childof \cup y.childof
        /\ a.aliases = b.aliases \cup Shown(y.syms, y.aliases)
        /\ a.typed = b.typed \cup Least(y.typed) /\ a.sig = b.sig \cup Least(y.sig)
        /\ a.syms = MergeSyms(b.syms, y.syms) /\ a.files = MergeFiles(b.files, y.files)
    BY <2>1, <2>2 DEF merge_from, Norm
  <2> QED BY <2>3 DEF a, b, y
<1>2. J[0] = NewBuilder /\ (\A k \in 1..n : x[k] \in Builders) /\ (\A k \in 0..n : J[k] \in Builders)
  BY DEF Chain
<1> QED BY <1>1, <1>2

\* The merged rows of src and b are those of y and b.
SameRows(src, y, b) ==
    /\ MergedRows(src, "xrefs", b.xrefs) = Sorted(y.xrefs \cup b.xrefs)
    /\ MergedRows(src, "inh", b.inherits) = Sorted(y.inherits \cup b.inherits)
    /\ MergedRows(src, "calls", b.calls) = Sorted(y.calls \cup b.calls)
    /\ MergedRows(src, "childrev", b.childof) = Sorted(y.childof \cup b.childof)

\* The sections without a rule of their own.
LEMMA KWayRows ==
    ASSUME NEW src, NEW n, NEW x, NEW J, Chain(src, n, x, J), NEW b \in Builders
    PROVE  SameRows(src, J[n], b)
<1>1. n \in Nat /\ n \in 0..n /\ DOMAIN src = 1..n /\ J[0] = NewBuilder
  BY DEF Chain
<1>2. /\ \A k \in 1..n : x[k] \in Builders
      /\ \A k \in 0..n : J[k] \in Builders
  BY ChainTables
<1>3. ASSUME NEW c \in Nat, NEW A \in Fin(Tuple(c)), NEW D \in Fin(Tuple(c))
      PROVE  merge_sorted_dedup(Sorted(A), Sorted(D)) = Sorted(A \cup D)
  BY DedupMerge DEF Fin
<1>4. MergedRows(src, "xrefs", b.xrefs) = Sorted(J[n].xrefs \cup b.xrefs)
  <2> DEFINE q == [i \in DOMAIN src |-> src[i]["xrefs"]]
             A == [i \in 1..n |-> x[i].xrefs]
             K == [k \in 0..n |-> J[k].xrefs]
             D == b.xrefs
  <2>1. A \in [1..n -> Fin(Tuple(4))] /\ K \in [0..n -> Fin(Tuple(4))] /\ D \in Fin(Tuple(4))
    BY <1>2 DEF Builders
  <2>2. K[0] = {} /\ \A k \in 1..n : K[k] = K[k - 1] \cup A[k]
    <3>1. K[0] = {}
      BY <1>1 DEF NewBuilder
    <3>2. \A k \in 1..n : K[k] = K[k - 1] \cup A[k]
      BY <1>1, ChainTables
    <3> QED BY <3>1, <3>2
  <2>3. DOMAIN q = 1..n /\ \A i \in 1..n : q[i] = Sorted(A[i])
    BY <1>1 DEF Chain, finish
  <2>4. K[n] = J[n].xrefs /\ 4 \in Nat
    BY <1>1
  <2> HIDE DEF q, A, K, D
  <2>6. RowsJoined(4, n, A, K, q)
    BY <1>1, <2>1, <2>2, <2>3, <2>4 DEF RowsJoined
  <2>5. merge_sorted_dedup(FoldLeft(merge_sorted_dedup, <<>>, q), Sorted(D)) = Sorted(K[n] \cup D)
    <3>1. D \in Fin(Tuple(4)) /\ K[n] \in Fin(Tuple(4)) /\ 4 \in Nat
      BY <1>1, <2>1
    <3>2. FoldLeft(merge_sorted_dedup, <<>>, q) = Sorted(K[n])
      BY <2>6, RowsSection
    <3> QED BY <1>3, <3>1, <3>2
  <2> QED BY <2>4, <2>5 DEF MergedRows, fold_sources, q, D
<1>5. MergedRows(src, "inh", b.inherits) = Sorted(J[n].inherits \cup b.inherits)
  <2> DEFINE q == [i \in DOMAIN src |-> src[i]["inh"]]
             A == [i \in 1..n |-> x[i].inherits]
             K == [k \in 0..n |-> J[k].inherits]
             D == b.inherits
  <2>1. A \in [1..n -> Fin(Tuple(2))] /\ K \in [0..n -> Fin(Tuple(2))] /\ D \in Fin(Tuple(2))
    BY <1>2 DEF Builders
  <2>2. K[0] = {} /\ \A k \in 1..n : K[k] = K[k - 1] \cup A[k]
    <3>1. K[0] = {}
      BY <1>1 DEF NewBuilder
    <3>2. \A k \in 1..n : K[k] = K[k - 1] \cup A[k]
      BY <1>1, ChainTables
    <3> QED BY <3>1, <3>2
  <2>3. DOMAIN q = 1..n /\ \A i \in 1..n : q[i] = Sorted(A[i])
    BY <1>1 DEF Chain, finish
  <2>4. K[n] = J[n].inherits /\ 2 \in Nat
    BY <1>1
  <2> HIDE DEF q, A, K, D
  <2>6. RowsJoined(2, n, A, K, q)
    BY <1>1, <2>1, <2>2, <2>3, <2>4 DEF RowsJoined
  <2>5. merge_sorted_dedup(FoldLeft(merge_sorted_dedup, <<>>, q), Sorted(D)) = Sorted(K[n] \cup D)
    <3>1. D \in Fin(Tuple(2)) /\ K[n] \in Fin(Tuple(2)) /\ 2 \in Nat
      BY <1>1, <2>1
    <3>2. FoldLeft(merge_sorted_dedup, <<>>, q) = Sorted(K[n])
      BY <2>6, RowsSection
    <3> QED BY <1>3, <3>1, <3>2
  <2> QED BY <2>4, <2>5 DEF MergedRows, fold_sources, q, D
<1>6. MergedRows(src, "calls", b.calls) = Sorted(J[n].calls \cup b.calls)
  <2> DEFINE q == [i \in DOMAIN src |-> src[i]["calls"]]
             A == [i \in 1..n |-> x[i].calls]
             K == [k \in 0..n |-> J[k].calls]
             D == b.calls
  <2>1. A \in [1..n -> Fin(Tuple(3))] /\ K \in [0..n -> Fin(Tuple(3))] /\ D \in Fin(Tuple(3))
    BY <1>2 DEF Builders
  <2>2. K[0] = {} /\ \A k \in 1..n : K[k] = K[k - 1] \cup A[k]
    <3>1. K[0] = {}
      BY <1>1 DEF NewBuilder
    <3>2. \A k \in 1..n : K[k] = K[k - 1] \cup A[k]
      BY <1>1, ChainTables
    <3> QED BY <3>1, <3>2
  <2>3. DOMAIN q = 1..n /\ \A i \in 1..n : q[i] = Sorted(A[i])
    BY <1>1 DEF Chain, finish
  <2>4. K[n] = J[n].calls /\ 3 \in Nat
    BY <1>1
  <2> HIDE DEF q, A, K, D
  <2>6. RowsJoined(3, n, A, K, q)
    BY <1>1, <2>1, <2>2, <2>3, <2>4 DEF RowsJoined
  <2>5. merge_sorted_dedup(FoldLeft(merge_sorted_dedup, <<>>, q), Sorted(D)) = Sorted(K[n] \cup D)
    <3>1. D \in Fin(Tuple(3)) /\ K[n] \in Fin(Tuple(3)) /\ 3 \in Nat
      BY <1>1, <2>1
    <3>2. FoldLeft(merge_sorted_dedup, <<>>, q) = Sorted(K[n])
      BY <2>6, RowsSection
    <3> QED BY <1>3, <3>1, <3>2
  <2> QED BY <2>4, <2>5 DEF MergedRows, fold_sources, q, D
<1>7. MergedRows(src, "childrev", b.childof) = Sorted(J[n].childof \cup b.childof)
  <2> DEFINE q == [i \in DOMAIN src |-> src[i]["childrev"]]
             A == [i \in 1..n |-> x[i].childof]
             K == [k \in 0..n |-> J[k].childof]
             D == b.childof
  <2>1. A \in [1..n -> Fin(Tuple(2))] /\ K \in [0..n -> Fin(Tuple(2))] /\ D \in Fin(Tuple(2))
    BY <1>2 DEF Builders
  <2>2. K[0] = {} /\ \A k \in 1..n : K[k] = K[k - 1] \cup A[k]
    <3>1. K[0] = {}
      BY <1>1 DEF NewBuilder
    <3>2. \A k \in 1..n : K[k] = K[k - 1] \cup A[k]
      BY <1>1, ChainTables
    <3> QED BY <3>1, <3>2
  <2>3. DOMAIN q = 1..n /\ \A i \in 1..n : q[i] = Sorted(A[i])
    BY <1>1 DEF Chain, finish
  <2>4. K[n] = J[n].childof /\ 2 \in Nat
    BY <1>1
  <2> HIDE DEF q, A, K, D
  <2>6. RowsJoined(2, n, A, K, q)
    BY <1>1, <2>1, <2>2, <2>3, <2>4 DEF RowsJoined
  <2>5. merge_sorted_dedup(FoldLeft(merge_sorted_dedup, <<>>, q), Sorted(D)) = Sorted(K[n] \cup D)
    <3>1. D \in Fin(Tuple(2)) /\ K[n] \in Fin(Tuple(2)) /\ 2 \in Nat
      BY <1>1, <2>1
    <3>2. FoldLeft(merge_sorted_dedup, <<>>, q) = Sorted(K[n])
      BY <2>6, RowsSection
    <3> QED BY <1>3, <3>1, <3>2
  <2> QED BY <2>4, <2>5 DEF MergedRows, fold_sources, q, D
<1> QED BY <1>4, <1>5, <1>6, <1>7 DEF SameRows

\* The sections with a rule of their own.
LEMMA KWayMaps ==
    ASSUME NEW src, NEW n, NEW x, NEW J, Chain(src, n, x, J), NEW b \in Builders
    PROVE  /\ MergedSyms(src, b.syms) = SymRows(MergeSyms(J[n].syms, b.syms))
           /\ MergedFiles(src, b.files) = FileRows(MergeFiles(J[n].files, b.files))
           /\ MergedStrings(src, "typed", b.typed) = OnePerSym(J[n].typed \cup b.typed)
           /\ MergedStrings(src, "sig", b.sig) = OnePerSym(J[n].sig \cup b.sig)
<1>1. n \in Nat /\ n \in 0..n /\ DOMAIN src = 1..n /\ J[0] = NewBuilder
  BY DEF Chain
<1>2. /\ \A k \in 1..n : x[k] \in Builders
      /\ \A k \in 0..n : J[k] \in Builders
  BY ChainTables
<1>3. ASSUME NEW S \in Fin(StrRec) PROVE OnePerSym(Least(S)) = OnePerSym(S)
  <2>1. \A T : OnePerSym(T) = Sorted(Least(T))
    BY DEF OnePerSym, Least
  <2> QED BY <2>1, LeastLeast DEF Fin
<1>4. MergedSyms(src, b.syms) = SymRows(MergeSyms(J[n].syms, b.syms))
  <2> DEFINE q == [i \in DOMAIN src |-> src[i]["syms"]]
             A == [i \in 1..n |-> x[i].syms]
             K == [k \in 0..n |-> J[k].syms]
             D == b.syms
  <2>1. A \in [1..n -> Maps(SymRow)] /\ K \in [0..n -> Maps(SymRow)] /\ D \in Maps(SymRow)
    BY <1>2 DEF Builders
  <2>2. K[0] = <<>> /\ \A k \in 1..n : K[k] = MergeSyms(K[k - 1], A[k])
    <3>1. K[0] = <<>>
      BY <1>1 DEF NewBuilder
    <3>2. \A k \in 1..n : K[k] = MergeSyms(K[k - 1], A[k])
      BY <1>1, ChainTables
    <3> QED BY <3>1, <3>2
  <2>3. DOMAIN q = 1..n /\ \A i \in 1..n : q[i] = SymRows(A[i])
    BY <1>1 DEF Chain, finish
  <2>4. K[n] = J[n].syms /\ K[n] \in Maps(SymRow)
    BY <1>1, <2>1
  <2> HIDE DEF q, A, K, D
  <2>5. SymJoined(n, A, K, q)
    BY <1>1, <2>1, <2>2, <2>3 DEF SymJoined
  <2>6. FoldLeft(merge_syms_refine, <<>>, q) = SymRows(K[n])
    BY <2>5, SymSection
  <2>7. merge_syms_refine(SymRows(K[n]), SymRows(D)) = SymRows(MergeSyms(K[n], D))
    BY <2>1, <2>4, SymMerge, FiniteParts
  <2> QED BY <2>4, <2>6, <2>7 DEF MergedSyms, fold_sources, q, D
<1>5. MergedFiles(src, b.files) = FileRows(MergeFiles(J[n].files, b.files))
  <2> DEFINE q == [i \in DOMAIN src |-> src[i]["files"]]
             A == [i \in 1..n |-> x[i].files]
             K == [k \in 0..n |-> J[k].files]
             D == b.files
  <2>1. A \in [1..n -> Maps(Int)] /\ K \in [0..n -> Maps(Int)] /\ D \in Maps(Int)
    BY <1>2 DEF Builders
  <2>2. K[0] = <<>> /\ \A k \in 1..n : K[k] = MergeFiles(K[k - 1], A[k])
    <3>1. K[0] = <<>>
      BY <1>1 DEF NewBuilder
    <3>2. \A k \in 1..n : K[k] = MergeFiles(K[k - 1], A[k])
      BY <1>1, ChainTables
    <3> QED BY <3>1, <3>2
  <2>3. DOMAIN q = 1..n /\ \A i \in 1..n : q[i] = FileRows(A[i])
    BY <1>1 DEF Chain, finish
  <2>4. K[n] = J[n].files /\ K[n] \in Maps(Int)
    BY <1>1, <2>1
  <2> HIDE DEF q, A, K, D
  <2>5. FileJoined(n, A, K, q)
    BY <1>1, <2>1, <2>2, <2>3 DEF FileJoined
  <2>6. FoldLeft(merge_files_first_wins, <<>>, q) = FileRows(K[n])
    BY <2>5, FileSection
  <2>7. merge_files_first_wins(FileRows(K[n]), FileRows(D)) = FileRows(MergeFiles(K[n], D))
    BY <2>1, <2>4, FileMerge, FiniteParts
  <2> QED BY <2>4, <2>6, <2>7 DEF MergedFiles, fold_sources, q, D
<1>6. MergedStrings(src, "typed", b.typed) = OnePerSym(J[n].typed \cup b.typed)
  <2> DEFINE q == [i \in DOMAIN src |-> src[i]["typed"]]
             A == [i \in 1..n |-> Least(x[i].typed)]
             K == [k \in 0..n |-> J[k].typed]
             D == b.typed
  <2>1. A \in [1..n -> Fin(StrRec)] /\ K \in [0..n -> Fin(StrRec)] /\ D \in Fin(StrRec)
    <3>1. \A i \in 1..n : x[i].typed \in Fin(StrRec)
      BY <1>2 DEF Builders
    <3>2. \A i \in 1..n : Least(x[i].typed) \in Fin(StrRec)
      BY <3>1, TableSet
    <3>3. (\A k \in 0..n : J[k].typed \in Fin(StrRec)) /\ b.typed \in Fin(StrRec)
      BY <1>2 DEF Builders
    <3> QED BY <3>2, <3>3
  <2>2. K[0] = {} /\ \A k \in 1..n : K[k] = K[k - 1] \cup A[k]
    <3>1. K[0] = {}
      BY <1>1 DEF NewBuilder
    <3>2. \A k \in 1..n : K[k] = K[k - 1] \cup A[k]
      BY <1>1, ChainTables
    <3> QED BY <3>1, <3>2
  <2>3. DOMAIN q = 1..n /\ \A i \in 1..n : q[i] = OnePerSym(A[i])
    <3>1. DOMAIN q = 1..n /\ \A i \in 1..n : q[i] = OnePerSym(x[i].typed) /\ A[i] = Least(x[i].typed)
      BY <1>1 DEF Chain, finish
    <3> HIDE DEF q, A
    <3>2. \A i \in 1..n : OnePerSym(Least(x[i].typed)) = OnePerSym(x[i].typed)
      <4>1. \A i \in 1..n : x[i].typed \in Fin(StrRec)
        BY <1>2 DEF Builders
      <4> QED BY <1>3, <4>1
    <3> QED BY <3>1, <3>2
  <2>4. K[n] = J[n].typed /\ K[n] \in Fin(StrRec)
    BY <1>1, <2>1
  <2> HIDE DEF q, A, K, D
  <2>5. StrJoined(n, A, K, q)
    BY <1>1, <2>1, <2>2, <2>3 DEF StrJoined
  <2>6. FoldLeft(merge_typed_by_sym, <<>>, q) = OnePerSym(K[n])
    BY <2>5, StrSection
  <2>7. merge_typed_by_sym(OnePerSym(K[n]), OnePerSym(D)) = OnePerSym(K[n] \cup D)
    BY <2>1, <2>4, StrMerge DEF Fin
  <2> DEFINE E == K[n] \cup D
  <2>8. E \in Fin(StrRec)
    BY <2>1, <2>4, FiniteParts
  <2> HIDE DEF E
  <2>9. WithString(OnePerSym(E)) = OnePerSym(E)
    BY <2>8, TableSet, StringsKept
  <2> QED BY <2>4, <2>6, <2>7, <2>9 DEF MergedStrings, fold_sources, q, D, E
<1>7. MergedStrings(src, "sig", b.sig) = OnePerSym(J[n].sig \cup b.sig)
  <2> DEFINE q == [i \in DOMAIN src |-> src[i]["sig"]]
             A == [i \in 1..n |-> Least(x[i].sig)]
             K == [k \in 0..n |-> J[k].sig]
             D == b.sig
  <2>1. A \in [1..n -> Fin(StrRec)] /\ K \in [0..n -> Fin(StrRec)] /\ D \in Fin(StrRec)
    <3>1. \A i \in 1..n : x[i].sig \in Fin(StrRec)
      BY <1>2 DEF Builders
    <3>2. \A i \in 1..n : Least(x[i].sig) \in Fin(StrRec)
      BY <3>1, TableSet
    <3>3. (\A k \in 0..n : J[k].sig \in Fin(StrRec)) /\ b.sig \in Fin(StrRec)
      BY <1>2 DEF Builders
    <3> QED BY <3>2, <3>3
  <2>2. K[0] = {} /\ \A k \in 1..n : K[k] = K[k - 1] \cup A[k]
    <3>1. K[0] = {}
      BY <1>1 DEF NewBuilder
    <3>2. \A k \in 1..n : K[k] = K[k - 1] \cup A[k]
      BY <1>1, ChainTables
    <3> QED BY <3>1, <3>2
  <2>3. DOMAIN q = 1..n /\ \A i \in 1..n : q[i] = OnePerSym(A[i])
    <3>1. DOMAIN q = 1..n /\ \A i \in 1..n : q[i] = OnePerSym(x[i].sig) /\ A[i] = Least(x[i].sig)
      BY <1>1 DEF Chain, finish
    <3> HIDE DEF q, A
    <3>2. \A i \in 1..n : OnePerSym(Least(x[i].sig)) = OnePerSym(x[i].sig)
      <4>1. \A i \in 1..n : x[i].sig \in Fin(StrRec)
        BY <1>2 DEF Builders
      <4> QED BY <1>3, <4>1
    <3> QED BY <3>1, <3>2
  <2>4. K[n] = J[n].sig /\ K[n] \in Fin(StrRec)
    BY <1>1, <2>1
  <2> HIDE DEF q, A, K, D
  <2>5. StrJoined(n, A, K, q)
    BY <1>1, <2>1, <2>2, <2>3 DEF StrJoined
  <2>6. FoldLeft(merge_typed_by_sym, <<>>, q) = OnePerSym(K[n])
    BY <2>5, StrSection
  <2>7. merge_typed_by_sym(OnePerSym(K[n]), OnePerSym(D)) = OnePerSym(K[n] \cup D)
    BY <2>1, <2>4, StrMerge DEF Fin
  <2> DEFINE E == K[n] \cup D
  <2>8. E \in Fin(StrRec)
    BY <2>1, <2>4, FiniteParts
  <2> HIDE DEF E
  <2>9. WithString(OnePerSym(E)) = OnePerSym(E)
    BY <2>8, TableSet, StringsKept
  <2> QED BY <2>4, <2>6, <2>7, <2>9 DEF MergedStrings, fold_sources, q, D, E
<1> QED BY <1>4, <1>5, <1>6, <1>7

\* The names: the sources' aliases are those their name indexes still show.
LEMMA KWayNames ==
    ASSUME NEW src, NEW n, NEW x, NEW J, Chain(src, n, x, J), NEW b \in Builders, NEW syms
    PROVE  MergedNames(src, syms, b.aliases) = NameRows(syms, J[n].aliases \cup b.aliases)
<1>1. n \in Nat /\ n \in 0..n /\ DOMAIN src = 1..n /\ J[0] = NewBuilder
  BY DEF Chain
<1>2. /\ \A k \in 1..n : x[k] \in Builders
      /\ \A k \in 0..n : J[k] \in Builders
  BY ChainTables
<1>3. ASSUME NEW i \in 1..n PROVE iter_aliases(src[i]) = Shown(x[i].syms, x[i].aliases)
  <2>1. x[i].syms \in Maps(SymRow) /\ x[i].aliases \in Fin(StrRec)
    BY <1>2 DEF Builders
  <2>2. src[i].names = NameRows(SymRows(x[i].syms), x[i].aliases)
    BY DEF Chain, finish
  <2> QED BY <2>1, <2>2, NameTable
<1> DEFINE P(k) == UNION {iter_aliases(src[i]) : i \in 1..k}
           G == {k \in 0..n : J[k].aliases = P(k)}
<1>4. 0 \in G
  <2>1. J[0].aliases = {}
    BY <1>1 DEF NewBuilder
  <2>2. 1..0 = {} /\ 0 \in 0..n
    BY <1>1
  <2> QED BY <2>1, <2>2
<1>5. ASSUME NEW k \in 1..n, k - 1 \in G PROVE k \in G
  <2>1. J[k].aliases = J[k - 1].aliases \cup iter_aliases(src[k])
    BY <1>3, ChainTables
  <2>2. \A i : i \in 1..k <=> i \in 1..(k - 1) \/ i = k
    BY <1>1
  <2>3. P(k) = P(k - 1) \cup iter_aliases(src[k])
    <3>1. ASSUME NEW a PROVE a \in P(k) <=> a \in P(k - 1) \/ a \in iter_aliases(src[k])
      <4>1. a \in P(k) <=> \E i \in 1..k : a \in iter_aliases(src[i])
        OBVIOUS
      <4>2. a \in P(k - 1) <=> \E i \in 1..(k - 1) : a \in iter_aliases(src[i])
        OBVIOUS
      <4> HIDE DEF P
      <4> QED BY <2>2, <4>1, <4>2
    <3> HIDE DEF P
    <3> QED BY <3>1
  <2>4. J[k - 1].aliases = P(k - 1)
    BY <1>5
  <2>5. k \in 0..n
    BY <1>1
  <2> HIDE DEF P
  <2> QED BY <2>1, <2>3, <2>4, <2>5
<1>6. J[n].aliases = P(n)
  <2>1. \A k \in 0..n : k \in G
    <3> HIDE DEF G
    <3> QED BY <1>1, <1>4, <1>5, UpTo
  <2> QED BY <1>1, <2>1
<1>7. UNION {iter_aliases(s) : s \in ToSet(src)} = P(n)
  BY <1>1 DEF ToSet
<1> DEFINE A == J[n].aliases
           B == b.aliases
           C == A \cup B
<1>8. A \in Fin(StrRec) /\ B \in Fin(StrRec)
  BY <1>1, <1>2 DEF Builders
<1>9. A \in Fin(Tuple(2)) /\ B \in Fin(Tuple(2)) /\ C \in Fin(Tuple(2))
  BY <1>8, TableSet, FiniteParts
<1> HIDE DEF P, A, B
<1>10. merge_aliases_dedup(Sorted(A), Sorted(B)) = merge_sorted_dedup(Sorted(A), Sorted(B))
  BY Zenon DEF merge_aliases_dedup, merge_sorted_dedup
<1>11. merge_sorted_dedup(Sorted(A), Sorted(B)) = Sorted(C)
  BY <1>9, DedupMerge DEF Fin
<1> HIDE DEF C
<1>12. ToSet(merge_aliases_dedup(Sorted(A), Sorted(B))) = C
  BY <1>9, <1>10, <1>11, SortedSet
<1>13. MergedNames(src, syms, b.aliases) = NameRows(syms, ToSet(merge_aliases_dedup(Sorted(A), Sorted(B))))
  BY <1>6, <1>7 DEF MergedNames, A, B
<1> QED BY <1>12, <1>13 DEF A, B, C

\* A k-way merge of files and a builder writes what one builder that had
\* taken in all of them would write.
THEOREM KWayMerge ==
    ASSUME NEW src, NEW n, NEW x, NEW J, Chain(src, n, x, J), NEW b \in Builders
    PROVE  write_merged_snapshot(b, src) = finish(merge_from(J[n], b))
<1> DEFINE y == J[n]
           c == merge_from(y, b)
<1>1. /\ c.xrefs = y.xrefs \cup b.xrefs /\ c.inherits = y.inherits \cup b.inherits
      /\ c.calls = y.calls \cup b.calls /\ c.childof = y.childof \cup b.childof
      /\ c.aliases = y.aliases \cup b.aliases /\ c.typed = y.typed \cup b.typed
      /\ c.sig = y.sig \cup b.sig /\ c.syms = MergeSyms(y.syms, b.syms)
      /\ c.files = MergeFiles(y.files, b.files)
  BY DEF merge_from
<1>2. /\ MergedRows(src, "xrefs", b.xrefs) = Sorted(y.xrefs \cup b.xrefs)
      /\ MergedRows(src, "inh", b.inherits) = Sorted(y.inherits \cup b.inherits)
      /\ MergedRows(src, "calls", b.calls) = Sorted(y.calls \cup b.calls)
      /\ MergedRows(src, "childrev", b.childof) = Sorted(y.childof \cup b.childof)
  <2>1. SameRows(src, y, b)
    BY KWayRows
  <2> QED BY <2>1 DEF SameRows
<1>3. /\ MergedSyms(src, b.syms) = SymRows(MergeSyms(y.syms, b.syms))
      /\ MergedFiles(src, b.files) = FileRows(MergeFiles(y.files, b.files))
      /\ MergedStrings(src, "typed", b.typed) = OnePerSym(y.typed \cup b.typed)
      /\ MergedStrings(src, "sig", b.sig) = OnePerSym(y.sig \cup b.sig)
  BY KWayMaps
<1>4. \A s : MergedNames(src, s, b.aliases) = NameRows(s, y.aliases \cup b.aliases)
  BY KWayNames
<1> HIDE DEF y, c
<1>5. write_merged_snapshot(b, src) = finish(c)
  BY <1>1, <1>2, <1>3, <1>4 DEF write_merged_snapshot, finish
<1> QED BY <1>5 DEF c, y

-----------------------------------------------------------------------------
(* Replay.                                                                 *)

Only(s, e) == [t \in {s} |-> e]

\* The rows of a table of symbols, and the map they come from.
LEMMA SymList ==
    ASSUME NEW f \in Maps(SymRow), NEW q, q = SymRows(f)
    PROVE  /\ Len(q) \in Nat /\ DOMAIN q = 1..Len(q)
           /\ \A i \in 1..Len(q) : q[i][1] \in DOMAIN f /\ Tail(q[i]) = f[q[i][1]]
           /\ \A i, j \in 1..Len(q) : i < j => q[i][1] # q[j][1]
           /\ \A s \in DOMAIN f : \E i \in 1..Len(q) : q[i][1] = s
<1>1. /\ SymSet(f) \in Fin(Tuple(4)) /\ Keyed(SymSet(f)) /\ q = Sorted(SymSet(f))
      /\ ToSet(q) = SymSet(f) /\ q \in Seq(SymRec)
  BY TableSet
<1>2. Len(q) \in Nat /\ DOMAIN q = 1..Len(q)
  BY <1>1
<1>3. Up(q, ByFirst(SymRec))
  <2>1. SymRec \in SUBSET Tuple(4) /\ 4 \in Nat /\ 4 >= 1
    BY DEF SymRec
  <2>2. SymSet(f) \in SUBSET SymRec /\ IsFiniteSet(SymSet(f))
    BY SymTable, FiniteParts
  <2> QED BY <1>1, <2>1, <2>2, KeyedSorted
<1>4. \A s \in DOMAIN f : (<<s>> \o f[s])[1] = s /\ Tail(<<s>> \o f[s]) = f[s]
  BY SymRecs, FiniteParts DEF IsMap
<1>5. ASSUME NEW i \in 1..Len(q) PROVE q[i][1] \in DOMAIN f /\ Tail(q[i]) = f[q[i][1]]
  <2>1. q[i] \in SymSet(f)
    BY <1>1, <1>2 DEF ToSet
  <2>2. PICK s \in DOMAIN f : q[i] = (<<s>> \o f[s])
    BY <2>1 DEF SymSet
  <2> QED BY <1>4, <2>2
<1>6. ASSUME NEW i \in 1..Len(q), NEW j \in 1..Len(q), i < j PROVE q[i][1] # q[j][1]
  <2>1. q[i] \in SymRec /\ q[j] \in SymRec
    BY <1>1
  <2>2. <<q[i], q[j]>> \in ByFirst(SymRec)
    BY <1>3, <1>6 DEF Up
  <2>3. q[i][1] < q[j][1] /\ q[i][1] \in Int /\ q[j][1] \in Int
    BY <2>1, <2>2 DEF ByFirst, SymRec, Tuple
  <2> QED BY <2>3
<1>7. ASSUME NEW s \in DOMAIN f PROVE \E i \in 1..Len(q) : q[i][1] = s
  <2>1. (<<s>> \o f[s]) \in ToSet(q)
    BY <1>1 DEF SymSet
  <2>2. PICK i \in 1..Len(q) : q[i] = (<<s>> \o f[s])
    BY <1>2, <2>1 DEF ToSet
  <2> QED BY <1>4, <2>2
<1> QED BY <1>2, <1>5, <1>6, <1>7

\* The same for files.
LEMMA FileList ==
    ASSUME NEW f \in Maps(Int), NEW q, q = FileRows(f)
    PROVE  /\ Len(q) \in Nat /\ DOMAIN q = 1..Len(q)
           /\ \A i \in 1..Len(q) : q[i][1] \in DOMAIN f /\ q[i][2] = f[q[i][1]]
           /\ \A i, j \in 1..Len(q) : i < j => q[i][1] # q[j][1]
           /\ \A s \in DOMAIN f : \E i \in 1..Len(q) : q[i][1] = s
<1>1. /\ FileSet(f) \in Fin(Tuple(2)) /\ Keyed(FileSet(f)) /\ q = Sorted(FileSet(f))
      /\ ToSet(q) = FileSet(f) /\ q \in Seq(Tuple(2))
  BY TableSet
<1>2. Len(q) \in Nat /\ DOMAIN q = 1..Len(q)
  BY <1>1
<1>3. Up(q, ByFirst(Tuple(2)))
  <2>1. Tuple(2) \in SUBSET Tuple(2) /\ 2 \in Nat /\ 2 >= 1
    BY DEF SymRec
  <2>2. FileSet(f) \in SUBSET Tuple(2) /\ IsFiniteSet(FileSet(f))
    BY FileTable, FiniteParts
  <2> QED BY <1>1, <2>1, <2>2, KeyedSorted
<1>4. \A s \in DOMAIN f : <<s, f[s]>>[1] = s /\ <<s, f[s]>>[2] = f[s]
  OBVIOUS
<1>5. ASSUME NEW i \in 1..Len(q) PROVE q[i][1] \in DOMAIN f /\ q[i][2] = f[q[i][1]]
  <2>1. q[i] \in FileSet(f)
    BY <1>1, <1>2 DEF ToSet
  <2>2. PICK s \in DOMAIN f : q[i] = <<s, f[s]>>
    BY <2>1 DEF FileSet
  <2> QED BY <1>4, <2>2
<1>6. ASSUME NEW i \in 1..Len(q), NEW j \in 1..Len(q), i < j PROVE q[i][1] # q[j][1]
  <2>1. q[i] \in Tuple(2) /\ q[j] \in Tuple(2)
    BY <1>1
  <2>2. <<q[i], q[j]>> \in ByFirst(Tuple(2))
    BY <1>3, <1>6 DEF Up
  <2>3. q[i][1] < q[j][1] /\ q[i][1] \in Int /\ q[j][1] \in Int
    BY <2>1, <2>2 DEF ByFirst, SymRec, Tuple
  <2> QED BY <2>3
<1>7. ASSUME NEW s \in DOMAIN f PROVE \E i \in 1..Len(q) : q[i][1] = s
  <2>1. <<s, f[s]>> \in ToSet(q)
    BY <1>1 DEF FileSet
  <2>2. PICK i \in 1..Len(q) : q[i] = <<s, f[s]>>
    BY <1>2, <2>1 DEF ToSet
  <2> QED BY <1>4, <2>2
<1> QED BY <1>2, <1>5, <1>6, <1>7

\* One symbol is merged in as a map with one entry is.
LEMMA SymOne ==
    ASSUME NEW b \in Builders, NEW s, NEW e
    PROVE  upsert_sym(b, s, e) = [b EXCEPT !.syms = MergeSyms(b.syms, Only(s, e))]
<1> DEFINE g == Only(s, e)
           h == b.syms
           u == [t \in DOMAIN h \cup {s} |->
                    IF t # s THEN h[t] ELSE IF s \in DOMAIN h THEN Refine(h[s], e) ELSE e]
           v == MergeSyms(h, g)
<1>1. upsert_sym(b, s, e) = [b EXCEPT !.syms = u]
  BY Zenon DEF upsert_sym, Entry
<1>2. DOMAIN g = {s} /\ g[s] = e
  BY DEF Only
<1>3. DOMAIN u = DOMAIN h \cup {s} /\ DOMAIN v = DOMAIN h \cup {s}
  BY <1>2 DEF MergeSyms
<1>4. \A t \in DOMAIN h \cup {s} : u[t] = v[t]
  BY <1>2 DEF MergeSyms
<1>5. u = [t \in DOMAIN u |-> u[t]] /\ v = [t \in DOMAIN v |-> v[t]]
  BY DEF MergeSyms
<1> HIDE DEF u, v, g, h
<1>6. u = v
  BY <1>3, <1>4, <1>5
<1> QED BY <1>1, <1>6 DEF v, h, g

\* One file is merged in as a map with one entry is.
LEMMA FileOne ==
    ASSUME NEW b \in Builders, NEW s, NEW e
    PROVE  upsert_file(b, s, e) = [b EXCEPT !.files = MergeFiles(b.files, Only(s, e))]
<1> DEFINE g == Only(s, e)
           h == b.files
           u == [t \in DOMAIN h \cup {s} |->
                    IF t # s THEN h[t] ELSE IF s \in DOMAIN h THEN h[s] ELSE e]
           v == MergeFiles(h, g)
<1>1. upsert_file(b, s, e) = [b EXCEPT !.files = u]
  BY Zenon DEF upsert_file, Entry
<1>2. DOMAIN g = {s} /\ g[s] = e
  BY DEF Only
<1>3. DOMAIN u = DOMAIN h \cup {s} /\ DOMAIN v = DOMAIN h \cup {s}
  BY <1>2 DEF MergeFiles
<1>4. \A t \in DOMAIN h \cup {s} : u[t] = v[t]
  BY <1>2 DEF MergeFiles
<1>5. u = [t \in DOMAIN u |-> u[t]] /\ v = [t \in DOMAIN v |-> v[t]]
  BY DEF MergeFiles
<1> HIDE DEF u, v, g, h
<1>6. u = v
  BY <1>3, <1>4, <1>5
<1> QED BY <1>1, <1>6 DEF v, h, g

\* The replay of a table of symbols is the merge of the map.
LEMMA SymReplayed ==
    ASSUME NEW b \in Builders, NEW f \in Maps(SymRow)
    PROVE  FoldLeft(LAMBDA acc, r : upsert_sym(acc, r[1], Tail(r)), b, SymRows(f)) = [b EXCEPT !.syms = MergeSyms(b.syms, f)]
<1> DEFINE q == SymRows(f)
           n == Len(q)
<1>0. /\ n \in Nat /\ DOMAIN q = 1..n
      /\ \A i \in 1..n : q[i][1] \in DOMAIN f /\ Tail(q[i]) = f[q[i][1]]
      /\ \A i, j \in 1..n : i < j => q[i][1] # q[j][1]
      /\ \A s \in DOMAIN f : \E i \in 1..n : q[i][1] = s
  BY SymList
<1>1. IsMap(f, SymRow) /\ b.syms \in Maps(SymRow)
  BY FiniteParts DEF Builders
<1> DEFINE g(k) == [s \in {q[i][1] : i \in 1..k} |-> f[s]]
<1> HIDE DEF q, n
<1>2. \A s \in DOMAIN f : s \in Int /\ f[s] \in SymRow
  BY <1>1 DEF IsMap
<1>3. ASSUME NEW s \in DOMAIN f
      PROVE  Only(s, f[s]) \in Maps(SymRow)
  <2>1. {s} \in Fin(Int)
    BY <1>2, FS_Singleton DEF Fin
  <2>2. [t \in {s} |-> f[s]] \in [{s} -> SymRow]
    BY <1>2
  <2> QED BY <2>1, <2>2 DEF Maps, Only
<1>4. ASSUME NEW x \in Builders, NEW i \in 1..n
      PROVE  /\ upsert_sym(x, q[i][1], Tail(q[i])) = [x EXCEPT !.syms = MergeSyms(x.syms, Only(q[i][1], f[q[i][1]]))]
             /\ upsert_sym(x, q[i][1], Tail(q[i])) \in Builders
  <2> DEFINE s == q[i][1]
             o == Only(s, f[s])
             y == MergeSyms(x.syms, o)
  <2>1. s \in DOMAIN f /\ Tail(q[i]) = f[s]
    BY <1>0
  <2>2. s \in Int /\ f[s] \in SymRow /\ o \in Maps(SymRow) /\ x.syms \in Maps(SymRow)
    BY <1>2, <1>3, <2>1 DEF Builders
  <2>3. upsert_sym(x, q[i][1], Tail(q[i])) = [x EXCEPT !.syms = y]
    <3> DEFINE e == f[s]
    <3>1. s \in Int /\ e \in SymRow /\ Tail(q[i]) = e
      BY <2>1, <2>2
    <3> HIDE DEF s, e
    <3>2. upsert_sym(x, s, e) = [x EXCEPT !.syms = MergeSyms(x.syms, Only(s, e))]
      BY SymOne
    <3> QED BY <3>1, <3>2 DEF s, e
  <2> HIDE DEF o
  <2>4. y \in Maps(SymRow)
    BY <2>2, SymMerge, FiniteParts
  <2> HIDE DEF y
  <2>5. [x EXCEPT !.syms = y] \in Builders
    BY <2>4 DEF Builders
  <2> QED BY <2>3, <2>5 DEF y, o
<1>5. SymReplaySteps(n, q, Builders, b)
  BY <1>0, <1>4 DEF SymReplaySteps
<1>6. PICK h : SymReplayStages(h, n, q, Builders, b)
  BY <1>5, SymReplayFold
<1> DEFINE S == {k \in 0..n : h[k] = [b EXCEPT !.syms = MergeSyms(b.syms, g(k))]}
<1>7. 0 \in S
  <2>1. 1..0 = {}
    OBVIOUS
  <2>2. DOMAIN g(0) = {}
    BY <2>1
  <2>3. MergeSyms(b.syms, g(0)) = [s \in DOMAIN b.syms |-> b.syms[s]]
    BY <2>2 DEF MergeSyms
  <2>4. MergeSyms(b.syms, g(0)) = b.syms
    BY <1>1, <2>3, FiniteParts DEF IsMap
  <2> HIDE DEF g
  <2>5. h[0] = b /\ b = [b EXCEPT !.syms = b.syms]
    BY <1>6 DEF SymReplayStages, Builders
  <2> QED BY <1>0, <2>4, <2>5
<1>8. ASSUME NEW k \in 1..n, k - 1 \in S PROVE k \in S
  <2> DEFINE s == q[k][1]
             o == Only(s, f[s])
             e == b.syms
             x == [b EXCEPT !.syms = MergeSyms(e, g(k - 1))]
             u == MergeSyms(MergeSyms(e, g(k - 1)), o)
             v == MergeSyms(e, g(k))
  <2>1. h[k - 1] = x /\ k \in 0..n
    BY <1>0, <1>8
  <2>2. h[k - 1] \in Builders
    BY <1>6 DEF SymReplayStages
  <2>3. h[k] = [x EXCEPT !.syms = MergeSyms(x.syms, o)]
    <3> HIDE DEF x, g
    <3>1. h[k] = upsert_sym(h[k - 1], q[k][1], Tail(q[k]))
      BY <1>6 DEF SymReplayStages
    <3> QED BY <1>4, <2>1, <2>2, <3>1
  <2>4. x.syms = MergeSyms(e, g(k - 1))
    <3> DEFINE w == MergeSyms(e, g(k - 1))
    <3> HIDE DEF w
    <3>1. [b EXCEPT !.syms = w].syms = w
      BY DEF Builders
    <3> QED BY <3>1 DEF w
  <2>5. h[k] = [b EXCEPT !.syms = u]
    <3> DEFINE w == MergeSyms(e, g(k - 1))
    <3> HIDE DEF w
    <3>1. \A z : [[b EXCEPT !.syms = w] EXCEPT !.syms = z] = [b EXCEPT !.syms = z]
      BY DEF Builders
    <3> QED BY <2>3, <2>4, <3>1 DEF w
  <2>6. u = v
    <3>1. DOMAIN g(k) = DOMAIN g(k - 1) \cup {s} /\ s \notin DOMAIN g(k - 1)
      <4>1. DOMAIN g(k) = {q[i][1] : i \in 1..k} /\ DOMAIN g(k - 1) = {q[i][1] : i \in 1..(k - 1)}
        OBVIOUS
      <4>2. \A i : i \in 1..k <=> i \in 1..(k - 1) \/ i = k
        BY <1>0
      <4>3. \A i \in 1..(k - 1) : q[i][1] # q[k][1]
        <5> SUFFICES ASSUME NEW i \in 1..(k - 1) PROVE q[i][1] # q[k][1]
          OBVIOUS
        <5>1. i \in 1..n /\ k \in 1..n /\ i < k
          BY <1>0
        <5> QED BY <1>0, <5>1
      <4> HIDE DEF g
      <4> QED BY <4>1, <4>2, <4>3
    <3>2. (\A t \in DOMAIN g(k) : g(k)[t] = f[t]) /\ \A t \in DOMAIN g(k - 1) : g(k - 1)[t] = f[t]
      OBVIOUS
    <3>3. DOMAIN o = {s} /\ o[s] = f[s]
      BY DEF Only
    <3> HIDE DEF g, o, s, e
    <3>4. DOMAIN u = DOMAIN e \cup DOMAIN g(k) /\ DOMAIN v = DOMAIN e \cup DOMAIN g(k)
      BY <3>1, <3>3 DEF MergeSyms
    <3>5. \A t \in DOMAIN e \cup DOMAIN g(k) : u[t] = v[t]
      BY <3>1, <3>2, <3>3 DEF MergeSyms
    <3>6. u = [t \in DOMAIN u |-> u[t]] /\ v = [t \in DOMAIN v |-> v[t]]
      BY DEF MergeSyms
    <3> HIDE DEF u, v
    <3> QED BY <3>4, <3>5, <3>6
  <2> QED BY <2>1, <2>5, <2>6
<1>9. \A k \in 0..n : k \in S
  <2> HIDE DEF S
  <2> QED BY <1>0, <1>7, <1>8, UpTo
<1>10. g(n) = f
  <2>1. \A s : s \in {q[i][1] : i \in 1..n} <=> s \in DOMAIN f
    BY <1>0
  <2>2. {q[i][1] : i \in 1..n} = DOMAIN f
    BY <2>1
  <2>3. f = [s \in DOMAIN f |-> f[s]]
    BY <1>1 DEF IsMap
  <2> QED BY <2>2, <2>3
<1> HIDE DEF g
<1>11. h[n] = [b EXCEPT !.syms = MergeSyms(b.syms, f)]
  BY <1>0, <1>9, <1>10
<1>12. FoldLeft(LAMBDA acc, r : upsert_sym(acc, r[1], Tail(r)), b, q) = h[n]
  BY <1>6 DEF SymReplayStages
<1> QED BY <1>11, <1>12 DEF q

\* The replay of a table of files is the merge of the map.
LEMMA FileReplayed ==
    ASSUME NEW b \in Builders, NEW f \in Maps(Int)
    PROVE  FoldLeft(LAMBDA acc, r : upsert_file(acc, r[1], r[2]), b, FileRows(f)) = [b EXCEPT !.files = MergeFiles(b.files, f)]
<1> DEFINE q == FileRows(f)
           n == Len(q)
<1>0. /\ n \in Nat /\ DOMAIN q = 1..n
      /\ \A i \in 1..n : q[i][1] \in DOMAIN f /\ q[i][2] = f[q[i][1]]
      /\ \A i, j \in 1..n : i < j => q[i][1] # q[j][1]
      /\ \A s \in DOMAIN f : \E i \in 1..n : q[i][1] = s
  BY FileList
<1>1. IsMap(f, Int) /\ b.files \in Maps(Int)
  BY FiniteParts DEF Builders
<1> DEFINE g(k) == [s \in {q[i][1] : i \in 1..k} |-> f[s]]
<1> HIDE DEF q, n
<1>2. \A s \in DOMAIN f : s \in Int /\ f[s] \in Int
  BY <1>1 DEF IsMap
<1>3. ASSUME NEW s \in DOMAIN f
      PROVE  Only(s, f[s]) \in Maps(Int)
  <2>1. {s} \in Fin(Int)
    BY <1>2, FS_Singleton DEF Fin
  <2>2. [t \in {s} |-> f[s]] \in [{s} -> Int]
    BY <1>2
  <2> QED BY <2>1, <2>2 DEF Maps, Only
<1>4. ASSUME NEW x \in Builders, NEW i \in 1..n
      PROVE  /\ upsert_file(x, q[i][1], q[i][2]) = [x EXCEPT !.files = MergeFiles(x.files, Only(q[i][1], f[q[i][1]]))]
             /\ upsert_file(x, q[i][1], q[i][2]) \in Builders
  <2> DEFINE s == q[i][1]
             o == Only(s, f[s])
             y == MergeFiles(x.files, o)
  <2>1. s \in DOMAIN f /\ q[i][2] = f[s]
    BY <1>0
  <2>2. s \in Int /\ f[s] \in Int /\ o \in Maps(Int) /\ x.files \in Maps(Int)
    BY <1>2, <1>3, <2>1 DEF Builders
  <2>3. upsert_file(x, q[i][1], q[i][2]) = [x EXCEPT !.files = y]
    <3> DEFINE e == f[s]
    <3>1. s \in Int /\ e \in Int /\ q[i][2] = e
      BY <2>1, <2>2
    <3> HIDE DEF s, e
    <3>2. upsert_file(x, s, e) = [x EXCEPT !.files = MergeFiles(x.files, Only(s, e))]
      BY FileOne
    <3> QED BY <3>1, <3>2 DEF s, e
  <2> HIDE DEF o
  <2>4. y \in Maps(Int)
    BY <2>2, FileMerge, FiniteParts
  <2> HIDE DEF y
  <2>5. [x EXCEPT !.files = y] \in Builders
    BY <2>4 DEF Builders
  <2> QED BY <2>3, <2>5 DEF y, o
<1>5. FileReplaySteps(n, q, Builders, b)
  BY <1>0, <1>4 DEF FileReplaySteps
<1>6. PICK h : FileReplayStages(h, n, q, Builders, b)
  BY <1>5, FileReplayFold
<1> DEFINE S == {k \in 0..n : h[k] = [b EXCEPT !.files = MergeFiles(b.files, g(k))]}
<1>7. 0 \in S
  <2>1. 1..0 = {}
    OBVIOUS
  <2>2. DOMAIN g(0) = {}
    BY <2>1
  <2>3. MergeFiles(b.files, g(0)) = [s \in DOMAIN b.files |-> b.files[s]]
    BY <2>2 DEF MergeFiles
  <2>4. MergeFiles(b.files, g(0)) = b.files
    BY <1>1, <2>3, FiniteParts DEF IsMap
  <2> HIDE DEF g
  <2>5. h[0] = b /\ b = [b EXCEPT !.files = b.files]
    BY <1>6 DEF FileReplayStages, Builders
  <2> QED BY <1>0, <2>4, <2>5
<1>8. ASSUME NEW k \in 1..n, k - 1 \in S PROVE k \in S
  <2> DEFINE s == q[k][1]
             o == Only(s, f[s])
             e == b.files
             x == [b EXCEPT !.files = MergeFiles(e, g(k - 1))]
             u == MergeFiles(MergeFiles(e, g(k - 1)), o)
             v == MergeFiles(e, g(k))
  <2>1. h[k - 1] = x /\ k \in 0..n
    BY <1>0, <1>8
  <2>2. h[k - 1] \in Builders
    BY <1>6 DEF FileReplayStages
  <2>3. h[k] = [x EXCEPT !.files = MergeFiles(x.files, o)]
    <3> HIDE DEF x, g
    <3>1. h[k] = upsert_file(h[k - 1], q[k][1], q[k][2])
      BY <1>6 DEF FileReplayStages
    <3> QED BY <1>4, <2>1, <2>2, <3>1
  <2>4. x.files = MergeFiles(e, g(k - 1))
    <3> DEFINE w == MergeFiles(e, g(k - 1))
    <3> HIDE DEF w
    <3>1. [b EXCEPT !.files = w].files = w
      BY DEF Builders
    <3> QED BY <3>1 DEF w
  <2>5. h[k] = [b EXCEPT !.files = u]
    <3> DEFINE w == MergeFiles(e, g(k - 1))
    <3> HIDE DEF w
    <3>1. \A z : [[b EXCEPT !.files = w] EXCEPT !.files = z] = [b EXCEPT !.files = z]
      BY DEF Builders
    <3> QED BY <2>3, <2>4, <3>1 DEF w
  <2>6. u = v
    <3>1. DOMAIN g(k) = DOMAIN g(k - 1) \cup {s} /\ s \notin DOMAIN g(k - 1)
      <4>1. DOMAIN g(k) = {q[i][1] : i \in 1..k} /\ DOMAIN g(k - 1) = {q[i][1] : i \in 1..(k - 1)}
        OBVIOUS
      <4>2. \A i : i \in 1..k <=> i \in 1..(k - 1) \/ i = k
        BY <1>0
      <4>3. \A i \in 1..(k - 1) : q[i][1] # q[k][1]
        BY <1>0
      <4> HIDE DEF g
      <4> QED BY <4>1, <4>2, <4>3
    <3>2. (\A t \in DOMAIN g(k) : g(k)[t] = f[t]) /\ \A t \in DOMAIN g(k - 1) : g(k - 1)[t] = f[t]
      OBVIOUS
    <3>3. DOMAIN o = {s} /\ o[s] = f[s]
      BY DEF Only
    <3> HIDE DEF g, o, s, e
    <3>4. DOMAIN u = DOMAIN e \cup DOMAIN g(k) /\ DOMAIN v = DOMAIN e \cup DOMAIN g(k)
      BY <3>1, <3>3 DEF MergeFiles
    <3>5. \A t \in DOMAIN e \cup DOMAIN g(k) : u[t] = v[t]
      BY <3>1, <3>2, <3>3 DEF MergeFiles
    <3>6. u = [t \in DOMAIN u |-> u[t]] /\ v = [t \in DOMAIN v |-> v[t]]
      BY DEF MergeFiles
    <3> HIDE DEF u, v
    <3> QED BY <3>4, <3>5, <3>6
  <2> QED BY <2>1, <2>5, <2>6
<1>9. \A k \in 0..n : k \in S
  <2> HIDE DEF S
  <2> QED BY <1>0, <1>7, <1>8, UpTo
<1>10. g(n) = f
  <2>1. \A s : s \in {q[i][1] : i \in 1..n} <=> s \in DOMAIN f
    <3>1. \A i \in 1..n : q[i][1] \in DOMAIN f
      BY <1>0
    <3>2. \A s \in DOMAIN f : \E i \in 1..n : q[i][1] = s
      BY <1>0
    <3> QED BY <3>1, <3>2
  <2>2. {q[i][1] : i \in 1..n} = DOMAIN f
    BY <2>1
  <2>3. f = [s \in DOMAIN f |-> f[s]]
    BY <1>1 DEF IsMap
  <2> QED BY <2>2, <2>3
<1> HIDE DEF g
<1>11. h[n] = [b EXCEPT !.files = MergeFiles(b.files, f)]
  BY <1>0, <1>9, <1>10
<1>12. FoldLeft(LAMBDA acc, r : upsert_file(acc, r[1], r[2]), b, q) = h[n]
  BY <1>6 DEF FileReplayStages
<1> QED BY <1>11, <1>12 DEF q

\* Replaying a file is merging what the file keeps of its builder.
THEOREM ReplayIsMerge ==
    ASSUME NEW b \in Builders, NEW x \in Builders
    PROVE  populate_from_index(b, finish(x)) = merge_from(b, Norm(x))
<1> DEFINE ix == finish(x)
           s1 == FoldLeft(LAMBDA acc, r : upsert_sym(acc, r[1], Tail(r)), b, ix.syms)
           s2 == FoldLeft(LAMBDA acc, r : upsert_file(acc, r[1], r[2]), s1, ix.files)
           y == MergeSyms(b.syms, x.syms)
           z == MergeFiles(b.files, x.files)
<1>1. /\ x.xrefs \in Fin(Tuple(4)) /\ x.inherits \in Fin(Tuple(2)) /\ x.calls \in Fin(Tuple(3))
      /\ x.childof \in Fin(Tuple(2)) /\ x.aliases \in Fin(StrRec) /\ x.typed \in Fin(StrRec)
      /\ x.sig \in Fin(StrRec) /\ x.syms \in Maps(SymRow) /\ x.files \in Maps(Int)
      /\ b.syms \in Maps(SymRow) /\ b.files \in Maps(Int)
  BY DEF Builders
<1>2. /\ ix.syms = SymRows(x.syms) /\ ix.files = FileRows(x.files)
      /\ ix.names = NameRows(SymRows(x.syms), x.aliases)
      /\ ix.xrefs = Sorted(x.xrefs) /\ ix.inh = Sorted(x.inherits) /\ ix.calls = Sorted(x.calls)
      /\ ix.childrev = Sorted(x.childof) /\ ix.typed = OnePerSym(x.typed) /\ ix.sig = OnePerSym(x.sig)
  BY DEF finish
<1>3. /\ ToSet(ix.xrefs) = x.xrefs /\ ToSet(ix.inh) = x.inherits /\ ToSet(ix.calls) = x.calls
      /\ ToSet(ix.childrev) = x.childof
  BY <1>1, <1>2, SortedSet
<1>4. ToSet(ix.typed) = Least(x.typed) /\ ToSet(ix.sig) = Least(x.sig)
  BY <1>1, <1>2, TableSet
<1>5. iter_aliases(ix) = Shown(x.syms, x.aliases)
  BY <1>1, <1>2, NameTable
<1> HIDE DEF ix
<1>6. s1 = [b EXCEPT !.syms = y]
  BY <1>1, <1>2, SymReplayed
<1>7. y \in Maps(SymRow)
  BY <1>1, SymMerge, FiniteParts
<1> HIDE DEF s1, y
<1>8. s1 \in Builders /\ s1.files = b.files
  BY <1>6, <1>7 DEF Builders
<1>9. s2 = [s1 EXCEPT !.files = z]
  <2>1. x.files \in Maps(Int) /\ s1 \in Builders
    BY <1>1, <1>8
  <2>2. FoldLeft(LAMBDA acc, r : upsert_file(acc, r[1], r[2]), s1, FileRows(x.files))
            = [s1 EXCEPT !.files = MergeFiles(s1.files, x.files)]
    BY <2>1, FileReplayed
  <2> QED BY <1>2, <1>8, <2>2
<1> HIDE DEF s2, z
<1>10. s2.syms = y /\ s2.files = z
  BY <1>6, <1>8, <1>9 DEF Builders
<1>11. populate_from_index(b, ix) =
          [xrefs |-> b.xrefs \cup ToSet(ix.xrefs), inherits |-> b.inherits \cup ToSet(ix.inh),
           calls |-> b.calls \cup ToSet(ix.calls), childof |-> b.childof \cup ToSet(ix.childrev),
           aliases |-> b.aliases \cup iter_aliases(ix), typed |-> b.typed \cup ToSet(ix.typed),
           sig |-> b.sig \cup ToSet(ix.sig), syms |-> s2.syms, files |-> s2.files]
  BY Zenon DEF populate_from_index, s1, s2
<1>12. populate_from_index(b, ix) =
          [xrefs |-> b.xrefs \cup x.xrefs, inherits |-> b.inherits \cup x.inherits,
           calls |-> b.calls \cup x.calls, childof |-> b.childof \cup x.childof,
           aliases |-> b.aliases \cup Shown(x.syms, x.aliases), typed |-> b.typed \cup Least(x.typed),
           sig |-> b.sig \cup Least(x.sig), syms |-> y, files |-> z]
  BY <1>3, <1>4, <1>5, <1>10, <1>11
<1> QED BY <1>12 DEF ix, y, z, merge_from, Norm

\* The replay of several files joins them.
LEMMA ReplayChain ==
    ASSUME NEW src, NEW n, NEW x, NEW J, Chain(src, n, x, J)
    PROVE  FoldLeft(populate_from_index, NewBuilder, src) = J[n]
<1>1. n \in Nat /\ DOMAIN src = 1..n /\ J[0] = NewBuilder /\ NewBuilder \in Builders
  BY Joins DEF Chain
<1>2. ASSUME NEW b \in Builders, NEW i \in 1..n
      PROVE  /\ populate_from_index(b, src[i]) = merge_from(b, Norm(x[i]))
             /\ populate_from_index(b, src[i]) \in Builders
  <2>1. x[i] \in Builders /\ src[i] = finish(x[i])
    BY DEF Chain
  <2> DEFINE c == Norm(x[i])
  <2>2. populate_from_index(b, src[i]) = merge_from(b, c)
    BY <2>1, ReplayIsMerge
  <2>3. c \in Builders
    BY <2>1, Normal
  <2> HIDE DEF c
  <2>4. merge_from(b, c) \in Builders
    BY <2>3, Joins
  <2> QED BY <2>2, <2>4 DEF c
<1>3. ReplaySteps(n, src, Builders, NewBuilder)
  BY <1>1, <1>2 DEF ReplaySteps
<1>4. PICK h : ReplayStages(h, n, src, Builders, NewBuilder)
  BY <1>3, ReplayFold
<1> DEFINE S == {k \in 0..n : h[k] = J[k]}
<1>5. 0 \in S
  <2>1. h[0] = NewBuilder /\ 0 \in 0..n
    BY <1>1, <1>4 DEF ReplayStages
  <2> QED BY <1>1, <2>1
<1>6. ASSUME NEW k \in 1..n, k - 1 \in S PROVE k \in S
  <2>1. h[k - 1] = J[k - 1] /\ k \in 0..n
    BY <1>1, <1>6
  <2>2. h[k - 1] \in Builders /\ h[k] = populate_from_index(h[k - 1], src[k])
    BY <1>4 DEF ReplayStages
  <2>3. h[k] = merge_from(J[k - 1], Norm(x[k]))
    BY <1>2, <2>1, <2>2
  <2>4. J[k] = merge_from(J[k - 1], Norm(x[k]))
    BY DEF Chain
  <2> QED BY <2>1, <2>3, <2>4
<1>7. \A k \in 0..n : k \in S
  <2> HIDE DEF S
  <2> QED BY <1>1, <1>5, <1>6, UpTo
<1>8. h[n] = J[n]
  BY <1>1, <1>7
<1> QED BY <1>4, <1>8 DEF ReplayStages

\* The two ways to coalesce a group of shards, replay and merge, write the
\* same file.
THEOREM CoalesceAgrees ==
    ASSUME NEW src, NEW n, NEW x, NEW J, Chain(src, n, x, J)
    PROVE  /\ coalesce_shards(src) = finish(J[n])
           /\ merge_group_global(src) = finish(J[n])
<1>1. n \in Nat /\ J[n] \in Builders /\ NewBuilder \in Builders
  BY Joins DEF Chain
<1>2. merge_group_global(src) = finish(J[n])
  <2>1. write_merged_snapshot(NewBuilder, src) = finish(merge_from(J[n], NewBuilder))
    BY <1>1, KWayMerge
  <2> QED BY <1>1, <2>1, Joins DEF merge_group_global
<1>3. FoldLeft(populate_from_index, NewBuilder, src) = J[n]
  BY ReplayChain
<1>4. \A b \in Builders : write_merged_snapshot(b, <<>>) = finish(b)
  <2> SUFFICES ASSUME NEW b \in Builders PROVE write_merged_snapshot(b, <<>>) = finish(b)
    OBVIOUS
  <2>1. DOMAIN <<>> = 1..0 /\ <<>> \in [1..0 -> Builders] /\ 0 \in Nat
    OBVIOUS
  <2>2. \A i \in 1..0 : <<>>[i] = finish(<<>>[i])
    OBVIOUS
  <2>3. PICK K : Chain(<<>>, 0, <<>>, K)
    BY <2>1, <2>2, ChainExists
  <2>4. K[0] = NewBuilder
    BY <2>3 DEF Chain
  <2>5. write_merged_snapshot(b, <<>>) = finish(merge_from(K[0], b))
    BY <2>3, KWayMerge
  <2> QED BY <2>4, <2>5, Joins
<1>5. coalesce_shards(src) = write_merged_snapshot(J[n], <<>>)
  BY <1>3 DEF coalesce_shards
<1> QED BY <1>1, <1>2, <1>4, <1>5
-----------------------------------------------------------------------------
(* The order of the sections.                                              *)

\* A table sorted by whole rows, or by a key of one column, ascends strictly
\* by it.
LEMMA SortedReady ==
    /\ \A k \in Nat : \A A \in Fin(Tuple(k)) : StrictlyAscending(Sorted(A), k)
    /\ \A k \in Nat \ {0} : \A A \in Fin(Tuple(k)) : Keyed(A) => StrictlyAscending(Sorted(A), 1)
<1>1. ASSUME NEW k \in Nat, NEW A \in Fin(Tuple(k))
      PROVE  StrictlyAscending(Sorted(A), k)
  <2> DEFINE s == Sorted(A)
  <2>1. Ascending(s, k)
    BY <1>1, SortedSet
  <2> HIDE DEF s
  <2>2. s \in Seq(Tuple(k)) /\ Len(s) \in Nat /\ \A i \in 1..Len(s) : s[i] \in Tuple(k)
    BY <2>1 DEF Ascending
  <2>3. \A r \in Tuple(k) : SubSeq(r, 1, k) = r
    BY DEF Tuple
  <2>4. ASSUME NEW i \in 1..(Len(s) - 1)
        PROVE  LexLess(SubSeq(s[i], 1, k), SubSeq(s[i + 1], 1, k))
    <3>1. i \in 1..Len(s) /\ i + 1 \in 1..Len(s) /\ i < i + 1
      BY <2>2
    <3>2. LexLess(s[i], s[i + 1])
      BY <2>1, <3>1 DEF Ascending
    <3> QED BY <2>2, <2>3, <3>1, <3>2
  <2> QED BY <2>4 DEF StrictlyAscending, s
<1>2. ASSUME NEW k \in Nat \ {0}, NEW A \in Fin(Tuple(k)), Keyed(A)
      PROVE  StrictlyAscending(Sorted(A), 1)
  <2> DEFINE s == Sorted(A)
             R == Tuple(k)
  <2>1. s \in Seq(R) /\ Up(s, ByFirst(R))
    <3>1. k \in Nat /\ k >= 1 /\ R \in SUBSET Tuple(k) /\ A \in SUBSET R /\ IsFiniteSet(A)
      BY DEF Fin
    <3> QED BY <1>2, <3>1, KeyedSorted
  <2> HIDE DEF s
  <2>2. ASSUME NEW i \in 1..(Len(s) - 1)
        PROVE  LexLess(SubSeq(s[i], 1, 1), SubSeq(s[i + 1], 1, 1))
    <3>1. i \in 1..Len(s) /\ i + 1 \in 1..Len(s) /\ i < i + 1
      BY <2>1
    <3>2. s[i][1] < s[i + 1][1]
      BY <2>1, <3>1 DEF Up, ByFirst
    <3>3. s[i] \in Tuple(k) /\ s[i + 1] \in Tuple(k)
      BY <2>1, <3>1
    <3>4. ASSUME NEW r \in Tuple(k)
          PROVE  DOMAIN SubSeq(r, 1, 1) = 1..1 /\ SubSeq(r, 1, 1)[1] = r[1]
      <4>1. r \in Seq(Int) /\ Len(r) = k
        BY DEF Tuple
      <4> QED BY <4>1
    <3> DEFINE a == SubSeq(s[i], 1, 1)
               b == SubSeq(s[i + 1], 1, 1)
    <3>5. DOMAIN a = 1..1 /\ a[1] < b[1]
      BY <3>2, <3>3, <3>4
    <3> HIDE DEF a, b
    <3>6. LexLess(a, b)
      BY <3>5 DEF LexLess
    <3> QED BY <3>6 DEF a, b
  <2> QED BY <2>2 DEF StrictlyAscending, s
<1> QED BY <1>1, <1>2

\* The rows of a table with their first two columns exchanged are a table.
LEMMA FlipTable ==
    ASSUME NEW k \in Nat, k >= 2, NEW A \in Fin(Tuple(k)), NEW B, B = {Flip(r) : r \in A}
    PROVE  B \in Fin(Tuple(k))
<1>1. \A r \in Tuple(k) : Flip(r) \in Tuple(k)
  BY DEF Flip, Tuple
<1>2. B \in SUBSET Tuple(k)
  BY <1>1 DEF Fin
<1> DEFINE f == [r \in A |-> Flip(r)]
<1>3. f \in Surjection(A, B)
  BY DEF Surjection
<1>4. IsFiniteSet(B)
  <2> HIDE DEF f
  <2> QED BY <1>3, FS_Surjection DEF Fin
<1> QED BY <1>2, <1>4 DEF Fin

\* What SearchReady asks of one file.
Ready(ix) ==
    /\ \A t \in {"syms", "files", "typed", "sig"} : StrictlyAscending(ix[t], 1)
    /\ \A t \in {"inh", "inhrev", "childrev"} : StrictlyAscending(ix[t], 2)
    /\ \A t \in {"names", "calls", "crev"} : StrictlyAscending(ix[t], 3)
    /\ StrictlyAscending(ix.xrefs, 4)
    /\ {Flip(r) : r \in ToSet(ix.inh)} = ToSet(ix.inhrev)
    /\ {Flip(r) : r \in ToSet(ix.calls)} = ToSet(ix.crev)

\* The file of a builder is ready to be searched.
LEMMA FinishReady ==
    ASSUME NEW x \in Builders
    PROVE  Ready(finish(x))
<1>1. /\ x.xrefs \in Fin(Tuple(4)) /\ x.inherits \in Fin(Tuple(2)) /\ x.calls \in Fin(Tuple(3))
      /\ x.childof \in Fin(Tuple(2)) /\ x.aliases \in Fin(StrRec) /\ x.typed \in Fin(StrRec)
      /\ x.sig \in Fin(StrRec) /\ x.syms \in Maps(SymRow) /\ x.files \in Maps(Int)
  BY DEF Builders
<1> DEFINE ix == finish(x)
           A == {Flip(r) : r \in ToSet(ix.inh)}
           B == {Flip(r) : r \in ToSet(ix.calls)}
<1>2. /\ ix.syms = SymRows(x.syms) /\ ix.files = FileRows(x.files)
      /\ ix.names = NameRows(SymRows(x.syms), x.aliases)
      /\ ix.xrefs = Sorted(x.xrefs) /\ ix.inh = Sorted(x.inherits) /\ ix.calls = Sorted(x.calls)
      /\ ix.childrev = Sorted(x.childof) /\ ix.typed = OnePerSym(x.typed) /\ ix.sig = OnePerSym(x.sig)
  BY DEF finish
<1>3. ix.inhrev = Sorted(A) /\ ix.crev = Sorted(B)
  BY DEF finish, Reversed
<1>4. ToSet(ix.inh) = x.inherits /\ ToSet(ix.calls) = x.calls
  BY <1>1, <1>2, SortedSet
<1> HIDE DEF ix
<1>5. A \in Fin(Tuple(2))
  <2>1. A = {Flip(r) : r \in x.inherits}
    BY <1>4
  <2> HIDE DEF A
  <2> QED BY <1>1, <2>1, FlipTable
<1>6. B \in Fin(Tuple(3))
  <2>1. B = {Flip(r) : r \in x.calls}
    BY <1>4
  <2> HIDE DEF B
  <2> QED BY <1>1, <2>1, FlipTable
<1> HIDE DEF A, B
<1>7. ToSet(ix.inhrev) = A /\ ToSet(ix.crev) = B
  BY <1>3, <1>5, <1>6, SortedSet
<1>8. /\ StrictlyAscending(ix.inh, 2) /\ StrictlyAscending(ix.inhrev, 2)
      /\ StrictlyAscending(ix.childrev, 2) /\ StrictlyAscending(ix.calls, 3)
      /\ StrictlyAscending(ix.crev, 3) /\ StrictlyAscending(ix.xrefs, 4)
  BY <1>1, <1>2, <1>3, <1>5, <1>6, SortedReady
<1>9. StrictlyAscending(ix.names, 3)
  BY <1>1, <1>2, NameTable, SortedReady
<1>10. StrictlyAscending(ix.syms, 1) /\ StrictlyAscending(ix.files, 1)
  BY <1>1, <1>2, TableSet, SortedReady
<1>11. StrictlyAscending(ix.typed, 1) /\ StrictlyAscending(ix.sig, 1)
  BY <1>1, <1>2, TableSet, SortedReady
<1>12. A = {Flip(r) : r \in ToSet(ix.inh)} /\ B = {Flip(r) : r \in ToSet(ix.calls)}
  BY DEF A, B
<1>13. Ready(ix)
  BY <1>7, <1>8, <1>9, <1>10, <1>11, <1>12 DEF Ready
<1> QED BY <1>13 DEF ix
-----------------------------------------------------------------------------
(* The builder of a unit.                                                  *)

RowsOf(F, t)  == {f[2] : f \in {x \in F : x[1] = t}}
StrsOf(F, t)  == {<<f[2], f[3]>> : f \in {x \in F : x[1] = t /\ x[3] # NoName}}
FilesOf(F)    == {<<f[2], f[3]>> : f \in {x \in F : x[1] = "file"}}
SymbolsOf(F)  == {f[2] : f \in {x \in F : \/ x[1] \in {"sym", "field"}
                                          \/ x[1] = "name" /\ x[3] # NoName}}
FlippedOf(F)  == {Flip(r) : r \in RowsOf(F, "childof")}

\* The facts, one kind after the other.
LEMMA FactCases ==
    ASSUME NEW f \in Fact
    PROVE  \/ f[1] = "sym" /\ f[2] \in Int /\ f[3] \in SymRow
           \/ f[1] = "name" /\ f[2] \in Int /\ f[3] \in Strings
           \/ f[1] = "aliases" /\ f[2] \in Int /\ f[3] \in Strings
           \/ f[1] = "typed" /\ f[2] \in Int /\ f[3] \in Strings
           \/ f[1] = "sig" /\ f[2] \in Int /\ f[3] \in Strings
           \/ f[1] = "field" /\ f[2] \in Int /\ f = <<"field", f[2]>>
           \/ f[1] = "file" /\ f[2] \in Int /\ f[3] \in Int
           \/ f[1] = "xrefs" /\ f[2] \in Tuple(4)
           \/ f[1] = "calls" /\ f[2] \in Tuple(3)
           \/ f[1] = "inherits" /\ f[2] \in Tuple(2)
           \/ f[1] = "childof" /\ f[2] \in Tuple(2)
<1>1. CASE f \in {"sym"} \X Int \X (Int \X Int \X Strings)
  BY <1>1 DEF SymRow
<1>2. CASE f \in {"name", "aliases", "typed", "sig"} \X Int \X Strings
  BY <1>2
<1>3. CASE f \in {"field"} \X Int
  BY <1>3
<1>4. CASE f \in {"file"} \X Int \X Int
  BY <1>4
<1>5. CASE f \in {"xrefs"} \X Tuple(4)
  BY <1>5
<1>6. CASE f \in {"calls"} \X Tuple(3)
  BY <1>6
<1>7. CASE f \in {"inherits", "childof"} \X Tuple(2)
  BY <1>7
<1> QED BY <1>1, <1>2, <1>3, <1>4, <1>5, <1>6, <1>7 DEF Fact

\* What one fact is about.
LEMMA OfOne ==
    ASSUME NEW f
    PROVE  /\ \A t : RowsOf({f}, t) = IF f[1] = t THEN {f[2]} ELSE {}
           /\ \A t : StrsOf({f}, t) = IF f[1] = t /\ f[3] # NoName THEN {<<f[2], f[3]>>} ELSE {}
           /\ FilesOf({f}) = IF f[1] = "file" THEN {<<f[2], f[3]>>} ELSE {}
           /\ SymbolsOf({f}) = IF \/ f[1] \in {"sym", "field"}
                                  \/ f[1] = "name" /\ f[3] # NoName THEN {f[2]} ELSE {}
           /\ FlippedOf({f}) = IF f[1] = "childof" THEN {Flip(f[2])} ELSE {}
<1>1. \A t : RowsOf({f}, t) = IF f[1] = t THEN {f[2]} ELSE {}
  BY DEF RowsOf
<1>2. \A t : StrsOf({f}, t) = IF f[1] = t /\ f[3] # NoName THEN {<<f[2], f[3]>>} ELSE {}
  BY DEF StrsOf
<1>3. FilesOf({f}) = IF f[1] = "file" THEN {<<f[2], f[3]>>} ELSE {}
  BY DEF FilesOf
<1>4. SymbolsOf({f}) = IF \/ f[1] \in {"sym", "field"}
                          \/ f[1] = "name" /\ f[3] # NoName THEN {f[2]} ELSE {}
  <2> DEFINE P(x) == \/ x[1] \in {"sym", "field"}
                     \/ x[1] = "name" /\ x[3] # NoName
  <2>1. SymbolsOf({f}) = {x[2] : x \in {y \in {f} : P(y)}}
    BY DEF SymbolsOf
  <2> HIDE DEF P
  <2>2. SymbolsOf({f}) = IF P(f) THEN {f[2]} ELSE {}
    BY <2>1
  <2> QED BY <2>2 DEF P
<1>5. FlippedOf({f}) = IF f[1] = "childof" THEN {Flip(f[2])} ELSE {}
  BY <1>1 DEF FlippedOf
<1> QED BY <1>1, <1>2, <1>3, <1>4, <1>5

\* The builder that holds one fact.
OneSym(f) ==
    IF f[1] = "sym" THEN Only(f[2], f[3])
    ELSE IF f[1] = "name" /\ f[3] # NoName THEN Only(f[2], <<UNK, UNK, f[3]>>)
    ELSE IF f[1] = "field" THEN Only(f[2], <<KindField, UNK, NoName>>) ELSE <<>>
OneFile(f) == IF f[1] = "file" THEN Only(f[2], f[3]) ELSE <<>>
Of(f) ==
    [xrefs |-> RowsOf({f}, "xrefs"), inherits |-> RowsOf({f}, "inherits"),
     calls |-> RowsOf({f}, "calls"), childof |-> FlippedOf({f}),
     aliases |-> StrsOf({f}, "aliases"), typed |-> StrsOf({f}, "typed"),
     sig |-> StrsOf({f}, "sig"), syms |-> OneSym(f), files |-> OneFile(f)]

\* A set of one element and a map of one entry are finite.
LEMMA Singles ==
    /\ \A R : \A r \in R : {r} \in Fin(R)
    /\ \A V : \A s \in Int, e \in V : Only(s, e) \in Maps(V) /\ DOMAIN Only(s, e) = {s} /\ Only(s, e)[s] = e
<1>1. \A R : \A r \in R : {r} \in Fin(R)
  BY FS_Singleton DEF Fin
<1>2. ASSUME NEW V, NEW s \in Int, NEW e \in V
      PROVE  Only(s, e) \in Maps(V) /\ DOMAIN Only(s, e) = {s} /\ Only(s, e)[s] = e
  <2>1. {s} \in Fin(Int) /\ Only(s, e) \in [{s} -> V]
    BY <1>1 DEF Only
  <2>2. DOMAIN Only(s, e) = {s} /\ Only(s, e)[s] = e
    BY DEF Only
  <2> QED BY <2>1, <2>2 DEF Maps
<1> QED BY <1>1, <1>2

\* It is a builder.
LEMMA OfIsBuilder ==
    ASSUME NEW f \in Fact
    PROVE  Of(f) \in Builders
<1>1. UNK \in Int /\ KindField \in Int /\ NoName \in Strings
  BY NameAssumption DEF UNK, KindField
<1>2. \A r \in Tuple(2) : Flip(r) \in Tuple(2)
  BY DEF Flip, Tuple
<1>3. RowsOf({f}, "xrefs") \in Fin(Tuple(4))
  <2>1. CASE f[1] = "xrefs"
    <3>1. f[2] \in Tuple(4)
      BY <2>1, FactCases
    <3>2. {f[2]} \in Fin(Tuple(4))
      BY <3>1, Singles
    <3> QED BY <2>1, <3>2, OfOne
  <2>2. CASE f[1] # "xrefs"
    BY <2>2, OfOne, FiniteParts
  <2> QED BY <2>1, <2>2
<1>4. RowsOf({f}, "inherits") \in Fin(Tuple(2))
  <2>1. CASE f[1] = "inherits"
    <3>1. f[2] \in Tuple(2)
      BY <2>1, FactCases
    <3>2. {f[2]} \in Fin(Tuple(2))
      BY <3>1, Singles
    <3> QED BY <2>1, <3>2, OfOne
  <2>2. CASE f[1] # "inherits"
    BY <2>2, OfOne, FiniteParts
  <2> QED BY <2>1, <2>2
<1>5. RowsOf({f}, "calls") \in Fin(Tuple(3))
  <2>1. CASE f[1] = "calls"
    <3>1. f[2] \in Tuple(3)
      BY <2>1, FactCases
    <3>2. {f[2]} \in Fin(Tuple(3))
      BY <3>1, Singles
    <3> QED BY <2>1, <3>2, OfOne
  <2>2. CASE f[1] # "calls"
    BY <2>2, OfOne, FiniteParts
  <2> QED BY <2>1, <2>2
<1>6. FlippedOf({f}) \in Fin(Tuple(2))
  <2>1. CASE f[1] = "childof"
    <3>1. Flip(f[2]) \in Tuple(2)
      BY <1>2, <2>1, FactCases
    <3>2. {Flip(f[2])} \in Fin(Tuple(2))
      BY <3>1, Singles
    <3> QED BY <2>1, <3>2, OfOne
  <2>2. CASE f[1] # "childof"
    BY <2>2, OfOne, FiniteParts
  <2> QED BY <2>1, <2>2
<1>7. ASSUME NEW t \in {"aliases", "typed", "sig"} PROVE StrsOf({f}, t) \in Fin(StrRec)
  <2>1. CASE f[1] = t /\ f[3] # NoName
    <3>1. f[2] \in Int /\ f[3] \in Strings \ {NoName}
      BY <2>1, FactCases
    <3>2. <<f[2], f[3]>> \in StrRec
      BY <3>1, Pairs
    <3>3. {<<f[2], f[3]>>} \in Fin(StrRec)
      BY <3>2, Singles
    <3> QED BY <2>1, <3>3, OfOne
  <2>2. CASE ~ (f[1] = t /\ f[3] # NoName)
    BY <2>2, OfOne, FiniteParts
  <2> QED BY <2>1, <2>2
<1>8. OneSym(f) \in Maps(SymRow)
  <2>1. CASE f[1] = "sym"
    BY <2>1, FactCases, Singles DEF OneSym
  <2>2. CASE f[1] = "name" /\ f[3] # NoName
    <3> DEFINE e == <<UNK, UNK, f[3]>>
    <3>1. f[2] \in Int /\ e \in SymRow
      BY <1>1, <2>2, FactCases DEF SymRow
    <3>2. OneSym(f) = Only(f[2], e)
      BY <2>2 DEF OneSym
    <3> HIDE DEF e
    <3>3. \A t \in Int, d \in SymRow : Only(t, d) \in Maps(SymRow)
      BY Singles
    <3> QED BY <3>1, <3>2, <3>3
  <2>3. CASE f[1] = "field"
    <3>1. f[2] \in Int /\ <<KindField, UNK, NoName>> \in SymRow
      BY <1>1, <2>3, FactCases DEF SymRow
    <3> QED BY <2>3, <3>1, Singles DEF OneSym
  <2>4. CASE f[1] # "sym" /\ ~ (f[1] = "name" /\ f[3] # NoName) /\ f[1] # "field"
    BY <2>4, FiniteParts DEF OneSym
  <2> QED BY <2>1, <2>2, <2>3, <2>4
<1>9. OneFile(f) \in Maps(Int)
  BY FactCases, Singles, FiniteParts DEF OneFile
<1> QED BY <1>3, <1>4, <1>5, <1>6, <1>7, <1>8, <1>9 DEF Of, Builders

\* Every fact but a field mark joins its builder to the unit's builder.
LEMMA ApplyJoins ==
    ASSUME NEW b \in Builders, NEW f \in Fact, f[1] # "field"
    PROVE  Apply(b, f) = merge_from(b, Of(f))
<1> DEFINE m == merge_from(b, Of(f))
<1>1. b = [xrefs |-> b.xrefs, inherits |-> b.inherits, calls |-> b.calls, childof |-> b.childof,
           aliases |-> b.aliases, typed |-> b.typed, sig |-> b.sig, syms |-> b.syms, files |-> b.files]
  BY DEF Builders
<1>2. m = [xrefs |-> b.xrefs \cup RowsOf({f}, "xrefs"), inherits |-> b.inherits \cup RowsOf({f}, "inherits"),
           calls |-> b.calls \cup RowsOf({f}, "calls"), childof |-> b.childof \cup FlippedOf({f}),
           aliases |-> b.aliases \cup StrsOf({f}, "aliases"), typed |-> b.typed \cup StrsOf({f}, "typed"),
           sig |-> b.sig \cup StrsOf({f}, "sig"), syms |-> MergeSyms(b.syms, OneSym(f)),
           files |-> MergeFiles(b.files, OneFile(f))]
  BY DEF merge_from, Of
<1> HIDE DEF m
<1>3. MergeSyms(b.syms, <<>>) = b.syms /\ MergeFiles(b.files, <<>>) = b.files
  <2>1. merge_from(b, NewBuilder) = b
    BY Joins
  <2>2. /\ merge_from(b, NewBuilder).syms = MergeSyms(b.syms, <<>>)
        /\ merge_from(b, NewBuilder).files = MergeFiles(b.files, <<>>)
    BY DEF merge_from, NewBuilder
  <2> QED BY <2>1, <2>2
<1>4. f[1] = "sym" \/ f[1] = "name" \/ f[1] = "file" \/ f[1] = "aliases" \/ f[1] = "typed"
        \/ f[1] = "sig" \/ f[1] = "xrefs" \/ f[1] = "calls" \/ f[1] = "inherits" \/ f[1] = "childof"
  BY FactCases
<1>5. CASE f[1] = "sym"
  <2>1. Apply(b, f) = [b EXCEPT !.syms = MergeSyms(b.syms, Only(f[2], f[3]))]
    BY <1>5, SymOne DEF Apply
  <2>2. OneSym(f) = Only(f[2], f[3]) /\ OneFile(f) = <<>>
    BY <1>5 DEF OneSym, OneFile
  <2> DEFINE y == MergeSyms(b.syms, Only(f[2], f[3]))
  <2>3. m = [xrefs |-> b.xrefs, inherits |-> b.inherits, calls |-> b.calls, childof |-> b.childof,
             aliases |-> b.aliases, typed |-> b.typed, sig |-> b.sig, syms |-> y, files |-> b.files]
    BY <1>2, <1>3, <1>5, <2>2, OfOne
  <2> HIDE DEF y
  <2>4. [b EXCEPT !.syms = y] = m
    BY <1>1, <2>3
  <2> QED BY <2>1, <2>4 DEF m, y
<1>6. CASE f[1] = "name"
  <2>1. Apply(b, f) = set_sym_name(b, f[2], f[3])
    BY <1>6 DEF Apply
  <2>2. OneFile(f) = <<>>
    BY <1>6 DEF OneFile
  <2>3. CASE f[3] = NoName
    <3>1. OneSym(f) = <<>>
      BY <1>6, <2>3 DEF OneSym
    <3>2. m = b
      BY <1>1, <1>2, <1>3, <1>6, <2>2, <3>1, OfOne
    <3> QED BY <2>1, <2>3, <3>2 DEF set_sym_name, m
  <2>4. CASE f[3] # NoName
    <3> DEFINE e == <<UNK, UNK, f[3]>>
               g == Entry(b.syms, f[2], LAMBDA r : [r EXCEPT ![3] = BetterName(@, f[3])], e)
               y == MergeSyms(b.syms, Only(f[2], e))
    <3>1. Apply(b, f) = [b EXCEPT !.syms = g]
      BY <2>1, <2>4, Zenon DEF set_sym_name
    <3>2. OneSym(f) = Only(f[2], e)
      BY <1>6, <2>4 DEF OneSym
    <3>3. g = y
      <4>1. \A r \in SymRow : Refine(r, e) = [r EXCEPT ![3] = BetterName(@, f[3])]
        <5> SUFFICES ASSUME NEW r \in SymRow PROVE Refine(r, e) = [r EXCEPT ![3] = BetterName(@, f[3])]
          OBVIOUS
        <5>1. r = <<r[1], r[2], r[3]>>
          BY SymRecs
        <5>2. Known(r[1], UNK) = r[1] /\ Known(r[2], UNK) = r[2]
          BY DEF Known
        <5>3. Refine(r, e) = <<Known(r[1], UNK), Known(r[2], UNK), BetterName(r[3], f[3])>>
          BY DEF Refine
        <5>4. \A k, l, n, c : [<<k, l, n>> EXCEPT ![3] = c] = <<k, l, c>>
          OBVIOUS
        <5> DEFINE k == r[1]
                   l == r[2]
                   n == r[3]
        <5>5. Refine(r, e) = <<k, l, BetterName(n, f[3])>>
          BY <5>2, <5>3
        <5>6. [r EXCEPT ![3] = BetterName(@, f[3])] = [<<k, l, n>> EXCEPT ![3] = BetterName(n, f[3])]
          BY <5>1
        <5> HIDE DEF k, l, n
        <5> QED BY <5>4, <5>5, <5>6
      <4>2. \A s \in DOMAIN b.syms : b.syms[s] \in SymRow
        BY FiniteParts DEF Builders, IsMap
      <4>3. DOMAIN Only(f[2], e) = {f[2]} /\ Only(f[2], e)[f[2]] = e
        BY DEF Only
      <4> HIDE DEF e
      <4>4. DOMAIN g = DOMAIN b.syms \cup {f[2]} /\ DOMAIN y = DOMAIN b.syms \cup {f[2]}
        BY <4>3 DEF Entry, MergeSyms
      <4>5. \A s \in DOMAIN b.syms \cup {f[2]} : g[s] = y[s]
        BY <4>1, <4>2, <4>3 DEF Entry, MergeSyms
      <4>6. g = [s \in DOMAIN g |-> g[s]] /\ y = [s \in DOMAIN y |-> y[s]]
        BY DEF Entry, MergeSyms
      <4> HIDE DEF g, y
      <4> QED BY <4>4, <4>5, <4>6
    <3>4. m = [xrefs |-> b.xrefs, inherits |-> b.inherits, calls |-> b.calls, childof |-> b.childof,
               aliases |-> b.aliases, typed |-> b.typed, sig |-> b.sig, syms |-> y, files |-> b.files]
      BY <1>2, <1>3, <1>6, <2>2, <3>2, OfOne
    <3> HIDE DEF y, g
    <3>5. [b EXCEPT !.syms = y] = m
      BY <1>1, <3>4
    <3> QED BY <3>1, <3>3, <3>5 DEF m
  <2> QED BY <2>3, <2>4
<1>7. CASE f[1] = "file"
  <2>1. Apply(b, f) = [b EXCEPT !.files = MergeFiles(b.files, Only(f[2], f[3]))]
    BY <1>7, FileOne DEF Apply
  <2>2. OneFile(f) = Only(f[2], f[3]) /\ OneSym(f) = <<>>
    BY <1>7 DEF OneSym, OneFile
  <2> DEFINE y == MergeFiles(b.files, Only(f[2], f[3]))
  <2>3. m = [xrefs |-> b.xrefs, inherits |-> b.inherits, calls |-> b.calls, childof |-> b.childof,
             aliases |-> b.aliases, typed |-> b.typed, sig |-> b.sig, syms |-> b.syms, files |-> y]
    BY <1>2, <1>3, <1>7, <2>2, OfOne
  <2> HIDE DEF y
  <2>4. [b EXCEPT !.files = y] = m
    BY <1>1, <2>3
  <2> QED BY <2>1, <2>4 DEF m, y
<1>8. CASE f[1] = "aliases"
  <2> DEFINE y == b.aliases \cup {<<f[2], f[3]>>}
  <2>1. Apply(b, f) = AddString(b, "aliases", f[2], f[3])
    BY <1>8 DEF Apply
  <2>2. OneFile(f) = <<>> /\ OneSym(f) = <<>>
    BY <1>8 DEF OneSym, OneFile
  <2>3. CASE f[3] = NoName
    <3>1. m = b
      BY <1>1, <1>2, <1>3, <1>8, <2>2, <2>3, OfOne
    <3> QED BY <2>1, <2>3, <3>1 DEF AddString, m
  <2>4. CASE f[3] # NoName
    <3>1. Apply(b, f) = [b EXCEPT !.aliases = y]
      BY <2>1, <2>4 DEF AddString
    <3>2. m = [xrefs |-> b.xrefs, inherits |-> b.inherits, calls |-> b.calls, childof |-> b.childof,
               aliases |-> y, typed |-> b.typed, sig |-> b.sig, syms |-> b.syms, files |-> b.files]
      BY <1>2, <1>3, <1>8, <2>2, <2>4, OfOne
    <3> HIDE DEF y
    <3>3. [b EXCEPT !.aliases = y] = m
      BY <1>1, <3>2
    <3> QED BY <3>1, <3>3 DEF m
  <2> QED BY <2>3, <2>4
<1>9. CASE f[1] = "typed"
  <2> DEFINE y == b.typed \cup {<<f[2], f[3]>>}
  <2>1. Apply(b, f) = AddString(b, "typed", f[2], f[3])
    BY <1>9 DEF Apply
  <2>2. OneFile(f) = <<>> /\ OneSym(f) = <<>>
    BY <1>9 DEF OneSym, OneFile
  <2>3. CASE f[3] = NoName
    <3>1. m = b
      BY <1>1, <1>2, <1>3, <1>9, <2>2, <2>3, OfOne
    <3> QED BY <2>1, <2>3, <3>1 DEF AddString, m
  <2>4. CASE f[3] # NoName
    <3>1. Apply(b, f) = [b EXCEPT !.typed = y]
      BY <2>1, <2>4 DEF AddString
    <3>2. m = [xrefs |-> b.xrefs, inherits |-> b.inherits, calls |-> b.calls, childof |-> b.childof,
               aliases |-> b.aliases, typed |-> y, sig |-> b.sig, syms |-> b.syms, files |-> b.files]
      BY <1>2, <1>3, <1>9, <2>2, <2>4, OfOne
    <3> HIDE DEF y
    <3>3. [b EXCEPT !.typed = y] = m
      BY <1>1, <3>2
    <3> QED BY <3>1, <3>3 DEF m
  <2> QED BY <2>3, <2>4
<1>10. CASE f[1] = "sig"
  <2> DEFINE y == b.sig \cup {<<f[2], f[3]>>}
  <2>1. Apply(b, f) = AddString(b, "sig", f[2], f[3])
    BY <1>10 DEF Apply
  <2>2. OneFile(f) = <<>> /\ OneSym(f) = <<>>
    BY <1>10 DEF OneSym, OneFile
  <2>3. CASE f[3] = NoName
    <3>1. m = b
      BY <1>1, <1>2, <1>3, <1>10, <2>2, <2>3, OfOne
    <3> QED BY <2>1, <2>3, <3>1 DEF AddString, m
  <2>4. CASE f[3] # NoName
    <3>1. Apply(b, f) = [b EXCEPT !.sig = y]
      BY <2>1, <2>4 DEF AddString
    <3>2. m = [xrefs |-> b.xrefs, inherits |-> b.inherits, calls |-> b.calls, childof |-> b.childof,
               aliases |-> b.aliases, typed |-> b.typed, sig |-> y, syms |-> b.syms, files |-> b.files]
      BY <1>2, <1>3, <1>10, <2>2, <2>4, OfOne
    <3> HIDE DEF y
    <3>3. [b EXCEPT !.sig = y] = m
      BY <1>1, <3>2
    <3> QED BY <3>1, <3>3 DEF m
  <2> QED BY <2>3, <2>4
<1>11. CASE f[1] = "xrefs"
  <2> DEFINE y == b.xrefs \cup {f[2]}
  <2>1. Apply(b, f) = AddRow(b, "xrefs", f[2])
    BY <1>11 DEF Apply
  <2>2. OneFile(f) = <<>> /\ OneSym(f) = <<>>
    BY <1>11 DEF OneSym, OneFile
  <2>3. Apply(b, f) = [b EXCEPT !.xrefs = y]
    BY <2>1 DEF AddRow
  <2>4. m = [xrefs |-> y, inherits |-> b.inherits, calls |-> b.calls, childof |-> b.childof,
             aliases |-> b.aliases, typed |-> b.typed, sig |-> b.sig, syms |-> b.syms, files |-> b.files]
    BY <1>2, <1>3, <1>11, <2>2, OfOne
  <2> HIDE DEF y
  <2>5. [b EXCEPT !.xrefs = y] = m
    BY <1>1, <2>4
  <2> QED BY <2>3, <2>5 DEF m
<1>12. CASE f[1] = "calls"
  <2> DEFINE y == b.calls \cup {f[2]}
  <2>1. Apply(b, f) = AddRow(b, "calls", f[2])
    BY <1>12 DEF Apply
  <2>2. OneFile(f) = <<>> /\ OneSym(f) = <<>>
    BY <1>12 DEF OneSym, OneFile
  <2>3. Apply(b, f) = [b EXCEPT !.calls = y]
    BY <2>1 DEF AddRow
  <2>4. m = [xrefs |-> b.xrefs, inherits |-> b.inherits, calls |-> y, childof |-> b.childof,
             aliases |-> b.aliases, typed |-> b.typed, sig |-> b.sig, syms |-> b.syms, files |-> b.files]
    BY <1>2, <1>3, <1>12, <2>2, OfOne
  <2> HIDE DEF y
  <2>5. [b EXCEPT !.calls = y] = m
    BY <1>1, <2>4
  <2> QED BY <2>3, <2>5 DEF m
<1>13. CASE f[1] = "inherits"
  <2> DEFINE y == b.inherits \cup {f[2]}
  <2>1. Apply(b, f) = AddRow(b, "inherits", f[2])
    BY <1>13 DEF Apply
  <2>2. OneFile(f) = <<>> /\ OneSym(f) = <<>>
    BY <1>13 DEF OneSym, OneFile
  <2>3. Apply(b, f) = [b EXCEPT !.inherits = y]
    BY <2>1 DEF AddRow
  <2>4. m = [xrefs |-> b.xrefs, inherits |-> y, calls |-> b.calls, childof |-> b.childof,
             aliases |-> b.aliases, typed |-> b.typed, sig |-> b.sig, syms |-> b.syms, files |-> b.files]
    BY <1>2, <1>3, <1>13, <2>2, OfOne
  <2> HIDE DEF y
  <2>5. [b EXCEPT !.inherits = y] = m
    BY <1>1, <2>4
  <2> QED BY <2>3, <2>5 DEF m
<1>14. CASE f[1] = "childof"
  <2> DEFINE y == b.childof \cup {Flip(f[2])}
  <2>1. Apply(b, f) = AddRow(b, "childof", f[2])
    BY <1>14 DEF Apply
  <2>2. OneFile(f) = <<>> /\ OneSym(f) = <<>>
    BY <1>14 DEF OneSym, OneFile
  <2>3. Apply(b, f) = [b EXCEPT !.childof = y]
    BY <2>1 DEF AddRow
  <2>4. m = [xrefs |-> b.xrefs, inherits |-> b.inherits, calls |-> b.calls, childof |-> y,
             aliases |-> b.aliases, typed |-> b.typed, sig |-> b.sig, syms |-> b.syms, files |-> b.files]
    BY <1>2, <1>3, <1>14, <2>2, OfOne
  <2> HIDE DEF y
  <2>5. [b EXCEPT !.childof = y] = m
    BY <1>1, <2>4
  <2> QED BY <2>3, <2>5 DEF m
<1> QED BY <1>4, <1>5, <1>6, <1>7, <1>8, <1>9, <1>10, <1>11, <1>12, <1>13, <1>14 DEF m

\* Two builders that differ at most in the kinds of their symbols.
ButKinds(c, m) ==
    /\ c \in Builders
    /\ c.xrefs = m.xrefs /\ c.inherits = m.inherits /\ c.calls = m.calls /\ c.childof = m.childof
    /\ c.aliases = m.aliases /\ c.typed = m.typed /\ c.sig = m.sig /\ c.files = m.files
    /\ DOMAIN c.syms = DOMAIN m.syms
    /\ \A s \in DOMAIN c.syms : c.syms[s][2] = m.syms[s][2] /\ c.syms[s][3] = m.syms[s][3]

\* A field mark joins the builder of the fact too, but sets the kind.
LEMMA ApplyMarks ==
    ASSUME NEW b \in Builders, NEW f \in Fact, f[1] = "field"
    PROVE  /\ ButKinds(Apply(b, f), merge_from(b, Of(f)))
           /\ DOMAIN Apply(b, f).syms = DOMAIN b.syms \cup {f[2]}
           /\ Apply(b, f).syms[f[2]][1] = KindField
           /\ \A s \in DOMAIN b.syms \ {f[2]} : Apply(b, f).syms[s] = b.syms[s]
<1> DEFINE e == <<KindField, UNK, NoName>>
           g == Entry(b.syms, f[2], LAMBDA r : [r EXCEPT ![1] = KindField], e)
           y == MergeSyms(b.syms, Only(f[2], e))
           m == merge_from(b, Of(f))
           c == Apply(b, f)
<1>1. c = [b EXCEPT !.syms = g]
  BY Zenon DEF Apply, mark_field
<1>2. OneSym(f) = Only(f[2], e) /\ OneFile(f) = <<>> /\ f[2] \in Int
  BY FactCases DEF OneSym, OneFile
<1>3. b \in Builders /\ b.syms \in Maps(SymRow) /\ IsMap(b.syms, SymRow)
  BY FiniteParts DEF Builders
<1>4. e \in SymRow /\ e[1] = KindField /\ e[2] = UNK /\ e[3] = NoName
  BY NameAssumption DEF SymRow, KindField, UNK
<1>5. ASSUME NEW r \in SymRow
      PROVE  /\ [r EXCEPT ![1] = KindField] \in SymRow /\ [r EXCEPT ![1] = KindField][1] = KindField
             /\ [r EXCEPT ![1] = KindField][2] = r[2] /\ [r EXCEPT ![1] = KindField][3] = r[3]
             /\ Refine(r, e)[2] = r[2] /\ Refine(r, e)[3] = r[3]
  <2>1. r = <<r[1], r[2], r[3]>> /\ r[1] \in Int /\ r[2] \in Int /\ r[3] \in Strings
    BY SymRecs
  <2>2. \A k, l, n, d : [<<k, l, n>> EXCEPT ![1] = d] = <<d, l, n>>
    OBVIOUS
  <2>3. [r EXCEPT ![1] = KindField] = <<KindField, r[2], r[3]>>
    BY <2>1, <2>2
  <2>4. <<KindField, r[2], r[3]>> \in SymRow
    BY <2>1 DEF SymRow, KindField
  <2>5. Known(r[2], UNK) = r[2]
    BY DEF Known
  <2>6. BetterName(r[3], NoName) = r[3]
    BY DEF BetterName, prefers_name
  <2>7. Refine(r, e) = <<Known(r[1], KindField), r[2], r[3]>>
    BY <1>4, <2>5, <2>6 DEF Refine
  <2> DEFINE u == [r EXCEPT ![1] = KindField]
             v == Refine(r, e)
  <2>8. u \in SymRow /\ u = <<KindField, r[2], r[3]>> /\ v = <<Known(r[1], KindField), r[2], r[3]>>
    BY <2>3, <2>4, <2>7
  <2> HIDE DEF u, v
  <2>9. u \in SymRow /\ u[1] = KindField /\ u[2] = r[2] /\ u[3] = r[3] /\ v[2] = r[2] /\ v[3] = r[3]
    BY <2>8
  <2> QED BY <2>9 DEF u, v
<1>6. DOMAIN Only(f[2], e) = {f[2]} /\ Only(f[2], e)[f[2]] = e
  BY DEF Only
<1> HIDE DEF e
<1>7. DOMAIN g = DOMAIN b.syms \cup {f[2]} /\ DOMAIN y = DOMAIN b.syms \cup {f[2]}
  BY <1>6 DEF Entry, MergeSyms
<1>8. ASSUME NEW s \in DOMAIN b.syms \cup {f[2]}
      PROVE  /\ g[s] \in SymRow
             /\ g[s][2] = y[s][2] /\ g[s][3] = y[s][3]
             /\ s = f[2] => g[s][1] = KindField
             /\ s # f[2] => g[s] = b.syms[s]
  <2>1. CASE s # f[2]
    <3>1. g[s] = b.syms[s] /\ y[s] = b.syms[s] /\ b.syms[s] \in SymRow
      BY <1>3, <1>6, <2>1 DEF Entry, MergeSyms, IsMap
    <3> QED BY <2>1, <3>1
  <2>2. CASE s = f[2] /\ s \in DOMAIN b.syms
    <3>1. b.syms[s] \in SymRow
      BY <1>3, <2>2 DEF IsMap
    <3>2. g[s] = [b.syms[s] EXCEPT ![1] = KindField]
      BY <2>2 DEF Entry
    <3>3. y[s] = Refine(b.syms[s], e)
      BY <1>6, <2>2 DEF MergeSyms
    <3> HIDE DEF g, y
    <3> QED BY <1>5, <2>2, <3>1, <3>2, <3>3
  <2>3. CASE s = f[2] /\ s \notin DOMAIN b.syms
    <3>1. g[s] = e /\ y[s] = e
      BY <1>6, <2>3 DEF Entry, MergeSyms
    <3> QED BY <1>4, <2>3, <3>1
  <2> QED BY <2>1, <2>2, <2>3
<1>9. g = [s \in DOMAIN g |-> g[s]]
  BY DEF Entry
<1>10. m.syms = y
  BY <1>2 DEF merge_from, Of
<1> HIDE DEF g, y
<1>11. g \in Maps(SymRow)
  <2>1. DOMAIN g \in SUBSET Int /\ IsFiniteSet(DOMAIN g)
    BY <1>2, <1>3, <1>7, FS_AddElement DEF IsMap
  <2>2. \A s \in DOMAIN g : g[s] \in SymRow
    BY <1>7, <1>8
  <2>3. g \in [DOMAIN g -> SymRow]
    BY <1>9, <2>2
  <2>4. IsMap(g, SymRow)
    BY <2>1, <2>3 DEF IsMap
  <2> QED BY <2>4, FiniteParts
<1> HIDE DEF c
<1>12. c \in Builders /\ c.syms = g
  BY <1>1, <1>11 DEF Builders
<1>13. /\ c.xrefs = b.xrefs /\ c.inherits = b.inherits /\ c.calls = b.calls /\ c.childof = b.childof
       /\ c.aliases = b.aliases /\ c.typed = b.typed /\ c.sig = b.sig /\ c.files = b.files
  BY <1>1 DEF Builders
<1>14. /\ m.xrefs = b.xrefs \cup {} /\ m.inherits = b.inherits \cup {} /\ m.calls = b.calls \cup {}
       /\ m.childof = b.childof \cup {} /\ m.aliases = b.aliases \cup {} /\ m.typed = b.typed \cup {}
       /\ m.sig = b.sig \cup {} /\ m.files = MergeFiles(b.files, <<>>)
  BY <1>2, OfOne DEF merge_from, Of
<1>15. MergeFiles(b.files, <<>>) = b.files
  <2>1. merge_from(b, NewBuilder) = b
    BY Joins
  <2>2. merge_from(b, NewBuilder).files = MergeFiles(b.files, <<>>)
    BY DEF merge_from, NewBuilder
  <2> QED BY <2>1, <2>2
<1> HIDE DEF m
<1>16. \A s \in DOMAIN c.syms : c.syms[s][2] = m.syms[s][2] /\ c.syms[s][3] = m.syms[s][3]
  BY <1>7, <1>8, <1>10, <1>12
<1>17. ButKinds(c, m)
  BY <1>7, <1>10, <1>12, <1>13, <1>14, <1>15, <1>16 DEF ButKinds
<1>18. c.syms[f[2]][1] = KindField /\ \A s \in DOMAIN b.syms \ {f[2]} : c.syms[s] = b.syms[s]
  BY <1>8, <1>12
<1> QED BY <1>7, <1>12, <1>17, <1>18 DEF c, m

\* A fact leaves a builder a builder.
LEMMA ApplyType ==
    ASSUME NEW b \in Builders, NEW f \in Fact
    PROVE  Apply(b, f) \in Builders
<1>1. CASE f[1] = "field"
  BY <1>1, ApplyMarks DEF ButKinds
<1>2. CASE f[1] # "field"
  <2>1. Apply(b, f) = merge_from(b, Of(f)) /\ Of(f) \in Builders
    BY <1>2, ApplyJoins, OfIsBuilder
  <2> DEFINE o == Of(f)
  <2> HIDE DEF o
  <2>2. merge_from(b, o) \in Builders
    BY <2>1, Joins DEF o
  <2> QED BY <2>1, <2>2 DEF o
<1> QED BY <1>1, <1>2

\* The facts a unit has emitted after k calls, and the builder they leave.
IngestStages(h, n, q, c) ==
    /\ n \in Nat /\ q \in [1..n -> Facts[c]] /\ Facts[c] = {q[i] : i \in 1..n}
    /\ ApplyStages(h, n, q, Builders, NewBuilder)

\* A unit's builder is reached fact by fact.
LEMMA IngestedBy ==
    ASSUME NEW c \in CUs, NEW b \in Ingested[c]
    PROVE  \E h, n, q : IngestStages(h, n, q, c) /\ b = h[n]
<1>1. IsFiniteSet(Facts[c]) /\ Facts[c] \subseteq Fact
  BY FactsAssumption
<1>2. PICK q \in SetToSeqs(Facts[c]) : b = FoldLeft(Apply, NewBuilder, q)
  BY Zenon DEF Ingested
<1> DEFINE n == Cardinality(Facts[c])
           D == 1..n
           U == {q[i] : i \in 1..n}
<1>3. n \in Nat
  BY <1>1, FS_CardinalityType
<1>4. q \in [D -> Facts[c]] /\ \A i, j \in D : i # j => q[i] # q[j]
  BY Zenon DEF SetToSeqs
<1>5. U = Facts[c]
  <2>1. \A i, j \in D : q[i] = q[j] => i = j
    BY <1>4
  <2>2. IsFiniteSet(D) /\ Cardinality(D) = n
    BY <1>3, FS_Interval
  <2> HIDE DEF D, n
  <2>3. q \in Injection(D, Facts[c])
    BY <1>4, <2>1 DEF Injection, IsInjective
  <2>4. q \in Surjection(D, Facts[c])
    BY <1>1, <2>2, <2>3, FS_Injection DEF n
  <2>5. \A x \in Facts[c] : \E i \in D : q[i] = x
    BY <2>4 DEF Surjection
  <2>6. \A i \in D : q[i] \in Facts[c]
    BY <1>4
  <2> QED BY <2>5, <2>6 DEF D
<1> HIDE DEF U
<1>6. ApplySteps(n, q, Builders, NewBuilder)
  <2>1. DOMAIN q = 1..n /\ \A i \in 1..n : q[i] \in Fact
    BY <1>1, <1>4
  <2>2. \A x \in Builders, i \in 1..n : Apply(x, q[i]) \in Builders
    BY <2>1, ApplyType
  <2> HIDE DEF n
  <2> QED BY <1>3, <2>1, <2>2, Joins DEF ApplySteps
<1> HIDE DEF n
<1>7. PICK h : ApplyStages(h, n, q, Builders, NewBuilder)
  BY <1>6, ApplyFold
<1>8. b = h[n]
  BY <1>2, <1>7 DEF ApplyStages
<1>9. IngestStages(h, n, q, c)
  BY <1>3, <1>4, <1>5, <1>7 DEF IngestStages, U
<1> QED BY <1>8, <1>9

\* So it is a builder.
LEMMA IngestedType ==
    ASSUME NEW c \in CUs
    PROVE  Ingested[c] \subseteq Builders
<1> SUFFICES ASSUME NEW b \in Ingested[c] PROVE b \in Builders
  OBVIOUS
<1>1. PICK h, n, q : IngestStages(h, n, q, c) /\ b = h[n]
  BY IngestedBy
<1> QED BY <1>1 DEF IngestStages, ApplyStages
-----------------------------------------------------------------------------
(* The build.  G relates a builder to sets of units it may stand for, as   *)
(* long as that is kept by what the build does: it joins builders, writes  *)
(* them and reads them back.                                               *)

Closed(G) ==
    /\ G \subseteq Builders \X SUBSET CUs
    /\ <<NewBuilder, {}>> \in G
    /\ \A b, d \in Builders, S, T \in SUBSET CUs :
          <<b, S>> \in G /\ <<d, T>> \in G => <<merge_from(b, d), S \cup T>> \in G
    /\ \A b \in Builders, S \in SUBSET CUs : <<b, S>> \in G => <<Norm(b), S>> \in G
    /\ \A c \in CUs : \A b \in Ingested[c] : <<b, {c}>> \in G

Files == {finish(x) : x \in Builders}

\* The units D that were ingested are in the sinks sk (su), in the shards sh
\* (S, as the builders x left them), or left nothing (Z).
Account(G, sk, sh, D, su, Z, x, S) ==
    /\ sk \in [Sinks -> Builders] /\ su \in [Sinks -> SUBSET CUs]
    /\ sh \in Seq(Files)
    /\ x \in [1..Len(sh) -> Builders] /\ S \in [1..Len(sh) -> SUBSET CUs]
    /\ <<NewBuilder, Z>> \in G
    /\ \A w \in Sinks : <<sk[w], su[w]>> \in G
    /\ \A i \in 1..Len(sh) : sh[i] = finish(x[i]) /\ <<x[i], S[i]>> \in G
    /\ \A c : c \in D <=> \/ c \in Z
                          \/ \E w \in Sinks : c \in su[w]
                          \/ \E i \in 1..Len(sh) : c \in S[i]

Idle(sk, su) == \A w \in Sinks : sk[w] = NewBuilder => su[w] = {}

Accounted(G, sk, sh, D) ==
    \E su, Z, x, S : Account(G, sk, sh, D, su, Z, x, S) /\ Idle(sk, su)

\* A sink that turned out empty gives its units to Z.
LEMMA Settled ==
    ASSUME NEW G, Closed(G), NEW sk, NEW sh, NEW D, NEW su, NEW Z, NEW x, NEW S,
           Account(G, sk, sh, D, su, Z, x, S),
           NEW w \in Sinks, \A v \in Sinks \ {w} : sk[v] = NewBuilder => su[v] = {}
    PROVE  Accounted(G, sk, sh, D)
<1>1. CASE sk[w] # NewBuilder
  <2>1. Idle(sk, su)
    BY <1>1 DEF Idle
  <2> QED BY <2>1 DEF Accounted
<1>2. CASE sk[w] = NewBuilder
  <2> DEFINE y == Z \cup su[w]
             t == [su EXCEPT ![w] = {}]
  <2>1. /\ su \in [Sinks -> SUBSET CUs] /\ <<NewBuilder, Z>> \in G /\ <<NewBuilder, su[w]>> \in G
        /\ \A v \in Sinks : <<sk[v], su[v]>> \in G
    BY <1>2 DEF Account
  <2>2. NewBuilder \in Builders /\ Z \in SUBSET CUs /\ su[w] \in SUBSET CUs /\ merge_from(NewBuilder, NewBuilder) = NewBuilder
    BY <2>1, Joins DEF Closed
  <2>3. <<merge_from(NewBuilder, NewBuilder), Z \cup su[w]>> \in G
    BY <2>1, <2>2 DEF Closed
  <2>4. <<NewBuilder, y>> \in G
    BY <2>2, <2>3
  <2>5. t \in [Sinks -> SUBSET CUs] /\ t[w] = {} /\ \A v \in Sinks \ {w} : t[v] = su[v]
    BY <2>1
  <2>6. \A v \in Sinks : <<sk[v], t[v]>> \in G
    BY <1>2, <2>1, <2>5 DEF Closed
  <2>7. \A c : c \in y \/ (\E v \in Sinks : c \in t[v]) <=> c \in Z \/ (\E v \in Sinks : c \in su[v])
    BY <2>5
  <2> HIDE DEF y, t
  <2>8. Account(G, sk, sh, D, t, y, x, S)
    BY <2>4, <2>5, <2>6, <2>7 DEF Account
  <2>9. Idle(sk, t)
    BY <2>5 DEF Idle
  <2> QED BY <2>8, <2>9 DEF Accounted
<1> QED BY <1>1, <1>2

StandFor(G, n, x, S, T) ==
    /\ S \in [1..n -> SUBSET CUs]
    /\ \A k \in 1..n : <<x[k], S[k]>> \in G
    /\ \A c : c \in T <=> \E k \in 1..n : c \in S[k]

\* What a chain of files joins stands for the units of all of them.
LEMMA ChainGood ==
    ASSUME NEW G, Closed(G), NEW src, NEW n, NEW x, NEW J, Chain(src, n, x, J),
           NEW S, NEW T, StandFor(G, n, x, S, T)
    PROVE  <<J[n], T>> \in G /\ J[n] \in Builders /\ T \in SUBSET CUs
<1>0. /\ S \in [1..n -> SUBSET CUs]
      /\ \A k \in 1..n : <<x[k], S[k]>> \in G
      /\ \A c : c \in T <=> \E k \in 1..n : c \in S[k]
  BY DEF StandFor
<1>1. /\ n \in Nat /\ x \in [1..n -> Builders] /\ J \in [0..n -> Builders] /\ J[0] = NewBuilder
      /\ \A k \in 1..n : J[k] = merge_from(J[k - 1], Norm(x[k]))
  BY DEF Chain
<1> DEFINE U(k) == UNION {S[i] : i \in 1..k}
           P == {k \in 0..n : <<J[k], U(k)>> \in G}
<1>2. 0 \in P
  <2>1. U(0) = {} /\ 0 \in 0..n
    BY <1>1
  <2> QED BY <1>1, <2>1 DEF Closed
<1>3. ASSUME NEW k \in 1..n, k - 1 \in P PROVE k \in P
  <2>1. k - 1 \in 0..n /\ k \in 0..n /\ 1..k = (1..(k - 1)) \cup {k}
    BY <1>1
  <2>2. <<J[k - 1], U(k - 1)>> \in G
    BY <1>3
  <2>3. U(k) = U(k - 1) \cup S[k]
    BY <2>1
  <2>4. U(k - 1) \in SUBSET CUs
    <3>1. \A i \in 1..(k - 1) : i \in 1..n
      BY <1>1
    <3> QED BY <1>0, <3>1
  <2> DEFINE u == U(k - 1)
             o == Norm(x[k])
  <2> HIDE DEF U
  <2>5. o \in Builders /\ <<o, S[k]>> \in G
    BY <1>0, <1>1, Normal DEF Closed
  <2> HIDE DEF o, u
  <2>6. J[k - 1] \in Builders /\ S[k] \in SUBSET CUs /\ u \in SUBSET CUs /\ <<J[k - 1], u>> \in G
    BY <1>0, <1>1, <2>1, <2>2, <2>4 DEF u
  <2>7. <<merge_from(J[k - 1], o), u \cup S[k]>> \in G
    BY <2>5, <2>6 DEF Closed
  <2>8. J[k] = merge_from(J[k - 1], o)
    BY <1>1 DEF o
  <2> QED BY <2>1, <2>3, <2>7, <2>8 DEF u
<1>4. \A k \in 0..n : k \in P
  <2> HIDE DEF P
  <2> QED BY <1>1, <1>2, <1>3, UpTo
<1>5. <<J[n], U(n)>> \in G
  BY <1>1, <1>4
<1>6. \A c : c \in U(n) <=> c \in T
  BY <1>0
<1>7. U(n) = T
  BY <1>6
<1>8. T \in SUBSET CUs
  BY <1>0
<1> HIDE DEF U
<1> QED BY <1>1, <1>5, <1>7, <1>8

\* The files of an account form a chain.
LEMMA AccountChain ==
    ASSUME NEW G, Closed(G), NEW sk, NEW sh, NEW D, NEW su, NEW Z, NEW x, NEW S,
           Account(G, sk, sh, D, su, Z, x, S)
    PROVE  \E J : Chain(sh, Len(sh), x, J)
<1>1. Len(sh) \in Nat /\ DOMAIN sh = 1..Len(sh) /\ x \in [1..Len(sh) -> Builders]
  BY DEF Account
<1>2. \A i \in 1..Len(sh) : sh[i] = finish(x[i])
  BY DEF Account
<1> DEFINE n == Len(sh)
<1> HIDE DEF n
<1> QED BY <1>1, <1>2, ChainExists DEF n

\* A unit reaches a sink.
LEMMA IngestStep ==
    ASSUME NEW G, Closed(G), NEW sk, NEW sh, NEW D, Accounted(G, sk, sh, D),
           NEW w \in Sinks, NEW c \in CUs, NEW b \in Ingested[c]
    PROVE  Accounted(G, [sk EXCEPT ![w] = merge_from(@, b)], sh, D \cup {c})
<1>1. PICK su, Z, x, S : Account(G, sk, sh, D, su, Z, x, S) /\ Idle(sk, su)
  BY DEF Accounted
<1> DEFINE t == [su EXCEPT ![w] = @ \cup {c}]
           m == merge_from(sk[w], b)
           k == [sk EXCEPT ![w] = m]
<1>2. /\ sk \in [Sinks -> Builders] /\ su \in [Sinks -> SUBSET CUs]
      /\ \A v \in Sinks : <<sk[v], su[v]>> \in G
  BY <1>1 DEF Account
<1>3. b \in Builders /\ <<b, {c}>> \in G
  BY IngestedType DEF Closed
<1>4. m \in Builders /\ <<m, su[w] \cup {c}>> \in G
  BY <1>2, <1>3, Joins DEF Closed
<1> HIDE DEF m
<1>5. /\ k \in [Sinks -> Builders] /\ t \in [Sinks -> SUBSET CUs]
      /\ t[w] = su[w] \cup {c} /\ k[w] = m
      /\ \A v \in Sinks \ {w} : t[v] = su[v] /\ k[v] = sk[v]
  BY <1>2, <1>4
<1>6. \A e : (\E v \in Sinks : e \in t[v]) <=> e = c \/ \E v \in Sinks : e \in su[v]
  BY <1>5
<1> HIDE DEF k, t
<1>7. \A v \in Sinks : <<k[v], t[v]>> \in G
  BY <1>2, <1>4, <1>5
<1>8. Account(G, k, sh, D \cup {c}, t, Z, x, S)
  <2>1. \A e : e \in D \cup {c} <=> \/ e \in Z
                                    \/ \E v \in Sinks : e \in t[v]
                                    \/ \E i \in 1..Len(sh) : e \in S[i]
    BY <1>1, <1>6 DEF Account
  <2> DEFINE E == D \cup {c}
  <2> HIDE DEF E
  <2>2. Account(G, k, sh, E, t, Z, x, S)
    BY <1>1, <1>5, <1>7, <2>1 DEF Account, E
  <2> QED BY <2>2 DEF E
<1>9. \A v \in Sinks \ {w} : k[v] = NewBuilder => t[v] = {}
  BY <1>1, <1>5 DEF Idle
<1>10. Accounted(G, k, sh, D \cup {c})
  <2> DEFINE E == D \cup {c}
  <2>1. Account(G, k, sh, E, t, Z, x, S)
    BY <1>8
  <2> HIDE DEF E
  <2>2. Accounted(G, k, sh, E)
    BY <1>9, <2>1, Settled
  <2> QED BY <2>2 DEF E
<1> QED BY <1>10 DEF k, m

\* A sink is drained into another.
LEMMA DrainStep ==
    ASSUME NEW G, Closed(G), NEW sk, NEW sh, NEW D, Accounted(G, sk, sh, D),
           NEW v \in Sinks, NEW w \in Sinks, v # w
    PROVE  Accounted(G, [sk EXCEPT ![w] = merge_from(@, sk[v]), ![v] = NewBuilder], sh, D)
<1>1. PICK su, Z, x, S : Account(G, sk, sh, D, su, Z, x, S) /\ Idle(sk, su)
  BY DEF Accounted
<1> DEFINE t == [su EXCEPT ![w] = @ \cup su[v], ![v] = {}]
           m == merge_from(sk[w], sk[v])
           k == [sk EXCEPT ![w] = m, ![v] = NewBuilder]
<1>2. /\ sk \in [Sinks -> Builders] /\ su \in [Sinks -> SUBSET CUs]
      /\ \A u \in Sinks : <<sk[u], su[u]>> \in G
  BY <1>1 DEF Account
<1>3. m \in Builders /\ <<m, su[w] \cup su[v]>> \in G
  BY <1>2, Joins DEF Closed
<1>4. NewBuilder \in Builders /\ <<NewBuilder, {}>> \in G
  BY Joins DEF Closed
<1> HIDE DEF m
<1>5. /\ k \in [Sinks -> Builders] /\ t \in [Sinks -> SUBSET CUs]
      /\ t[w] = su[w] \cup su[v] /\ k[w] = m /\ t[v] = {} /\ k[v] = NewBuilder
      /\ \A u \in Sinks \ {v, w} : t[u] = su[u] /\ k[u] = sk[u]
  BY <1>2, <1>3, <1>4
<1>6. \A e : (\E u \in Sinks : e \in t[u]) <=> \E u \in Sinks : e \in su[u]
  BY <1>5
<1> HIDE DEF k, t
<1>7. \A u \in Sinks : <<k[u], t[u]>> \in G
  BY <1>2, <1>3, <1>4, <1>5
<1>8. Account(G, k, sh, D, t, Z, x, S)
  BY <1>1, <1>5, <1>6, <1>7 DEF Account
<1>9. \A u \in Sinks \ {w} : k[u] = NewBuilder => t[u] = {}
  BY <1>1, <1>5 DEF Idle
<1>10. Accounted(G, k, sh, D)
  BY <1>8, <1>9, Settled
<1> QED BY <1>10 DEF k, m

\* A sink is written.
LEMMA WriteStep ==
    ASSUME NEW G, Closed(G), NEW sk, NEW sh, NEW D, Accounted(G, sk, sh, D), NEW w \in Sinks
    PROVE  Accounted(G, [sk EXCEPT ![w] = NewBuilder], Append(sh, finish(sk[w])), D)
<1>1. PICK su, Z, x, S : Account(G, sk, sh, D, su, Z, x, S) /\ Idle(sk, su)
  BY DEF Accounted
<1> DEFINE n == Len(sh)
           t == [su EXCEPT ![w] = {}]
           k == [sk EXCEPT ![w] = NewBuilder]
           f == finish(sk[w])
           h == Append(sh, f)
           y == [i \in 1..(n + 1) |-> IF i = n + 1 THEN sk[w] ELSE x[i]]
           T == [i \in 1..(n + 1) |-> IF i = n + 1 THEN su[w] ELSE S[i]]
<1>2. /\ sk \in [Sinks -> Builders] /\ su \in [Sinks -> SUBSET CUs] /\ sh \in Seq(Files) /\ n \in Nat
      /\ x \in [1..n -> Builders] /\ S \in [1..n -> SUBSET CUs]
      /\ \A u \in Sinks : <<sk[u], su[u]>> \in G
      /\ \A i \in 1..n : sh[i] = finish(x[i]) /\ <<x[i], S[i]>> \in G
  BY <1>1 DEF Account
<1>3. NewBuilder \in Builders /\ <<NewBuilder, {}>> \in G
  BY Joins DEF Closed
<1>4. /\ k \in [Sinks -> Builders] /\ t \in [Sinks -> SUBSET CUs]
      /\ t[w] = {} /\ k[w] = NewBuilder
      /\ \A u \in Sinks \ {w} : t[u] = su[u] /\ k[u] = sk[u]
  BY <1>2, <1>3
<1>5. f \in Files
  BY <1>2 DEF Files
<1>6. h \in Seq(Files) /\ Len(h) = n + 1 /\ h[n + 1] = f /\ \A i \in 1..n : h[i] = sh[i]
  <2> HIDE DEF f
  <2> QED BY <1>2, <1>5
<1>7. /\ y \in [1..(n + 1) -> Builders] /\ T \in [1..(n + 1) -> SUBSET CUs]
      /\ y[n + 1] = sk[w] /\ T[n + 1] = su[w] /\ n + 1 \in 1..(n + 1)
      /\ \A i \in 1..n : y[i] = x[i] /\ T[i] = S[i]
      /\ \A i \in 1..(n + 1) : i = n + 1 \/ i \in 1..n
  BY <1>2
<1> HIDE DEF k, t, h, y, T, n
<1>8. \A u \in Sinks : <<k[u], t[u]>> \in G
  BY <1>2, <1>3, <1>4
<1>9. \A i \in 1..(n + 1) : h[i] = finish(y[i]) /\ <<y[i], T[i]>> \in G
  BY <1>2, <1>6, <1>7
<1>10. \A e : \/ \E u \in Sinks : e \in t[u]
              \/ \E i \in 1..(n + 1) : e \in T[i]
           <=> \/ \E u \in Sinks : e \in su[u]
               \/ \E i \in 1..n : e \in S[i]
  <2>1. \A i \in 1..n : i \in 1..(n + 1)
    BY <1>2
  <2> QED BY <1>4, <1>7, <2>1
<1>11. Account(G, k, h, D, t, Z, y, T)
  <2>1. \A e : e \in D <=> \/ e \in Z
                           \/ \E u \in Sinks : e \in t[u]
                           \/ \E i \in 1..(n + 1) : e \in T[i]
    BY <1>1, <1>10 DEF Account, n
  <2>2. <<NewBuilder, Z>> \in G
    BY <1>1 DEF Account
  <2> QED BY <1>4, <1>6, <1>7, <1>8, <1>9, <2>1, <2>2 DEF Account
<1>12. Idle(k, t)
  BY <1>1, <1>4 DEF Idle
<1>13. Accounted(G, k, h, D)
  BY <1>11, <1>12 DEF Accounted
<1> QED BY <1>13 DEF k, h

\* A sequence in which the places i to j were replaced by one element.
Splice(sh, i, j, s) == SubSeq(sh, 1, i - 1) \o <<s>> \o SubSeq(sh, j + 1, Len(sh))

SplicedRows(h, R, sh, i, j, s) ==
    /\ h \in Seq(R)
    /\ Len(h) = Len(sh) - (j - i) /\ h[i] = s
    /\ \A k \in 1..(i - 1) : h[k] = sh[k]
    /\ \A k \in (i + 1)..(Len(sh) - (j - i)) : h[k] = sh[k + (j - i)]

\* What it holds.
LEMMA Spliced ==
    ASSUME NEW R, NEW sh \in Seq(R), NEW i \in Nat, NEW j \in Nat, 1 <= i, i < j, j <= Len(sh), NEW s \in R
    PROVE  SplicedRows(Splice(sh, i, j, s), R, sh, i, j, s)
<1> DEFINE a == SubSeq(sh, 1, i - 1)
           b == SubSeq(sh, j + 1, Len(sh))
           d == a \o <<s>>
           h == Splice(sh, i, j, s)
           L == Len(sh)
<1>1. a \in Seq(R) /\ Len(a) = i - 1 /\ \A k \in 1..(i - 1) : a[k] = sh[k]
  OBVIOUS
<1>2. b \in Seq(R) /\ Len(b) = L - j /\ \A k \in 1..(L - j) : b[k] = sh[j + k]
  OBVIOUS
<1> HIDE DEF a, b
<1>3. d \in Seq(R) /\ Len(d) = i /\ d[i] = s /\ \A k \in 1..(i - 1) : d[k] = a[k]
  BY <1>1
<1>4. h = d \o b /\ L \in Nat /\ j <= L
  BY DEF a, b, Splice
<1> HIDE DEF d, h, L
<1>5. ASSUME NEW p \in Seq(R), NEW q \in Seq(R)
      PROVE  /\ p \o q \in Seq(R) /\ Len(p \o q) = Len(p) + Len(q)
             /\ \A k \in 1..Len(p) : (p \o q)[k] = p[k]
             /\ \A k \in 1..Len(q) : (p \o q)[Len(p) + k] = q[k]
  OBVIOUS
<1>6. h \in Seq(R) /\ Len(h) = Len(d) + Len(b)
  BY <1>2, <1>3, <1>4, <1>5
<1>7. \A k \in 1..Len(d) : h[k] = d[k]
  BY <1>2, <1>3, <1>4, <1>5
<1>8. \A k \in 1..Len(b) : h[Len(d) + k] = b[k]
  BY <1>2, <1>3, <1>4, <1>5
<1>9. ASSUME NEW k \in (i + 1)..(L - (j - i)) PROVE h[k] = sh[k + (j - i)]
  <2>1. k - i \in 1..(L - j) /\ i + (k - i) = k /\ j + (k - i) = k + (j - i)
    BY <1>4
  <2>2. h[i + (k - i)] = b[k - i] /\ b[k - i] = sh[j + (k - i)]
    BY <1>2, <1>3, <1>8, <2>1
  <2> QED BY <2>1, <2>2
<1>10. h[i] = s /\ \A k \in 1..(i - 1) : h[k] = sh[k]
  <2>1. i \in 1..i /\ \A k \in 1..(i - 1) : k \in 1..i
    OBVIOUS
  <2> QED BY <1>1, <1>3, <1>7, <2>1
<1>11. Len(h) = L - (j - i)
  <2>1. Len(h) = i + (L - j)
    BY <1>2, <1>3, <1>6
  <2> QED BY <1>4, <2>1
<1> QED BY <1>6, <1>9, <1>10, <1>11 DEF h, L, SplicedRows

\* A group of shards is replaced by one.
LEMMA CoalesceStep ==
    ASSUME NEW G, Closed(G), NEW sk, NEW sh, NEW D, Accounted(G, sk, sh, D),
           NEW i \in Nat, NEW j \in Nat, 1 <= i, i < j, j <= Len(sh),
           NEW s \in {coalesce_shards(SubSeq(sh, i, j)), merge_group_global(SubSeq(sh, i, j))}
    PROVE  Accounted(G, sk, Splice(sh, i, j, s), D)
<1>1. PICK su, Z, x, S : Account(G, sk, sh, D, su, Z, x, S) /\ Idle(sk, su)
  BY DEF Accounted
<1> DEFINE N == Len(sh)
           n == j - i + 1
           d == j - i
           src == SubSeq(sh, i, j)
           y == [k \in 1..n |-> x[k + i - 1]]
           T == [k \in 1..n |-> S[k + i - 1]]
           U == UNION {S[k] : k \in i..j}
           h == Splice(sh, i, j, s)
<1>2. /\ sh \in Seq(Files) /\ N \in Nat
      /\ x \in [1..N -> Builders] /\ S \in [1..N -> SUBSET CUs]
      /\ \A k \in 1..N : sh[k] = finish(x[k]) /\ <<x[k], S[k]>> \in G
  BY <1>1 DEF Account
<1>3. \A k \in 1..n : k + i - 1 \in 1..N /\ k + i - 1 \in i..j
  BY <1>2
<1>4. n \in Nat /\ DOMAIN src = 1..n /\ \A k \in 1..n : src[k] = sh[k + i - 1]
  <2>1. src \in Seq(Files) /\ Len(src) = n /\ \A k \in 1..n : src[k] = sh[i + k - 1]
    BY <1>2
  <2>2. n \in Nat /\ \A k \in 1..n : i + k - 1 = k + i - 1
    OBVIOUS
  <2> HIDE DEF src, n
  <2> QED BY <2>1, <2>2
<1>5. y \in [1..n -> Builders] /\ T \in [1..n -> SUBSET CUs] /\ \A k \in 1..n : y[k] = x[k + i - 1] /\ T[k] = S[k + i - 1]
  BY <1>2, <1>3
<1> HIDE DEF y, T, src
<1>6. \A k \in 1..n : src[k] = finish(y[k]) /\ <<y[k], T[k]>> \in G
  BY <1>2, <1>3, <1>4, <1>5
<1>7. \A c : c \in U <=> \E k \in 1..n : c \in T[k]
  <2>1. \A k \in i..j : k - i + 1 \in 1..n /\ (k - i + 1) + i - 1 = k
    BY <1>2
  <2>2. ASSUME NEW c, c \in U PROVE \E k \in 1..n : c \in T[k]
    <3>1. PICK k \in i..j : c \in S[k]
      BY <2>2
    <3>2. T[k - i + 1] = S[k]
      BY <1>5, <2>1
    <3> QED BY <2>1, <3>1, <3>2
  <2>3. ASSUME NEW c, NEW k \in 1..n, c \in T[k] PROVE c \in U
    BY <1>3, <1>5, <2>3
  <2> QED BY <2>2, <2>3
<1> HIDE DEF n, U
<1>8. PICK J : Chain(src, n, y, J)
  BY <1>4, <1>5, <1>6, ChainExists
<1>9. s = finish(J[n])
  BY <1>8, CoalesceAgrees DEF src
<1>10. <<J[n], U>> \in G /\ J[n] \in Builders /\ U \in SUBSET CUs
  <2>1. StandFor(G, n, y, T, U)
    BY <1>5, <1>6, <1>7 DEF StandFor
  <2> QED BY <1>8, <2>1, ChainGood
<1> DEFINE b == J[n]
<1> HIDE DEF b
<1>11. s \in Files /\ s = finish(b) /\ <<b, U>> \in G /\ b \in Builders
  BY <1>9, <1>10 DEF Files, b
<1> DEFINE M == N - d
           X == [k \in 1..M |-> IF k < i THEN x[k] ELSE IF k = i THEN b ELSE x[k + d]]
           W == [k \in 1..M |-> IF k < i THEN S[k] ELSE IF k = i THEN U ELSE S[k + d]]
<1>12. /\ h \in Seq(Files) /\ Len(h) = M /\ h[i] = s
       /\ \A k \in 1..(i - 1) : h[k] = sh[k]
       /\ \A k \in (i + 1)..M : h[k] = sh[k + d]
  <2>1. sh \in Seq(Files) /\ s \in Files
    BY <1>2, <1>11
  <2>2. SplicedRows(h, Files, sh, i, j, s)
    BY <2>1, Spliced
  <2> QED BY <2>2 DEF SplicedRows
<1>13. /\ M \in Nat /\ i \in 1..M /\ d \in Nat
       /\ \A k \in 1..M : k \in 1..(i - 1) \/ k = i \/ k \in (i + 1)..M
       /\ \A k \in 1..(i - 1) : k \in 1..N /\ k \in 1..M /\ k < i /\ k # i
       /\ \A k \in (i + 1)..M : k + d \in 1..N /\ k \in 1..M /\ ~ (k < i) /\ k # i
       /\ \A k \in 1..N : k \in 1..(i - 1) \/ k \in i..j \/ k - d \in (i + 1)..M
       /\ \A k \in 1..N : (k - d) + d = k
       /\ \A k \in i..j : k \in 1..N
  BY <1>2
<1>14. /\ X[i] = b /\ W[i] = U
       /\ \A k \in 1..(i - 1) : X[k] = x[k] /\ W[k] = S[k]
       /\ \A k \in (i + 1)..M : X[k] = x[k + d] /\ W[k] = S[k + d]
       /\ DOMAIN X = 1..M /\ DOMAIN W = 1..M
       /\ X = [k \in 1..M |-> X[k]] /\ W = [k \in 1..M |-> W[k]]
  <2> HIDE DEF M, d
  <2> QED BY <1>13
<1> HIDE DEF X, W, h, M, d, N
<1>15. \A k \in 1..M : X[k] \in Builders /\ W[k] \in SUBSET CUs
  BY <1>2, <1>10, <1>11, <1>13, <1>14
<1>16. X \in [1..M -> Builders] /\ W \in [1..M -> SUBSET CUs]
  BY <1>14, <1>15
<1>17. \A k \in 1..M : h[k] = finish(X[k]) /\ <<X[k], W[k]>> \in G
  <2> SUFFICES ASSUME NEW k \in 1..M PROVE h[k] = finish(X[k]) /\ <<X[k], W[k]>> \in G
    OBVIOUS
  <2>1. CASE k \in 1..(i - 1)
    <3>1. h[k] = sh[k] /\ X[k] = x[k] /\ W[k] = S[k] /\ k \in 1..N
      BY <1>12, <1>13, <1>14, <2>1
    <3> QED BY <1>2, <3>1
  <2>2. CASE k = i
    BY <1>11, <1>12, <1>14, <2>2
  <2>3. CASE k \in (i + 1)..M
    <3>1. h[k] = sh[k + d] /\ X[k] = x[k + d] /\ W[k] = S[k + d] /\ k + d \in 1..N
      BY <1>12, <1>13, <1>14, <2>3
    <3> QED BY <1>2, <3>1
  <2> QED BY <1>13, <2>1, <2>2, <2>3
<1>18. \A c : (\E k \in 1..M : c \in W[k]) <=> \E k \in 1..N : c \in S[k]
  <2>1. ASSUME NEW c, NEW k \in 1..M, c \in W[k] PROVE \E l \in 1..N : c \in S[l]
    <3>1. CASE k \in 1..(i - 1)
      BY <1>13, <1>14, <2>1, <3>1
    <3>2. CASE k = i
      BY <1>13, <1>14, <2>1, <3>2 DEF U
    <3>3. CASE k \in (i + 1)..M
      BY <1>13, <1>14, <2>1, <3>3
    <3> QED BY <1>13, <3>1, <3>2, <3>3
  <2>2. ASSUME NEW c, NEW k \in 1..N, c \in S[k] PROVE \E l \in 1..M : c \in W[l]
    <3>1. CASE k \in 1..(i - 1)
      BY <1>13, <1>14, <2>2, <3>1
    <3>2. CASE k \in i..j
      <4>1. c \in U
        BY <2>2, <3>2 DEF U
      <4> QED BY <1>13, <1>14, <4>1
    <3>3. CASE k - d \in (i + 1)..M
      <4> DEFINE l == k - d
      <4>1. l \in (i + 1)..M /\ l + d = k
        BY <1>13, <3>3
      <4> HIDE DEF l
      <4>2. W[l] = S[k] /\ l \in 1..M
        BY <1>13, <1>14, <4>1
      <4> QED BY <2>2, <4>2
    <3> QED BY <1>13, <3>1, <3>2, <3>3
  <2> QED BY <2>1, <2>2
<1>19. Account(G, sk, h, D, su, Z, X, W)
  <2>1. \A e : e \in D <=> \/ e \in Z
                           \/ \E u \in Sinks : e \in su[u]
                           \/ \E k \in 1..M : e \in W[k]
    BY <1>1, <1>18 DEF Account, N
  <2>2. /\ sk \in [Sinks -> Builders] /\ su \in [Sinks -> SUBSET CUs] /\ <<NewBuilder, Z>> \in G
        /\ \A w \in Sinks : <<sk[w], su[w]>> \in G
    BY <1>1 DEF Account
  <2> QED BY <1>12, <1>16, <1>17, <2>1, <2>2 DEF Account
<1>20. Accounted(G, sk, h, D)
  BY <1>1, <1>19 DEF Accounted
<1> QED BY <1>20 DEF h

\* A single shard is replayed into a sink.
LEMMA ResumeStep ==
    ASSUME NEW G, Closed(G), NEW sk, NEW sh, NEW D, Accounted(G, sk, sh, D),
           NEW w \in Sinks, Len(sh) = 1
    PROVE  Accounted(G, [sk EXCEPT ![w] = populate_from_index(@, sh[1])], <<>>, D)
<1>1. PICK su, Z, x, S : Account(G, sk, sh, D, su, Z, x, S) /\ Idle(sk, su)
  BY DEF Accounted
<1> DEFINE t == [su EXCEPT ![w] = @ \cup S[1]]
           o == Norm(x[1])
           m == merge_from(sk[w], o)
           k == [sk EXCEPT ![w] = m]
           E == [i \in 1..0 |-> i]
<1>2. /\ sk \in [Sinks -> Builders] /\ su \in [Sinks -> SUBSET CUs]
      /\ x[1] \in Builders /\ S[1] \in SUBSET CUs /\ sh[1] = finish(x[1]) /\ <<x[1], S[1]>> \in G
      /\ <<NewBuilder, Z>> \in G
      /\ \A u \in Sinks : <<sk[u], su[u]>> \in G
      /\ \A c : c \in D <=> c \in Z \/ (\E u \in Sinks : c \in su[u]) \/ c \in S[1]
  <2>1. 1 \in 1..1 /\ \A i \in 1..1 : i = 1
    OBVIOUS
  <2> QED BY <1>1, <2>1 DEF Account
<1>3. o \in Builders /\ <<o, S[1]>> \in G
  BY <1>2, Normal DEF Closed
<1>4. populate_from_index(sk[w], sh[1]) = m
  BY <1>2, ReplayIsMerge
<1> HIDE DEF o
<1>5. m \in Builders /\ <<m, su[w] \cup S[1]>> \in G
  BY <1>2, <1>3, Joins DEF Closed
<1> HIDE DEF m
<1>6. /\ k \in [Sinks -> Builders] /\ t \in [Sinks -> SUBSET CUs]
      /\ t[w] = su[w] \cup S[1] /\ k[w] = m
      /\ \A v \in Sinks \ {w} : t[v] = su[v] /\ k[v] = sk[v]
  BY <1>2, <1>5
<1>7. \A e : (\E v \in Sinks : e \in t[v]) <=> e \in S[1] \/ \E v \in Sinks : e \in su[v]
  BY <1>6
<1> HIDE DEF t
<1>8. \A v \in Sinks : <<k[v], t[v]>> \in G
  BY <1>2, <1>5, <1>6
<1>9. /\ <<>> \in Seq(Files) /\ Len(<<>>) = 0 /\ E \in [1..0 -> Builders] /\ E \in [1..0 -> SUBSET CUs]
      /\ \A i \in 1..0 : FALSE
  OBVIOUS
<1> HIDE DEF k, E
<1>10. Account(G, k, <<>>, D, t, Z, E, E)
  <2>1. \A i \in 1..Len(<<>>) : FALSE
    BY <1>9
  <2>2. \A e : e \in D <=> \/ e \in Z
                           \/ \E v \in Sinks : e \in t[v]
                           \/ \E i \in 1..Len(<<>>) : e \in E[i]
    BY <1>2, <1>7, <2>1
  <2> QED BY <1>2, <1>6, <1>8, <1>9, <2>1, <2>2 DEF Account
<1>11. \A v \in Sinks \ {w} : k[v] = NewBuilder => t[v] = {}
  BY <1>1, <1>6 DEF Idle
<1>12. Accounted(G, k, <<>>, D)
  BY <1>10, <1>11, Settled
<1> QED BY <1>4, <1>12 DEF k

FileOf(G, D, f) == \E b \in Builders : <<b, D>> \in G /\ f = finish(b)

\* The output stands for every unit that was ingested.
LEMMA FinaliseStep ==
    ASSUME NEW G, Closed(G), NEW sk, NEW sh, NEW D, Accounted(G, sk, sh, D),
           NEW w \in Sinks, \A v \in Sinks \ {w} : sk[v] = NewBuilder
    PROVE  /\ FileOf(G, D, write_merged_snapshot(sk[w], sh))
           /\ sh = <<>> => FileOf(G, D, finish(sk[w]))
<1>1. PICK su, Z, x, S : Account(G, sk, sh, D, su, Z, x, S) /\ Idle(sk, su)
  BY DEF Accounted
<1> DEFINE n == Len(sh)
           T == UNION {S[i] : i \in 1..n}
<1>2. /\ sk \in [Sinks -> Builders] /\ su \in [Sinks -> SUBSET CUs] /\ S \in [1..n -> SUBSET CUs]
      /\ <<NewBuilder, Z>> \in G /\ <<sk[w], su[w]>> \in G
      /\ (\A i \in 1..n : <<x[i], S[i]>> \in G)
      /\ \A c : c \in D <=> c \in Z \/ (\E u \in Sinks : c \in su[u]) \/ \E i \in 1..n : c \in S[i]
  BY <1>1 DEF Account
<1>3. \A v \in Sinks \ {w} : su[v] = {}
  BY <1>1 DEF Idle
<1>4. \A c : c \in T <=> \E i \in 1..n : c \in S[i]
  OBVIOUS
<1>5. \A c : c \in D <=> c \in (T \cup su[w]) \cup Z
  BY <1>2, <1>3, <1>4
<1> HIDE DEF T
<1>6. D = (T \cup su[w]) \cup Z
  BY <1>5
<1>7. PICK J : Chain(sh, n, x, J)
  BY <1>1, AccountChain
<1> HIDE DEF n
<1>8. <<J[n], T>> \in G /\ J[n] \in Builders /\ T \in SUBSET CUs
  <2>1. StandFor(G, n, x, S, T)
    BY <1>2, <1>4 DEF StandFor
  <2> QED BY <1>7, <2>1, ChainGood
<1> DEFINE m == merge_from(J[n], sk[w])
           y == T \cup su[w]
<1>9. sk[w] \in Builders /\ su[w] \in SUBSET CUs /\ Z \in SUBSET CUs /\ NewBuilder \in Builders
  BY <1>2, Joins DEF Closed
<1>10. m \in Builders /\ <<m, y>> \in G /\ y \in SUBSET CUs
  BY <1>2, <1>8, <1>9, Joins DEF Closed
<1>11. write_merged_snapshot(sk[w], sh) = finish(m)
  BY <1>7, <1>9, KWayMerge
<1> HIDE DEF m, y
<1>12. ASSUME NEW b \in Builders, NEW u \in SUBSET CUs, <<b, u>> \in G PROVE <<b, u \cup Z>> \in G
  <2>1. <<merge_from(b, NewBuilder), u \cup Z>> \in G
    BY <1>2, <1>9, <1>12 DEF Closed
  <2> QED BY <2>1, Joins
<1>13. <<m, D>> \in G
  <2>1. <<m, y \cup Z>> \in G
    BY <1>10, <1>12
  <2> QED BY <1>6, <2>1 DEF y
<1>14. ASSUME sh = <<>> PROVE <<sk[w], D>> \in G
  <2>1. n = 0
    BY <1>14 DEF n
  <2>2. T = {}
    BY <1>4, <2>1
  <2>3. <<sk[w], su[w] \cup Z>> \in G
    BY <1>2, <1>9, <1>12
  <2>4. D = su[w] \cup Z
    BY <1>6, <2>2
  <2> QED BY <2>3, <2>4
<1> QED BY <1>9, <1>10, <1>11, <1>13, <1>14 DEF FileOf

\* The state of a build, in terms of a relation G.
BuildInv(G) ==
    /\ todo \in SUBSET CUs
    /\ Accounted(G, sink, shards, CUs \ todo)
    /\ out # <<>> => FileOf(G, CUs \ todo, out)

\* The build keeps it.
LEMMA BuildKeeps ==
    ASSUME NEW CONSTANT G, Closed(G), BuildInv(G), [Next]_vars
    PROVE  BuildInv(G)'
<1> DEFINE D == CUs \ todo
<1>0. todo \in SUBSET CUs /\ Accounted(G, sink, shards, D)
  BY DEF BuildInv
<1>1. CASE UNCHANGED vars
  BY <1>1 DEF BuildInv, vars
<1>2. ASSUME NEW c \in CUs, NEW w \in Sinks, Ingest(c, w) PROVE BuildInv(G)'
  <2>1. out' = <<>> /\ shards' = shards /\ todo' \in SUBSET CUs
    BY <1>0, <1>2 DEF Ingest
  <2>2. PICK b \in Ingested[c] : sink' = [sink EXCEPT ![w] = merge_from(@, b)]
    BY <1>2 DEF Ingest
  <2>3. CUs \ todo' = D \cup {c}
    BY <1>0, <1>2 DEF Ingest
  <2> HIDE DEF D
  <2>4. Accounted(G, sink', shards, D \cup {c})
    BY <1>0, <2>2, IngestStep
  <2>5. Accounted(G, sink', shards', CUs \ todo')
    BY <2>1, <2>3, <2>4
  <2> QED BY <2>1, <2>5 DEF BuildInv
<1>3. ASSUME NEW v \in Sinks, NEW w \in Sinks, Drain(v, w) PROVE BuildInv(G)'
  <2>1. out' = <<>> /\ shards' = shards /\ todo' = todo /\ v # w
        /\ sink' = [sink EXCEPT ![w] = merge_from(@, sink[v]), ![v] = NewBuilder]
    BY <1>3 DEF Drain
  <2> HIDE DEF D
  <2>2. Accounted(G, sink', shards, D)
    BY <1>0, <2>1, DrainStep
  <2>3. Accounted(G, sink', shards', CUs \ todo')
    BY <2>1, <2>2 DEF D
  <2> QED BY <1>0, <2>1, <2>3 DEF BuildInv
<1>4. ASSUME NEW w \in Sinks, WriteShard(w) PROVE BuildInv(G)'
  <2>1. out' = <<>> /\ todo' = todo /\ shards' = Append(shards, finish(sink[w]))
        /\ sink' = [sink EXCEPT ![w] = NewBuilder]
    BY <1>4 DEF WriteShard
  <2> HIDE DEF D
  <2>2. Accounted(G, sink', shards', D)
    BY <1>0, <2>1, WriteStep
  <2>3. Accounted(G, sink', shards', CUs \ todo')
    BY <2>1, <2>2 DEF D
  <2> QED BY <1>0, <2>1, <2>3 DEF BuildInv
<1>5. ASSUME NEW w \in Sinks, Resume(w) PROVE BuildInv(G)'
  <2>1. out' = <<>> /\ todo' = todo /\ shards' = <<>> /\ Len(shards) = 1
        /\ sink' = [sink EXCEPT ![w] = populate_from_index(@, shards[1])]
    BY <1>5 DEF Resume
  <2> HIDE DEF D
  <2>2. Accounted(G, sink', shards', D)
    BY <1>0, <2>1, ResumeStep
  <2>3. Accounted(G, sink', shards', CUs \ todo')
    BY <2>1, <2>2 DEF D
  <2> QED BY <1>0, <2>1, <2>3 DEF BuildInv
<1>6. ASSUME NEW w \in Sinks, Finalise(w) PROVE BuildInv(G)'
  <2>1. todo' = todo /\ shards' = shards /\ sink' = sink /\ (\A v \in Sinks \ {w} : sink[v] = NewBuilder)
        /\ (out' = write_merged_snapshot(sink[w], shards) \/ (shards = <<>> /\ out' = finish(sink[w])))
    BY <1>6 DEF Finalise
  <2> HIDE DEF D
  <2>2. /\ FileOf(G, D, write_merged_snapshot(sink[w], shards))
        /\ shards = <<>> => FileOf(G, D, finish(sink[w]))
    BY <1>0, <2>1, FinaliseStep
  <2>3. FileOf(G, D, out')
    BY <2>1, <2>2
  <2>4. Accounted(G, sink', shards', CUs \ todo')
    BY <1>0, <2>1 DEF D
  <2>5. FileOf(G, CUs \ todo', out')
    BY <2>1, <2>3 DEF D
  <2> QED BY <1>0, <2>1, <2>4, <2>5 DEF BuildInv
<1>7. ASSUME NEW i \in 1..MaxShards, NEW j \in 1..MaxShards, Coalesce(i, j) PROVE BuildInv(G)'
  <2>1. out' = <<>> /\ todo' = todo /\ sink' = sink /\ i \in Nat /\ j \in Nat /\ 1 <= i /\ i < j /\ j <= Len(shards)
    BY <1>7, ShardsAssumption DEF Coalesce
  <2>2. PICK s \in {coalesce_shards(SubSeq(shards, i, j)), merge_group_global(SubSeq(shards, i, j))} :
          shards' = Splice(shards, i, j, s)
    BY <1>7 DEF Coalesce, Splice
  <2> HIDE DEF D
  <2>3. Accounted(G, sink, shards', D)
    BY <1>0, <2>1, <2>2, CoalesceStep
  <2>4. Accounted(G, sink', shards', CUs \ todo')
    BY <2>1, <2>3 DEF D
  <2> QED BY <1>0, <2>1, <2>4 DEF BuildInv
<1> QED BY <1>1, <1>2, <1>3, <1>4, <1>5, <1>6, <1>7 DEF Next

\* A build begins with it.
LEMMA BuildBegins ==
    ASSUME NEW CONSTANT G, Closed(G), Init
    PROVE  BuildInv(G)
<1> DEFINE t == [w \in Sinks |-> {}]
           E == [i \in 1..0 |-> i]
<1>1. todo = CUs /\ sink = [w \in Sinks |-> NewBuilder] /\ shards = <<>> /\ out = <<>>
  BY DEF Init
<1>2. NewBuilder \in Builders /\ <<NewBuilder, {}>> \in G
  BY Joins DEF Closed
<1>3. /\ <<>> \in Seq(Files) /\ Len(<<>>) = 0 /\ E \in [1..0 -> Builders] /\ E \in [1..0 -> SUBSET CUs]
      /\ \A i \in 1..Len(<<>>) : FALSE
  OBVIOUS
<1>4. /\ sink \in [Sinks -> Builders] /\ t \in [Sinks -> SUBSET CUs]
      /\ \A w \in Sinks : sink[w] = NewBuilder /\ t[w] = {}
  BY <1>1, <1>2
<1> HIDE DEF t, E
<1>5. Account(G, sink, <<>>, {}, t, {}, E, E)
  <2>1. \A w \in Sinks : <<sink[w], t[w]>> \in G
    BY <1>2, <1>4
  <2>2. \A e : e \in {} <=> \/ e \in {}
                            \/ \E v \in Sinks : e \in t[v]
                            \/ \E i \in 1..Len(<<>>) : e \in E[i]
    BY <1>3, <1>4
  <2> QED BY <1>2, <1>3, <1>4, <2>1, <2>2 DEF Account
<1>6. Idle(sink, t)
  BY <1>4 DEF Idle
<1>7. Accounted(G, sink, <<>>, {})
  BY <1>5, <1>6 DEF Accounted
<1>8. CUs \ todo = {}
  BY <1>1
<1> QED BY <1>1, <1>7, <1>8 DEF BuildInv

\* SearchReady: every file the build writes has its sections in the order
\* the reader's binary search needs, one row per key, and its reverse tables
\* hold the edges of the forward ones.
THEOREM FilesSearchReady == Spec => []SearchReady
<1> DEFINE G == Builders \X SUBSET CUs
<1>1. Closed(G)
  <2>1. NewBuilder \in Builders
    BY Joins
  <2>2. \A b, d \in Builders : merge_from(b, d) \in Builders
    BY Joins
  <2>3. \A b \in Builders : Norm(b) \in Builders
    BY Normal
  <2>4. \A c \in CUs : \A b \in Ingested[c] : b \in Builders
    BY IngestedType
  <2> QED BY <2>1, <2>2, <2>3, <2>4 DEF Closed
<1> HIDE DEF G
<1>2. Init => BuildInv(G)
  BY <1>1, BuildBegins
<1>3. BuildInv(G) /\ [Next]_vars => BuildInv(G)'
  BY <1>1, BuildKeeps
<1>4. BuildInv(G) => SearchReady
  <2> SUFFICES ASSUME BuildInv(G), NEW ix \in ToSet(shards) \cup (IF out = <<>> THEN {} ELSE {out})
               PROVE  Ready(ix)
    BY DEF SearchReady, Ready
  <2>1. CASE ix \in ToSet(shards)
    <3>1. PICK i \in DOMAIN shards : ix = shards[i]
      BY <2>1 DEF ToSet
    <3>2. shards \in Seq(Files)
      BY DEF BuildInv, Accounted, Account
    <3>3. ix \in Files
      BY <3>1, <3>2
    <3> QED BY <3>3, FinishReady DEF Files
  <2>2. CASE out # <<>> /\ ix = out
    <3>1. PICK b \in Builders : out = finish(b)
      BY <2>2 DEF BuildInv, FileOf
    <3> QED BY <2>2, <3>1, FinishReady
  <2> QED BY <2>1, <2>2
<1> QED BY <1>2, <1>3, <1>4, PTL DEF Spec
-----------------------------------------------------------------------------
(* What a builder holds of a set of facts.                                 *)

\* The smallest string of each symbol of B is in A.
Covers(A, B) == A \subseteq B /\ \A r \in B : \E q \in A : q[1] = r[1] /\ q[2] <= r[2]

\* The language and the name of a symbol are among those the facts give it,
\* unknown only if they give none, and no name they give is better.
SymIs(e, F, s) ==
    /\ e[2] # UNK => e[2] \in KnownOf(F, s, 2)
    /\ e[2] = UNK => KnownOf(F, s, 2) = {}
    /\ e[3] = NoName \/ e[3] \in NamesOf(F, s)
    /\ \A m \in NamesOf(F, s) : ~ prefers_name(e[3], m)

\* What the builder b holds of the facts F, but for the kinds of symbols and
\* the aliases these hide.
Body(b, F) ==
    /\ b \in Builders /\ F \in SUBSET AllFacts(CUs)
    /\ b.xrefs = RowsOf(F, "xrefs") /\ b.inherits = RowsOf(F, "inherits")
    /\ b.calls = RowsOf(F, "calls") /\ b.childof = FlippedOf(F)
    /\ b.aliases \subseteq StrsOf(F, "aliases")
    /\ Covers(b.typed, StrsOf(F, "typed")) /\ Covers(b.sig, StrsOf(F, "sig"))
    /\ FileSet(b.files) = FilesOf(F)
    /\ DOMAIN b.syms = SymbolsOf(F)
    /\ \A s \in DOMAIN b.syms : SymIs(b.syms[s], F, s)

\* The kind of a symbol is among those K gives it, and unknown only if K
\* gives none; an alias is missing only if its symbol may be a variable.
KindsAre(b, F, K) ==
    /\ \A p \in K : p[1] \in DOMAIN b.syms
    /\ \A s \in DOMAIN b.syms : /\ b.syms[s][1] # UNK => <<s, b.syms[s][1]>> \in K
                                /\ b.syms[s][1] = UNK => \A p \in K : p[1] # s
    /\ \A a \in StrsOf(F, "aliases") \ b.aliases : <<a[1], KindVariable>> \in K

\* Of two sets of facts.
LEMMA OfBoth ==
    ASSUME NEW A, NEW B
    PROVE  /\ \A t : RowsOf(A \cup B, t) = RowsOf(A, t) \cup RowsOf(B, t)
           /\ \A t : StrsOf(A \cup B, t) = StrsOf(A, t) \cup StrsOf(B, t)
           /\ FilesOf(A \cup B) = FilesOf(A) \cup FilesOf(B)
           /\ SymbolsOf(A \cup B) = SymbolsOf(A) \cup SymbolsOf(B)
           /\ FlippedOf(A \cup B) = FlippedOf(A) \cup FlippedOf(B)
<1>1. \A t : RowsOf(A \cup B, t) = RowsOf(A, t) \cup RowsOf(B, t)
  BY DEF RowsOf
<1>2. \A t : StrsOf(A \cup B, t) = StrsOf(A, t) \cup StrsOf(B, t)
  BY DEF StrsOf
<1>3. FilesOf(A \cup B) = FilesOf(A) \cup FilesOf(B)
  BY DEF FilesOf
<1>4. SymbolsOf(A \cup B) = SymbolsOf(A) \cup SymbolsOf(B)
  BY DEF SymbolsOf
<1>5. FlippedOf(A \cup B) = FlippedOf(A) \cup FlippedOf(B)
  BY <1>1 DEF FlippedOf
<1> QED BY <1>1, <1>2, <1>3, <1>4, <1>5

\* What they say of one symbol.
LEMMA OfBothSym ==
    ASSUME NEW A, NEW B, NEW s
    PROVE  /\ KnownOf(A \cup B, s, 2) = KnownOf(A, s, 2) \cup KnownOf(B, s, 2)
           /\ NamesOf(A \cup B, s) = NamesOf(A, s) \cup NamesOf(B, s)
<1>1. KnownOf(A \cup B, s, 2) = KnownOf(A, s, 2) \cup KnownOf(B, s, 2)
  BY DEF KnownOf
<1>2. NamesOf(A \cup B, s) = NamesOf(A, s) \cup NamesOf(B, s)
  BY DEF NamesOf
<1> QED BY <1>1, <1>2

\* Facts say nothing of other symbols than theirs.
LEMMA OfOthers ==
    ASSUME NEW F, NEW s, s \notin SymbolsOf(F)
    PROVE  KnownOf(F, s, 2) = {} /\ NamesOf(F, s) \subseteq {NoName}
<1>1. \A f \in F : f[1] = "sym" => f[2] # s
  BY DEF SymbolsOf
<1>2. \A f \in F : f[1] = "name" /\ f[2] = s => f[3] = NoName
  BY DEF SymbolsOf
<1> QED BY <1>1, <1>2 DEF KnownOf, NamesOf

\* The facts of the units are facts, and their names strings.
LEMMA FactsTyped ==
    ASSUME NEW F \in SUBSET AllFacts(CUs)
    PROVE  /\ F \subseteq Fact
           /\ \A s : NamesOf(F, s) \subseteq Strings
           /\ \A t \in {"aliases", "typed", "sig"} : StrsOf(F, t) \subseteq StrRec
           /\ \A p, q \in FilesOf(F) : p[1] = q[1] => p = q
<1>1. F \subseteq Fact
  BY FactsAssumption DEF AllFacts
<1>2. ASSUME NEW s PROVE NamesOf(F, s) \subseteq Strings
  <2>1. \A f \in F : f[1] = "sym" => f[3] \in SymRow
    BY <1>1, FactCases
  <2>2. \A f \in F : f[1] = "name" => f[3] \in Strings
    BY <1>1, FactCases
  <2>3. \A e \in SymRow : e[3] \in Strings
    BY SymRecs
  <2> QED BY <2>1, <2>2, <2>3 DEF NamesOf
<1>3. ASSUME NEW t \in {"aliases", "typed", "sig"} PROVE StrsOf(F, t) \subseteq StrRec
  <2>1. \A f \in F : f[1] = t => f[2] \in Int /\ f[3] \in Strings
    BY <1>1, FactCases
  <2>2. \A s \in Int, n \in Strings \ {NoName} : <<s, n>> \in StrRec
    BY Pairs
  <2> QED BY <2>1, <2>2 DEF StrsOf
<1>4. ASSUME NEW p \in FilesOf(F), NEW q \in FilesOf(F), p[1] = q[1] PROVE p = q
  <2>1. PICK f \in F : f[1] = "file" /\ p = <<f[2], f[3]>>
    BY DEF FilesOf
  <2>2. PICK g \in F : g[1] = "file" /\ q = <<g[2], g[3]>>
    BY DEF FilesOf
  <2>3. f[2] = g[2]
    BY <1>4, <2>1, <2>2
  <2>4. PICK c, d \in CUs : f \in Facts[c] /\ g \in Facts[d]
    BY DEF AllFacts
  <2>5. f[3] = g[3]
    BY <2>1, <2>2, <2>3, <2>4, FactsAssumption
  <2> QED BY <2>1, <2>2, <2>3, <2>5
<1> QED BY <1>1, <1>2, <1>3, <1>4

\* prefers_name is a weak order in which no name is worse than none.
LEMMA NameOrder ==
    ASSUME NEW a \in Strings, NEW b \in Strings, NEW c \in Strings
    PROVE  /\ prefers_name(a, b) /\ prefers_name(b, c) => prefers_name(a, c)
           /\ ~ prefers_name(a, b) /\ ~ prefers_name(b, c) => ~ prefers_name(a, c)
           /\ ~ prefers_name(a, NoName)
           /\ ~ prefers_name(a, b) /\ ~ prefers_name(b, a) =>
                 a = b \/ (Degenerate(a) /\ Degenerate(b))
           /\ b # NoName => prefers_name(NoName, b)
BY NameAssumption, OrderAssumption
   DEF prefers_name, is_degenerate_name, is_ticket_name

\* The rows of one symbol are refined to a row of the facts of both.
LEMMA SymIsJoined ==
    ASSUME NEW A \in SUBSET AllFacts(CUs), NEW B \in SUBSET AllFacts(CUs), NEW s,
           NEW e \in SymRow, NEW d \in SymRow, SymIs(e, A, s), SymIs(d, B, s)
    PROVE  SymIs(Refine(e, d), A \cup B, s)
<1> DEFINE r == Refine(e, d)
           M == NamesOf(A, s)
           N == NamesOf(B, s)
           K == KnownOf(A, s, 2)
           L == KnownOf(B, s, 2)
<1>1. KnownOf(A \cup B, s, 2) = K \cup L /\ NamesOf(A \cup B, s) = M \cup N
  BY OfBothSym
<1>2. M \subseteq Strings /\ N \subseteq Strings /\ NoName \in Strings
  BY FactsTyped, NameAssumption
<1>3. /\ e[2] # UNK => e[2] \in K
      /\ e[2] = UNK => K = {}
      /\ e[3] = NoName \/ e[3] \in M
      /\ \A m \in M : ~ prefers_name(e[3], m)
  BY DEF SymIs
<1>4. /\ d[2] # UNK => d[2] \in L
      /\ d[2] = UNK => L = {}
      /\ d[3] = NoName \/ d[3] \in N
      /\ \A m \in N : ~ prefers_name(d[3], m)
  BY DEF SymIs
<1>5. r[2] = Known(e[2], d[2]) /\ r[3] = BetterName(e[3], d[3])
  BY DEF Refine
<1> HIDE DEF M, N, K, L, r
<1>6. /\ r[2] # UNK => r[2] \in K \cup L
      /\ r[2] = UNK => K \cup L = {}
  BY <1>3, <1>4, <1>5 DEF Known
<1>7. e[3] \in Strings /\ d[3] \in Strings
  BY SymRecs
<1>8. (r[3] = NoName \/ r[3] \in M \cup N) /\ \A m \in M \cup N : ~ prefers_name(r[3], m)
  <2>1. CASE prefers_name(e[3], d[3])
    <3>1. r[3] = d[3]
      BY <1>5, <2>1 DEF BetterName
    <3>2. \A m \in M : ~ prefers_name(d[3], m)
      BY <1>2, <1>3, <1>7, <2>1, NameOrder
    <3> QED BY <1>4, <3>1, <3>2
  <2>2. CASE ~ prefers_name(e[3], d[3])
    <3>1. r[3] = e[3]
      BY <1>5, <2>2 DEF BetterName
    <3>2. \A m \in N : ~ prefers_name(e[3], m)
      BY <1>2, <1>4, <1>7, <2>2, NameOrder
    <3> QED BY <1>3, <3>1, <3>2
  <2> QED BY <2>1, <2>2
<1>9. SymIs(r, A \cup B, s)
  BY <1>1, <1>6, <1>8 DEF SymIs
<1> QED BY <1>9 DEF r

\* A symbol the other facts are not about keeps its row.
LEMMA SymIsAlone ==
    ASSUME NEW A \in SUBSET AllFacts(CUs), NEW B \in SUBSET AllFacts(CUs), NEW s,
           NEW e \in SymRow, SymIs(e, A, s), s \notin SymbolsOf(B)
    PROVE  SymIs(e, A \cup B, s)
<1>1. /\ KnownOf(A \cup B, s, 2) = KnownOf(A, s, 2) \cup KnownOf(B, s, 2)
      /\ NamesOf(A \cup B, s) = NamesOf(A, s) \cup NamesOf(B, s)
  BY DEF KnownOf, NamesOf
<1>2. KnownOf(B, s, 2) = {} /\ NamesOf(B, s) \subseteq {NoName}
  BY OfOthers
<1>3. ~ prefers_name(e[3], NoName)
  BY DEF prefers_name
<1> QED BY <1>1, <1>2, <1>3 DEF SymIs

\* A builder joined to another holds what both hold.
LEMMA BodyJoined ==
    ASSUME NEW b, NEW d, NEW A, NEW B, Body(b, A), Body(d, B)
    PROVE  Body(merge_from(b, d), A \cup B)
<1> DEFINE m == merge_from(b, d)
           F == A \cup B
<1>1. /\ b \in Builders /\ d \in Builders /\ A \in SUBSET AllFacts(CUs) /\ B \in SUBSET AllFacts(CUs)
      /\ F \in SUBSET AllFacts(CUs)
  BY DEF Body
<1>2. m \in Builders
  BY <1>1, Joins
<1>3. /\ m.xrefs = b.xrefs \cup d.xrefs /\ m.inherits = b.inherits \cup d.inherits
      /\ m.calls = b.calls \cup d.calls /\ m.childof = b.childof \cup d.childof
      /\ m.aliases = b.aliases \cup d.aliases /\ m.typed = b.typed \cup d.typed /\ m.sig = b.sig \cup d.sig
      /\ m.syms = MergeSyms(b.syms, d.syms) /\ m.files = MergeFiles(b.files, d.files)
  BY DEF merge_from
<1>4. /\ \A t : RowsOf(F, t) = RowsOf(A, t) \cup RowsOf(B, t)
      /\ \A t : StrsOf(F, t) = StrsOf(A, t) \cup StrsOf(B, t)
      /\ FilesOf(F) = FilesOf(A) \cup FilesOf(B)
      /\ SymbolsOf(F) = SymbolsOf(A) \cup SymbolsOf(B)
      /\ FlippedOf(F) = FlippedOf(A) \cup FlippedOf(B)
  BY OfBoth
<1> HIDE DEF m
<1>5. /\ m.xrefs = RowsOf(F, "xrefs") /\ m.inherits = RowsOf(F, "inherits")
      /\ m.calls = RowsOf(F, "calls") /\ m.childof = FlippedOf(F)
      /\ m.aliases \subseteq StrsOf(F, "aliases")
  <2> HIDE DEF F
  <2> QED BY <1>3, <1>4 DEF Body
<1>6. Covers(m.typed, StrsOf(F, "typed")) /\ Covers(m.sig, StrsOf(F, "sig"))
  <2> HIDE DEF F
  <2>1. \A P, Q, R, S : Covers(P, Q) /\ Covers(R, S) => Covers(P \cup R, Q \cup S)
    BY DEF Covers
  <2>2. Covers(b.typed \cup d.typed, StrsOf(A, "typed") \cup StrsOf(B, "typed"))
    BY <2>1 DEF Body
  <2>3. Covers(b.sig \cup d.sig, StrsOf(A, "sig") \cup StrsOf(B, "sig"))
    BY <2>1 DEF Body
  <2> QED BY <1>3, <1>4, <2>2, <2>3
<1>7. FileSet(m.files) = FilesOf(F)
  <2>1. FileSet(b.files) = FilesOf(A) /\ FileSet(d.files) = FilesOf(B)
    BY DEF Body
  <2>2. \A p, q \in FilesOf(F) : p[1] = q[1] => p = q
    BY <1>1, FactsTyped
  <2>3. ASSUME NEW i \in DOMAIN b.files, i \in DOMAIN d.files PROVE b.files[i] = d.files[i]
    <3>1. <<i, b.files[i]>> \in FilesOf(F) /\ <<i, d.files[i]>> \in FilesOf(F)
      BY <1>4, <2>1, <2>3 DEF FileSet
    <3>2. <<i, b.files[i]>> = <<i, d.files[i]>>
      BY <2>2, <3>1
    <3> QED BY <3>2
  <2> DEFINE f == b.files
             g == d.files
  <2>4. FileSet(MergeFiles(f, g)) = FileSet(f) \cup FileSet(g)
    <3>1. \A i \in DOMAIN f : i \in DOMAIN g => f[i] = g[i]
      BY <2>3
    <3> HIDE DEF f, g
    <3> QED BY <3>1 DEF FileSet, MergeFiles
  <2> QED BY <1>3, <1>4, <2>1, <2>4
<1>8. DOMAIN m.syms = DOMAIN b.syms \cup DOMAIN d.syms /\ DOMAIN m.syms = SymbolsOf(F)
  BY <1>3, <1>4 DEF MergeSyms, Body
<1>9. ASSUME NEW s \in DOMAIN m.syms PROVE SymIs(m.syms[s], F, s)
  <2>1. DOMAIN b.syms = SymbolsOf(A) /\ DOMAIN d.syms = SymbolsOf(B)
    BY DEF Body
  <2>2. /\ \A u \in DOMAIN b.syms : b.syms[u] \in SymRow /\ SymIs(b.syms[u], A, u)
        /\ \A u \in DOMAIN d.syms : d.syms[u] \in SymRow /\ SymIs(d.syms[u], B, u)
    BY <1>1, FiniteParts DEF Body, Builders, IsMap
  <2>3. CASE s \notin DOMAIN d.syms
    <3>1. m.syms[s] = b.syms[s] /\ s \in DOMAIN b.syms
      BY <1>3, <1>8, <2>3 DEF MergeSyms
    <3>2. SymIs(b.syms[s], A \cup B, s)
      BY <1>1, <2>1, <2>2, <2>3, <3>1, SymIsAlone
    <3> QED BY <3>1, <3>2
  <2>4. CASE s \in DOMAIN d.syms /\ s \notin DOMAIN b.syms
    <3>1. m.syms[s] = d.syms[s]
      BY <1>3, <1>8, <2>4 DEF MergeSyms
    <3>2. SymIs(d.syms[s], B \cup A, s)
      BY <1>1, <2>1, <2>2, <2>4, SymIsAlone
    <3>3. B \cup A = A \cup B
      OBVIOUS
    <3> QED BY <3>1, <3>2, <3>3
  <2>5. CASE s \in DOMAIN d.syms /\ s \in DOMAIN b.syms
    <3>1. m.syms[s] = Refine(b.syms[s], d.syms[s])
      BY <1>3, <1>8, <2>5 DEF MergeSyms
    <3> DEFINE e == b.syms[s]
               k == d.syms[s]
    <3>2. e \in SymRow /\ k \in SymRow /\ SymIs(e, A, s) /\ SymIs(k, B, s)
      BY <2>2, <2>5
    <3> HIDE DEF e, k
    <3>3. SymIs(Refine(e, k), A \cup B, s)
      BY <1>1, <3>2, SymIsJoined
    <3> QED BY <3>1, <3>3 DEF e, k
  <2> QED BY <2>3, <2>4, <2>5
<1> HIDE DEF F
<1>10. Body(m, F)
  BY <1>1, <1>2, <1>5, <1>6, <1>7, <1>8, <1>9 DEF Body
<1> QED BY <1>10 DEF m, F

\* So are the kinds.
LEMMA KindsJoined ==
    ASSUME NEW b \in Builders, NEW d \in Builders, NEW A, NEW B, NEW K, NEW L,
           KindsAre(b, A, K), KindsAre(d, B, L)
    PROVE  KindsAre(merge_from(b, d), A \cup B, K \cup L)
<1> DEFINE m == merge_from(b, d)
<1>1. m.syms = MergeSyms(b.syms, d.syms) /\ m.aliases = b.aliases \cup d.aliases
  BY DEF merge_from
<1>2. DOMAIN m.syms = DOMAIN b.syms \cup DOMAIN d.syms
  BY <1>1 DEF MergeSyms
<1> HIDE DEF m
<1>3. /\ \A p \in K : p[1] \in DOMAIN b.syms
      /\ \A p \in L : p[1] \in DOMAIN d.syms
  BY DEF KindsAre
<1>4. ASSUME NEW s \in DOMAIN m.syms
      PROVE  /\ m.syms[s][1] # UNK => <<s, m.syms[s][1]>> \in K \cup L
             /\ m.syms[s][1] = UNK => \A p \in K \cup L : p[1] # s
  <2>1. CASE s \notin DOMAIN d.syms
    <3>1. m.syms[s] = b.syms[s] /\ s \in DOMAIN b.syms
      BY <1>1, <1>2, <2>1 DEF MergeSyms
    <3> QED BY <1>3, <2>1, <3>1 DEF KindsAre
  <2>2. CASE s \in DOMAIN d.syms /\ s \notin DOMAIN b.syms
    <3>1. m.syms[s] = d.syms[s]
      BY <1>1, <1>2, <2>2 DEF MergeSyms
    <3> QED BY <1>3, <2>2, <3>1 DEF KindsAre
  <2>3. CASE s \in DOMAIN d.syms /\ s \in DOMAIN b.syms
    <3>1. m.syms[s] = Refine(b.syms[s], d.syms[s])
      BY <1>1, <1>2, <2>3 DEF MergeSyms
    <3>2. m.syms[s][1] = Known(b.syms[s][1], d.syms[s][1])
      BY <3>1 DEF Refine
    <3> QED BY <2>3, <3>2 DEF KindsAre, Known
  <2> QED BY <2>1, <2>2, <2>3
<1>5. \A a \in StrsOf(A \cup B, "aliases") \ m.aliases : <<a[1], KindVariable>> \in K \cup L
  <2>1. StrsOf(A \cup B, "aliases") = StrsOf(A, "aliases") \cup StrsOf(B, "aliases")
    BY DEF StrsOf
  <2> QED BY <1>1, <2>1 DEF KindsAre
<1>6. \A p \in K \cup L : p[1] \in DOMAIN m.syms
  BY <1>2, <1>3
<1>7. KindsAre(m, A \cup B, K \cup L)
  BY <1>4, <1>5, <1>6 DEF KindsAre
<1> QED BY <1>7 DEF m

\* Writing a builder and reading it back keeps what it holds.
LEMMA NormHolds ==
    ASSUME NEW b, NEW F, NEW K, Body(b, F), KindsAre(b, F, K)
    PROVE  Body(Norm(b), F) /\ KindsAre(Norm(b), F, K)
<1> DEFINE m == Norm(b)
<1>1. b \in Builders /\ m \in Builders
  BY Normal DEF Body
<1>2. /\ m.xrefs = b.xrefs /\ m.inherits = b.inherits /\ m.calls = b.calls /\ m.childof = b.childof
      /\ m.aliases = Shown(b.syms, b.aliases) /\ m.typed = Least(b.typed) /\ m.sig = Least(b.sig)
      /\ m.syms = b.syms /\ m.files = b.files
  BY DEF Norm
<1> HIDE DEF m
<1>3. \A S \in SUBSET StrRec, T \in SUBSET StrRec : Covers(S, T) => Covers(Least(S), T)
  <2> SUFFICES ASSUME NEW S \in SUBSET StrRec, NEW T \in SUBSET StrRec, Covers(S, T) PROVE Covers(Least(S), T)
    OBVIOUS
  <2>1. Least(S) \in SUBSET S /\ \A r \in S : \E q \in Least(S) : q[1] = r[1] /\ q[2] <= r[2]
    BY LeastRows
  <2>2. \A r \in StrRec : r[2] \in Int
    BY DEF StrRec, Tuple
  <2>3. ASSUME NEW r \in T PROVE \E q \in Least(S) : q[1] = r[1] /\ q[2] <= r[2]
    <3>1. PICK p \in S : p[1] = r[1] /\ p[2] <= r[2]
      BY DEF Covers
    <3>2. PICK q \in Least(S) : q[1] = p[1] /\ q[2] <= p[2]
      BY <2>1
    <3>3. r[2] \in Int /\ p[2] \in Int /\ q[2] \in Int
      BY <2>1, <2>2
    <3> QED BY <3>1, <3>2, <3>3
  <2> QED BY <2>1, <2>3 DEF Covers
<1>4. /\ b.typed \in SUBSET StrRec /\ b.sig \in SUBSET StrRec
      /\ StrsOf(F, "typed") \in SUBSET StrRec /\ StrsOf(F, "sig") \in SUBSET StrRec
  BY <1>1, FactsTyped DEF Body, Builders, Fin
<1>5. Covers(m.typed, StrsOf(F, "typed")) /\ Covers(m.sig, StrsOf(F, "sig"))
  BY <1>2, <1>3, <1>4 DEF Body
<1>6. m.aliases \subseteq StrsOf(F, "aliases")
  BY <1>2 DEF Body, Shown
<1>7. Body(m, F)
  BY <1>1, <1>2, <1>5, <1>6 DEF Body
<1>8. \A a \in StrsOf(F, "aliases") \ m.aliases : <<a[1], KindVariable>> \in K
  <2> SUFFICES ASSUME NEW a \in StrsOf(F, "aliases") \ m.aliases PROVE <<a[1], KindVariable>> \in K
    OBVIOUS
  <2>1. CASE a \notin b.aliases
    BY <2>1 DEF KindsAre
  <2>2. CASE a \in b.aliases
    <3>1. a[1] \in DOMAIN b.syms /\ b.syms[a[1]][1] = KindVariable
      BY <1>2, <2>2 DEF Shown, VarSyms
    <3>2. KindVariable # UNK
      BY DEF KindVariable, UNK
    <3> QED BY <3>1, <3>2 DEF KindsAre
  <2> QED BY <2>1, <2>2
<1>9. KindsAre(m, F, K)
  BY <1>2, <1>8 DEF KindsAre
<1> QED BY <1>7, <1>9 DEF m
-----------------------------------------------------------------------------
(* What a unit's builder holds.                                            *)

\* The builder of one fact holds it.
LEMMA BodyOf ==
    ASSUME NEW f \in AllFacts(CUs)
    PROVE  Body(Of(f), {f})
<1> DEFINE b == Of(f)
           F == {f}
<1>1. F \in SUBSET AllFacts(CUs) /\ f \in Fact
  BY FactsTyped
<1>2. b \in Builders
  BY <1>1, OfIsBuilder
<1>3. /\ b.xrefs = RowsOf(F, "xrefs") /\ b.inherits = RowsOf(F, "inherits") /\ b.calls = RowsOf(F, "calls")
      /\ b.childof = FlippedOf(F) /\ b.aliases = StrsOf(F, "aliases") /\ b.typed = StrsOf(F, "typed")
      /\ b.sig = StrsOf(F, "sig") /\ b.syms = OneSym(f) /\ b.files = OneFile(f)
  BY DEF Of
<1> HIDE DEF b
<1>4. \A t \in {"typed", "sig"} : Covers(StrsOf(F, t), StrsOf(F, t))
  <2>1. \A t \in {"typed", "sig"} : StrsOf(F, t) \subseteq StrRec
    BY <1>1, FactsTyped
  <2>2. \A r \in StrRec : r[2] \in Int
    BY DEF StrRec, Tuple
  <2> HIDE DEF F
  <2> QED BY <2>1, <2>2 DEF Covers
<1>5. FileSet(b.files) = FilesOf(F)
  <2>1. CASE f[1] = "file"
    <3>1. OneFile(f) = Only(f[2], f[3])
      BY <2>1 DEF OneFile
    <3>2. FileSet(Only(f[2], f[3])) = {<<f[2], f[3]>>}
      BY DEF FileSet, Only
    <3> QED BY <1>3, <2>1, <3>1, <3>2, OfOne
  <2>2. CASE f[1] # "file"
    <3>1. FileSet(<<>>) = {}
      BY DEF FileSet
    <3> QED BY <1>3, <2>2, <3>1, OfOne DEF OneFile
  <2> QED BY <2>1, <2>2
<1>6. DOMAIN b.syms = SymbolsOf(F) /\ \A s \in DOMAIN b.syms : SymIs(b.syms[s], F, s)
  <2>1. CASE f[1] = "sym"
    <3>1. b.syms = Only(f[2], f[3]) /\ f[3] \in SymRow
      BY <1>1, <1>3, <2>1, FactCases DEF OneSym
    <3>2. SymbolsOf(F) = {f[2]}
      BY <2>1, OfOne
    <3>3. KnownOf(F, f[2], 2) = {f[3][2]} \ {UNK} /\ NamesOf(F, f[2]) = {f[3][3]}
      BY <2>1 DEF KnownOf, NamesOf
    <3>4. ~ prefers_name(f[3][3], f[3][3])
      <4>1. f[3][3] \in Strings
        BY <3>1, SymRecs
      <4> QED BY <4>1, NameAssumption DEF prefers_name
    <3>5. SymIs(f[3], F, f[2])
      BY <3>3, <3>4 DEF SymIs
    <3>6. DOMAIN b.syms = {f[2]} /\ b.syms[f[2]] = f[3]
      BY <3>1 DEF Only
    <3> HIDE DEF F
    <3> QED BY <3>2, <3>5, <3>6
  <2>2. CASE f[1] = "name" /\ f[3] # NoName
    <3> DEFINE e == <<UNK, UNK, f[3]>>
    <3>1. b.syms = Only(f[2], e) /\ f[3] \in Strings
      BY <1>1, <1>3, <2>2, FactCases DEF OneSym
    <3>2. SymbolsOf(F) = {f[2]}
      BY <2>2, OfOne
    <3>3. KnownOf(F, f[2], 2) = {} /\ NamesOf(F, f[2]) = {f[3]}
      BY <2>2 DEF KnownOf, NamesOf
    <3>4. ~ prefers_name(f[3], f[3])
      BY <3>1, NameAssumption DEF prefers_name
    <3>5. SymIs(e, F, f[2])
      BY <3>3, <3>4 DEF SymIs
    <3> HIDE DEF e
    <3>6. DOMAIN b.syms = {f[2]} /\ b.syms[f[2]] = e
      BY <3>1 DEF Only
    <3> HIDE DEF F
    <3> QED BY <3>2, <3>5, <3>6
  <2>3. CASE f[1] = "field"
    <3> DEFINE e == <<KindField, UNK, NoName>>
    <3>1. b.syms = Only(f[2], e)
      BY <1>3, <2>3 DEF OneSym
    <3>2. SymbolsOf(F) = {f[2]}
      BY <2>3, OfOne
    <3>3. KnownOf(F, f[2], 2) = {} /\ NamesOf(F, f[2]) = {}
      BY <2>3 DEF KnownOf, NamesOf
    <3>5. SymIs(e, F, f[2])
      BY <3>3 DEF SymIs
    <3> HIDE DEF e
    <3>6. DOMAIN b.syms = {f[2]} /\ b.syms[f[2]] = e
      BY <3>1 DEF Only
    <3> HIDE DEF F
    <3> QED BY <3>2, <3>5, <3>6
  <2>4. CASE f[1] # "sym" /\ ~ (f[1] = "name" /\ f[3] # NoName) /\ f[1] # "field"
    <3>1. b.syms = <<>>
      BY <1>3, <2>4 DEF OneSym
    <3>2. SymbolsOf(F) = {}
      BY <2>4, OfOne
    <3>3. DOMAIN b.syms = {}
      BY <3>1, FiniteParts
    <3> HIDE DEF F
    <3> QED BY <3>2, <3>3
  <2> QED BY <2>1, <2>2, <2>3, <2>4
<1>7. /\ b \in Builders /\ F \in SUBSET AllFacts(CUs)
      /\ b.xrefs = RowsOf(F, "xrefs") /\ b.inherits = RowsOf(F, "inherits")
      /\ b.calls = RowsOf(F, "calls") /\ b.childof = FlippedOf(F)
      /\ b.aliases \subseteq StrsOf(F, "aliases")
      /\ Covers(b.typed, StrsOf(F, "typed")) /\ Covers(b.sig, StrsOf(F, "sig"))
  BY <1>1, <1>2, <1>3, <1>4
<1> HIDE DEF F
<1>8. Body(b, F)
  BY <1>5, <1>6, <1>7 DEF Body
<1> QED BY <1>8 DEF b, F

\* The kinds of symbols are no part of it.
LEMMA BodyButKinds ==
    ASSUME NEW c, NEW m, NEW F, Body(m, F), ButKinds(c, m)
    PROVE  Body(c, F)
<1>1. \A s \in DOMAIN c.syms : SymIs(c.syms[s], F, s)
  <2> SUFFICES ASSUME NEW s \in DOMAIN c.syms PROVE SymIs(c.syms[s], F, s)
    OBVIOUS
  <2>1. SymIs(m.syms[s], F, s) /\ c.syms[s][2] = m.syms[s][2] /\ c.syms[s][3] = m.syms[s][3]
    BY DEF Body, ButKinds
  <2> QED BY <2>1 DEF SymIs
<1> QED BY <1>1 DEF Body, ButKinds

\* A kind that is one of X, or unknown if X gives none.
KindIs(k, X) == (k # UNK => k \in X) /\ (k = UNK => X = {})

KindsOf(F) == {p \in Int \X Int : p[2] \in Kinds(F, p[1])}

\* The kinds that facts give.
LEMMA KindsTyped ==
    ASSUME NEW F \in SUBSET AllFacts(CUs), NEW s
    PROVE  /\ Kinds(F, s) \subseteq Int
           /\ s \notin SymbolsOf(F) => Kinds(F, s) = {}
           /\ s \in SymbolsOf(F) => s \in Int
<1>1. F \subseteq Fact
  BY FactsTyped
<1>2. \A f \in F : f[1] = "sym" => f[3] \in SymRow
  BY <1>1, FactCases
<1>3. \A e \in SymRow : e[1] \in Int
  BY SymRecs
<1>4. KnownOf(F, s, 1) \subseteq Int
  BY <1>2, <1>3 DEF KnownOf
<1>5. Kinds(F, s) \subseteq Int
  BY <1>4 DEF Kinds, KindField
<1>6. ASSUME s \notin SymbolsOf(F) PROVE Kinds(F, s) = {}
  <2>1. \A f \in F : f[1] \in {"sym", "field"} => f[2] # s
    BY <1>6 DEF SymbolsOf
  <2>2. <<"field", s>> \notin F
    <3>1. <<"field", s>>[1] = "field" /\ <<"field", s>>[2] = s
      OBVIOUS
    <3> QED BY <2>1, <3>1
  <2>3. KnownOf(F, s, 1) = {}
    BY <2>1 DEF KnownOf
  <2> QED BY <2>2, <2>3 DEF Kinds
<1>7. ASSUME s \in SymbolsOf(F) PROVE s \in Int
  <2>1. PICK f \in F : f[2] = s /\ f[1] \in {"sym", "field", "name"}
    BY <1>7 DEF SymbolsOf
  <2> QED BY <1>1, <2>1, FactCases
<1> QED BY <1>5, <1>6, <1>7

\* What a unit's builder holds of its facts: all the aliases, and of each
\* symbol a kind of the unit.
Unit(b, F) ==
    /\ Body(b, F)
    /\ b.aliases = StrsOf(F, "aliases")
    /\ \A s \in DOMAIN b.syms : KindIs(b.syms[s][1], Kinds(F, s))

\* That is what KindsAre says.
LEMMA UnitHolds ==
    ASSUME NEW b, NEW F, Unit(b, F)
    PROVE  KindsAre(b, F, KindsOf(F))
<1>1. F \in SUBSET AllFacts(CUs) /\ DOMAIN b.syms = SymbolsOf(F) /\ b.aliases = StrsOf(F, "aliases")
  BY DEF Unit, Body
<1>2. \A p \in KindsOf(F) : p[1] \in DOMAIN b.syms
  <2> SUFFICES ASSUME NEW p \in KindsOf(F) PROVE p[1] \in DOMAIN b.syms
    OBVIOUS
  <2>1. Kinds(F, p[1]) # {}
    BY DEF KindsOf
  <2> QED BY <1>1, <2>1, KindsTyped
<1>3. ASSUME NEW s \in DOMAIN b.syms
      PROVE  /\ b.syms[s][1] # UNK => <<s, b.syms[s][1]>> \in KindsOf(F)
             /\ b.syms[s][1] = UNK => \A p \in KindsOf(F) : p[1] # s
  <2>1. KindIs(b.syms[s][1], Kinds(F, s)) /\ s \in Int /\ Kinds(F, s) \subseteq Int
    BY <1>1, KindsTyped DEF Unit
  <2> DEFINE k == b.syms[s][1]
  <2> HIDE DEF k
  <2>2. (k # UNK => k \in Kinds(F, s)) /\ (k = UNK => Kinds(F, s) = {})
    BY <2>1 DEF KindIs, k
  <2>3. k # UNK => <<s, k>> \in KindsOf(F)
    BY <2>1, <2>2 DEF KindsOf
  <2>4. k = UNK => \A p \in KindsOf(F) : p[1] # s
    BY <2>2 DEF KindsOf
  <2> QED BY <2>3, <2>4 DEF k
<1> QED BY <1>1, <1>2, <1>3 DEF KindsAre

\* How the kinds X that facts give a symbol become Y with one more fact.
KindRule(f, s, X, Y) ==
    /\ f[1] \notin {"sym", "field"} \/ f[2] # s => Y = X
    /\ f[1] = "field" /\ f[2] = s => Y = {KindField}
    /\ f[1] = "sym" /\ f[2] = s =>
          (Y = {KindField} /\ X = {KindField}) \/ Y = X \cup ({f[3][1]} \ {UNK})

\* One more fact changes the kinds so.
LEMMA KindsOneMore ==
    ASSUME NEW P \in SUBSET AllFacts(CUs), NEW f \in AllFacts(CUs), NEW s
    PROVE  KindRule(f, s, Kinds(P, s), Kinds(P \cup {f}, s))
<1>0. f \in Fact
  BY FactsTyped
<1>1. <<"field", s>>[1] = "field" /\ <<"field", s>>[2] = s
  OBVIOUS
<1>2. ASSUME f[1] \notin {"sym", "field"} \/ f[2] # s PROVE Kinds(P \cup {f}, s) = Kinds(P, s)
  <2>1. f # <<"field", s>>
    BY <1>1, <1>2
  <2>2. KnownOf(P \cup {f}, s, 1) = KnownOf(P, s, 1)
    BY <1>2 DEF KnownOf
  <2> QED BY <2>1, <2>2 DEF Kinds
<1>3. ASSUME f[1] = "field" /\ f[2] = s PROVE Kinds(P \cup {f}, s) = {KindField}
  <2>1. f = <<"field", s>>
    BY <1>0, <1>3, FactCases
  <2>2. <<"field", s>> \in P \cup {f}
    BY <2>1
  <2> QED BY <2>2 DEF Kinds
<1>4. ASSUME f[1] = "sym" /\ f[2] = s
      PROVE  \/ Kinds(P \cup {f}, s) = {KindField} /\ Kinds(P, s) = {KindField}
             \/ Kinds(P \cup {f}, s) = Kinds(P, s) \cup ({f[3][1]} \ {UNK})
  <2>1. f # <<"field", s>>
    BY <1>1, <1>4
  <2>2. KnownOf(P \cup {f}, s, 1) = KnownOf(P, s, 1) \cup ({f[3][1]} \ {UNK})
    BY <1>4 DEF KnownOf
  <2> QED BY <2>1, <2>2 DEF Kinds
<1> QED BY <1>2, <1>3, <1>4 DEF KindRule

\* What it does to the kind of a symbol in the builder.
LEMMA KindStep ==
    ASSUME NEW b, NEW P \in SUBSET AllFacts(CUs), NEW f \in AllFacts(CUs), Unit(b, P),
           NEW s \in DOMAIN Apply(b, f).syms
    PROVE  KindIs(Apply(b, f).syms[s][1], Kinds(P \cup {f}, s))
<1> DEFINE c == Apply(b, f)
           X == Kinds(P, s)
           Y == Kinds(P \cup {f}, s)
<1>0. f \in Fact /\ b \in Builders /\ DOMAIN b.syms = SymbolsOf(P)
  BY FactsTyped DEF Unit, Body
<1>1. s \in DOMAIN b.syms => KindIs(b.syms[s][1], X)
  BY DEF Unit
<1>2. s \notin DOMAIN b.syms => X = {}
  BY <1>0, KindsTyped
<1>a. KindRule(f, s, X, Y)
  BY KindsOneMore
<1> HIDE DEF X, Y
<1>3. /\ f[1] \notin {"sym", "field"} \/ f[2] # s => Y = X
      /\ f[1] = "field" /\ f[2] = s => Y = {KindField}
      /\ f[1] = "sym" /\ f[2] = s =>
            (Y = {KindField} /\ X = {KindField}) \/ Y = X \cup ({f[3][1]} \ {UNK})
  BY <1>a DEF KindRule
<1>4. CASE f[1] = "field"
  <2>1. /\ DOMAIN c.syms = DOMAIN b.syms \cup {f[2]}
        /\ c.syms[f[2]][1] = KindField
        /\ \A u \in DOMAIN b.syms \ {f[2]} : c.syms[u] = b.syms[u]
    BY <1>0, <1>4, ApplyMarks
  <2> HIDE DEF c
  <2>2. CASE s = f[2]
    <3>1. c.syms[s][1] = KindField /\ Y = {KindField}
      BY <1>3, <1>4, <2>1, <2>2
    <3> QED BY <3>1 DEF KindIs, KindField, UNK, c, Y
  <2>3. CASE s # f[2]
    <3>1. s \in DOMAIN b.syms /\ c.syms[s] = b.syms[s] /\ Y = X
      BY <1>3, <2>1, <2>3 DEF c
    <3> QED BY <1>1, <3>1 DEF c, Y
  <2> QED BY <2>2, <2>3
<1>5. CASE f[1] # "field"
  <2>1. c = merge_from(b, Of(f))
    BY <1>0, <1>5, ApplyJoins
  <2>2. c.syms = MergeSyms(b.syms, OneSym(f))
    BY <2>1 DEF merge_from, Of
  <2> HIDE DEF c
  <2>3. CASE f[1] = "sym"
    <3>1. DOMAIN OneSym(f) = {f[2]} /\ OneSym(f)[f[2]] = f[3]
      BY <2>3 DEF OneSym, Only
    <3>2. CASE s # f[2]
      <4>1. s \in DOMAIN b.syms /\ c.syms[s] = b.syms[s] /\ Y = X
        BY <1>3, <2>2, <3>1, <3>2 DEF MergeSyms, c
      <4> QED BY <1>1, <4>1 DEF c, Y
    <3>3. CASE s = f[2] /\ s \in DOMAIN b.syms
      <4>1. c.syms[s] = Refine(b.syms[s], f[3])
        BY <2>2, <3>1, <3>3 DEF MergeSyms
      <4>2. c.syms[s][1] = Known(b.syms[s][1], f[3][1])
        BY <4>1 DEF Refine
      <4> DEFINE k == b.syms[s][1]
                 l == f[3][1]
      <4> HIDE DEF k, l
      <4>3. KindIs(k, X)
        BY <1>1, <3>3 DEF k
      <4>4. (Y = {KindField} /\ X = {KindField}) \/ Y = X \cup ({l} \ {UNK})
        BY <1>3, <2>3, <3>3 DEF l
      <4>5. KindIs(Known(k, l), Y)
        BY <4>3, <4>4 DEF KindIs, Known
      <4> QED BY <4>2, <4>5 DEF k, l, c, Y
    <3>4. CASE s = f[2] /\ s \notin DOMAIN b.syms
      <4>1. c.syms[s] = f[3]
        BY <2>2, <3>1, <3>4 DEF MergeSyms
      <4>2. X = {}
        BY <1>2, <3>4
      <4>3. Y = {f[3][1]} \ {UNK}
        BY <1>3, <2>3, <3>4, <4>2
      <4> QED BY <4>1, <4>3 DEF KindIs, c, Y
    <3> QED BY <3>2, <3>3, <3>4
  <2>4. CASE f[1] # "sym"
    <3>1. Y = X
      BY <1>3, <1>5, <2>4
    <3>2. CASE f[1] = "name" /\ f[3] # NoName
      <4> DEFINE e == <<UNK, UNK, f[3]>>
      <4>1. DOMAIN OneSym(f) = {f[2]} /\ OneSym(f)[f[2]] = e /\ e[1] = UNK
        BY <3>2 DEF OneSym, Only
      <4> HIDE DEF e
      <4>2. CASE s # f[2]
        <5>1. s \in DOMAIN b.syms /\ c.syms[s] = b.syms[s]
          BY <2>2, <4>1, <4>2 DEF MergeSyms, c
        <5> QED BY <1>1, <3>1, <5>1 DEF c, Y
      <4>3. CASE s = f[2] /\ s \in DOMAIN b.syms
        <5>1. c.syms[s] = Refine(b.syms[s], e)
          BY <2>2, <4>1, <4>3 DEF MergeSyms
        <5>2. c.syms[s][1] = Known(b.syms[s][1], UNK)
          BY <4>1, <5>1 DEF Refine
        <5>3. c.syms[s][1] = b.syms[s][1]
          BY <5>2 DEF Known
        <5> QED BY <1>1, <3>1, <4>3, <5>3 DEF c, Y
      <4>4. CASE s = f[2] /\ s \notin DOMAIN b.syms
        <5>1. c.syms[s] = e
          BY <2>2, <4>1, <4>4 DEF MergeSyms
        <5>2. Y = {}
          BY <1>2, <3>1, <4>4
        <5> QED BY <4>1, <5>1, <5>2 DEF KindIs, c, Y
      <4> QED BY <4>2, <4>3, <4>4
    <3>3. CASE ~ (f[1] = "name" /\ f[3] # NoName)
      <4>1. DOMAIN OneSym(f) = {}
        BY <1>5, <2>4, <3>3, FiniteParts DEF OneSym
      <4>2. s \in DOMAIN b.syms /\ c.syms[s] = b.syms[s]
        BY <2>2, <4>1 DEF MergeSyms, c
      <4> QED BY <1>1, <3>1, <4>2 DEF c, Y
    <3> QED BY <3>2, <3>3
  <2> QED BY <2>3, <2>4
<1> QED BY <1>4, <1>5

\* One more fact.
LEMMA UnitStep ==
    ASSUME NEW b, NEW P \in SUBSET AllFacts(CUs), NEW f \in AllFacts(CUs), Unit(b, P)
    PROVE  Unit(Apply(b, f), P \cup {f})
<1> DEFINE c == Apply(b, f)
           m == merge_from(b, Of(f))
           F == P \cup {f}
<1>1. f \in Fact /\ b \in Builders
  BY FactsTyped DEF Unit, Body
<1>2. Body(m, F)
  <2>1. Body(b, P) /\ Body(Of(f), {f})
    BY BodyOf DEF Unit
  <2> DEFINE o == Of(f)
  <2> HIDE DEF o
  <2> QED BY <2>1, BodyJoined DEF o
<1>3. c = m \/ ButKinds(c, m)
  BY <1>1, ApplyJoins, ApplyMarks
<1>4. m.aliases = b.aliases \cup StrsOf({f}, "aliases")
  BY DEF merge_from, Of
<1>5. StrsOf(F, "aliases") = StrsOf(P, "aliases") \cup StrsOf({f}, "aliases")
  BY DEF StrsOf
<1>6. \A s \in DOMAIN c.syms : KindIs(c.syms[s][1], Kinds(F, s))
  BY KindStep
<1> HIDE DEF c, m, F
<1>7. Body(c, F)
  BY <1>2, <1>3, BodyButKinds
<1>8. c.aliases = StrsOf(F, "aliases")
  BY <1>3, <1>4, <1>5 DEF Unit, ButKinds
<1>9. Unit(c, F)
  BY <1>6, <1>7, <1>8 DEF Unit
<1> QED BY <1>9 DEF c, F

\* An empty builder holds no facts.
LEMMA UnitBegins == Unit(NewBuilder, {})
<1>1. /\ NewBuilder.xrefs = {} /\ NewBuilder.inherits = {} /\ NewBuilder.calls = {}
      /\ NewBuilder.childof = {} /\ NewBuilder.aliases = {} /\ NewBuilder.typed = {}
      /\ NewBuilder.sig = {} /\ NewBuilder.syms = <<>> /\ NewBuilder.files = <<>>
      /\ NewBuilder \in Builders
  BY Joins DEF NewBuilder
<1>2. /\ \A t : RowsOf({}, t) = {} /\ StrsOf({}, t) = {}
      /\ FilesOf({}) = {} /\ SymbolsOf({}) = {}
  BY DEF RowsOf, StrsOf, FilesOf, SymbolsOf
<1>3. FlippedOf({}) = {}
  BY <1>2 DEF FlippedOf
<1>4. DOMAIN <<>> = {} /\ FileSet(<<>>) = {} /\ Covers({}, {})
  BY FiniteParts DEF FileSet, Covers
<1> QED BY <1>1, <1>2, <1>3, <1>4 DEF Unit, Body

\* A unit's builder holds the unit's facts, in whatever order they came.
LEMMA IngestedHolds ==
    ASSUME NEW u \in CUs, NEW b \in Ingested[u]
    PROVE  Unit(b, Facts[u])
<1>1. PICK h, n, q : IngestStages(h, n, q, u) /\ b = h[n]
  BY IngestedBy
<1>2. /\ n \in Nat /\ q \in [1..n -> Facts[u]] /\ Facts[u] = {q[i] : i \in 1..n}
      /\ h[0] = NewBuilder /\ \A k \in 1..n : h[k] = Apply(h[k - 1], q[k])
  BY <1>1 DEF IngestStages, ApplyStages
<1>3. Facts[u] \subseteq AllFacts(CUs)
  BY DEF AllFacts
<1> DEFINE P(k) == {q[i] : i \in 1..k}
           S == {k \in 0..n : Unit(h[k], P(k))}
<1>4. 0 \in S
  <2>1. P(0) = {} /\ 0 \in 0..n
    BY <1>2
  <2> QED BY <1>2, <2>1, UnitBegins
<1>5. ASSUME NEW k \in 1..n, k - 1 \in S PROVE k \in S
  <2>1. k - 1 \in 0..n /\ k \in 0..n /\ 1..k = (1..(k - 1)) \cup {k} /\ Unit(h[k - 1], P(k - 1))
    <3>1. k - 1 \in 0..n /\ Unit(h[k - 1], P(k - 1))
      BY <1>5
    <3>2. k \in Int /\ 1 <= k /\ k <= n
      BY <1>2
    <3>3. k \in 0..n
      BY <1>2, <3>2
    <3>4. 1..k = (1..(k - 1)) \cup {k}
      BY <3>2
    <3> QED BY <3>1, <3>3, <3>4
  <2>2. P(k) = P(k - 1) \cup {q[k]}
    BY <2>1
  <2>3. q[k] \in AllFacts(CUs) /\ h[k] = Apply(h[k - 1], q[k])
    BY <1>2, <1>3
  <2>4. P(k - 1) \in SUBSET AllFacts(CUs)
    BY <2>1 DEF Unit, Body
  <2> DEFINE R == P(k - 1)
             c == h[k - 1]
             f == q[k]
  <2>5. Unit(c, R) /\ R \in SUBSET AllFacts(CUs) /\ f \in AllFacts(CUs)
    BY <2>1, <2>3, <2>4
  <2>6. h[k] = Apply(c, f) /\ P(k) = R \cup {f}
    BY <2>2, <2>3
  <2> HIDE DEF P, R, c, f
  <2>7. Unit(Apply(c, f), R \cup {f})
    BY <2>5, UnitStep
  <2> QED BY <2>1, <2>6, <2>7
<1>6. \A k \in 0..n : k \in S
  <2> HIDE DEF S
  <2> QED BY <1>2, <1>4, <1>5, UpTo
<1>7. P(n) = Facts[u]
  BY <1>2
<1>8. Unit(h[n], P(n))
  <2> HIDE DEF P
  <2>1. n \in 0..n
    BY <1>2
  <2> QED BY <1>6, <2>1
<1> HIDE DEF P
<1> QED BY <1>1, <1>7, <1>8
-----------------------------------------------------------------------------
(* The reference.                                                          *)

AllKinds(S) == UNION {KindsOf(Facts[c]) : c \in S}

Holds(b, S) == Body(b, AllFacts(S)) /\ KindsAre(b, AllFacts(S), AllKinds(S))

\* What builders hold is kept by what the build does.
LEMMA HoldsClosed == Closed({p \in Builders \X SUBSET CUs : Holds(p[1], p[2])})
<1> DEFINE G == {p \in Builders \X SUBSET CUs : Holds(p[1], p[2])}
<1>1. \A b \in Builders, S \in SUBSET CUs : <<b, S>> \in G <=> Holds(b, S)
  OBVIOUS
<1>2. G \subseteq Builders \X SUBSET CUs
  OBVIOUS
<1> HIDE DEF G
<1>3. <<NewBuilder, {}>> \in G
  <2>1. AllFacts({}) = {} /\ AllKinds({}) = {} /\ KindsOf({}) = {}
    <3>1. \A s : Kinds({}, s) = {}
      BY DEF Kinds, KnownOf
    <3> QED BY <3>1 DEF AllFacts, AllKinds, KindsOf
  <2>2. Body(NewBuilder, {}) /\ KindsAre(NewBuilder, {}, KindsOf({}))
    BY UnitBegins, UnitHolds DEF Unit
  <2>3. Holds(NewBuilder, {})
    BY <2>1, <2>2 DEF Holds
  <2>4. NewBuilder \in Builders /\ {} \in SUBSET CUs
    BY Joins
  <2> QED BY <1>1, <2>3, <2>4
<1>4. ASSUME NEW b \in Builders, NEW d \in Builders, NEW S \in SUBSET CUs, NEW T \in SUBSET CUs,
             <<b, S>> \in G, <<d, T>> \in G
      PROVE  <<merge_from(b, d), S \cup T>> \in G
  <2>1. AllFacts(S \cup T) = AllFacts(S) \cup AllFacts(T) /\ AllKinds(S \cup T) = AllKinds(S) \cup AllKinds(T)
    BY DEF AllFacts, AllKinds
  <2> DEFINE A == AllFacts(S)
             B == AllFacts(T)
             K == AllKinds(S)
             L == AllKinds(T)
             m == merge_from(b, d)
             U == S \cup T
  <2>2. Body(b, A) /\ KindsAre(b, A, K) /\ Body(d, B) /\ KindsAre(d, B, L)
    BY <1>1, <1>4 DEF Holds
  <2>3. AllFacts(U) = A \cup B /\ AllKinds(U) = K \cup L
    BY <2>1
  <2> HIDE DEF A, B, K, L
  <2>4. Body(m, A \cup B)
    BY <2>2, BodyJoined
  <2>5. KindsAre(m, A \cup B, K \cup L)
    BY <2>2, KindsJoined
  <2>6. m \in Builders /\ U \in SUBSET CUs
    BY Joins
  <2> HIDE DEF m, U
  <2>7. Holds(m, U)
    BY <2>3, <2>4, <2>5 DEF Holds
  <2>8. <<m, U>> \in G
    BY <1>1, <2>6, <2>7
  <2> QED BY <2>8 DEF m, U
<1>5. ASSUME NEW b \in Builders, NEW S \in SUBSET CUs, <<b, S>> \in G PROVE <<Norm(b), S>> \in G
  <2>1. Holds(b, S)
    BY <1>1, <1>5
  <2>2. Holds(Norm(b), S)
    BY <2>1, NormHolds DEF Holds
  <2>3. Norm(b) \in Builders
    BY Normal
  <2> QED BY <1>1, <2>2, <2>3
<1>6. ASSUME NEW c \in CUs, NEW b \in Ingested[c] PROVE <<b, {c}>> \in G
  <2>1. AllFacts({c}) = Facts[c] /\ AllKinds({c}) = KindsOf(Facts[c])
    BY DEF AllFacts, AllKinds
  <2>2. Unit(b, Facts[c])
    BY IngestedHolds
  <2>3. Body(b, Facts[c]) /\ KindsAre(b, Facts[c], KindsOf(Facts[c]))
    BY <2>2, UnitHolds DEF Unit
  <2>4. Holds(b, {c})
    BY <2>1, <2>3 DEF Holds
  <2>5. b \in Builders /\ {c} \in SUBSET CUs
    BY IngestedType
  <2> QED BY <1>1, <2>4, <2>5
<1>7. Closed(G)
  BY <1>2, <1>3, <1>4, <1>5, <1>6 DEF Closed
<1> QED BY <1>7 DEF G

\* The only member of a set of at most one.
LEMMA OnlyOne ==
    ASSUME NEW k, NEW X, KindIs(k, X), AtMostOne(X)
    PROVE  One(X) = k
<1>1. CASE X = {}
  BY <1>1 DEF One, KindIs, UNK
<1>2. CASE X # {}
  <2>1. k \in X
    BY <1>2 DEF KindIs
  <2>2. \A x \in X : x = k
    BY <2>1 DEF AtMostOne
  <2>3. (CHOOSE x \in X : TRUE) \in X
    BY <2>1
  <2> QED BY <1>2, <2>2, <2>3 DEF One
<1> QED BY <1>1, <1>2

\* If units do not disagree about a kind, their facts together give it.
LEMMA KindsAgree ==
    ASSUME NEW S, NEW s, NEW X, X = UNION {Kinds(Facts[c], s) : c \in S}, AtMostOne(X)
    PROVE  Kinds(AllFacts(S), s) = X
<1>1. CASE <<"field", s>> \in AllFacts(S)
  <2>1. PICK c \in S : <<"field", s>> \in Facts[c]
    BY <1>1 DEF AllFacts
  <2>2. KindField \in X
    BY <2>1 DEF Kinds
  <2>3. X = {KindField}
    BY <2>2 DEF AtMostOne
  <2> QED BY <1>1, <2>3 DEF Kinds
<1>2. CASE <<"field", s>> \notin AllFacts(S)
  <2>1. \A c \in S : Kinds(Facts[c], s) = KnownOf(Facts[c], s, 1)
    BY <1>2 DEF AllFacts, Kinds
  <2>2. Kinds(AllFacts(S), s) = KnownOf(AllFacts(S), s, 1)
    BY <1>2 DEF Kinds
  <2>3. \A k : k \in KnownOf(AllFacts(S), s, 1) <=> \E c \in S : k \in KnownOf(Facts[c], s, 1)
    BY DEF AllFacts, KnownOf
  <2>4. \A k : k \in X <=> \E c \in S : k \in KnownOf(Facts[c], s, 1)
    BY <2>1
  <2>5. KnownOf(AllFacts(S), s, 1) = X
    BY <2>3, <2>4
  <2> QED BY <2>2, <2>5
<1> QED BY <1>1, <1>2

BestOf(F, s) ==
    LET N == NamesOf(F, s) IN One({n \in N : \A m \in N : ~ prefers_name(n, m)})

\* If at most one name is degenerate, the best one is unique.
LEMMA NameAgrees ==
    ASSUME NEW F \in SUBSET AllFacts(CUs), NEW s, NEW e \in SymRow, SymIs(e, F, s),
           AtMostOne({n \in NamesOf(F, s) : Degenerate(n)})
    PROVE  BestOf(F, s) = e[3]
<1> DEFINE N == NamesOf(F, s)
           M == {n \in N : \A m \in N : ~ prefers_name(n, m)}
<1>1. N \subseteq Strings /\ e[3] \in Strings /\ NoName \in Strings /\ NoName = 0
  BY FactsTyped, SymRecs, NameAssumption, StringsAssumption
<1>2. (e[3] = NoName \/ e[3] \in N) /\ \A m \in N : ~ prefers_name(e[3], m)
  BY DEF SymIs
<1>3. \A m, n \in N : Degenerate(m) /\ Degenerate(n) => m = n
  BY DEF AtMostOne
<1>4. BestOf(F, s) = One(M)
  BY DEF BestOf
<1> HIDE DEF N
<1>5. \A m, n \in M : m = n
  <2> SUFFICES ASSUME NEW m \in M, NEW n \in M PROVE m = n
    OBVIOUS
  <2>1. m \in N /\ n \in N /\ ~ prefers_name(m, n) /\ ~ prefers_name(n, m)
    OBVIOUS
  <2> QED BY <1>1, <1>3, <2>1, NameOrder
<1>6. CASE e[3] \in N
  <2>1. e[3] \in M
    BY <1>2, <1>6
  <2> HIDE DEF M
  <2>2. (CHOOSE x \in M : TRUE) \in M
    BY <2>1
  <2>3. One(M) = CHOOSE x \in M : TRUE
    BY <2>1 DEF One
  <2> QED BY <1>4, <1>5, <2>1, <2>2, <2>3
<1>7. CASE e[3] \notin N
  <2>1. e[3] = NoName
    BY <1>2, <1>7
  <2>2. \A m \in N : m = NoName
    BY <1>1, <1>2, <2>1, NameOrder
  <2>3. N = {}
    BY <1>7, <2>1, <2>2
  <2>4. M = {}
    BY <2>3
  <2> QED BY <1>1, <1>4, <2>1, <2>4 DEF One
<1> QED BY <1>6, <1>7

\* The smallest strings of a set are those of any set that covers it.
LEMMA CoversLeast ==
    ASSUME NEW A \in SUBSET StrRec, NEW B \in SUBSET StrRec, Covers(A, B)
    PROVE  Least(A) = Least(B)
<1>1. \A r \in StrRec : r \in Tuple(2) /\ r[2] \in Int
  BY DEF StrRec, Tuple
<1>2. \A r, q \in StrRec : r[1] = q[1] /\ r[2] = q[2] => r = q
  BY <1>1, Pairs
<1>3. ASSUME NEW r \in Least(A) PROVE r \in Least(B)
  <2>1. r \in A /\ r \in B /\ \A q \in A : q[1] = r[1] => r[2] <= q[2]
    BY DEF Least, Covers
  <2>2. ASSUME NEW q \in B, q[1] = r[1] PROVE r[2] <= q[2]
    <3>1. PICK p \in A : p[1] = q[1] /\ p[2] <= q[2]
      BY DEF Covers
    <3>2. r[2] <= p[2]
      BY <2>1, <2>2, <3>1
    <3>3. r[2] \in Int /\ p[2] \in Int /\ q[2] \in Int
      BY <1>1, <2>1
    <3> QED BY <3>1, <3>2, <3>3
  <2> QED BY <2>1, <2>2 DEF Least
<1>4. ASSUME NEW r \in Least(B) PROVE r \in Least(A)
  <2>1. r \in B /\ \A q \in B : q[1] = r[1] => r[2] <= q[2]
    BY DEF Least
  <2>2. PICK p \in A : p[1] = r[1] /\ p[2] <= r[2]
    BY <2>1 DEF Covers
  <2>3. p \in B /\ A \subseteq B
    BY DEF Covers
  <2>4. r[2] <= p[2]
    BY <2>1, <2>2, <2>3
  <2>5. r[2] = p[2]
    BY <1>1, <2>1, <2>2, <2>3, <2>4
  <2>6. r = p
    BY <1>2, <2>1, <2>2, <2>3, <2>5
  <2> QED BY <2>1, <2>3, <2>6 DEF Least
<1> QED BY <1>3, <1>4

\* On consistent inputs a builder's kind of a symbol is the only one that its units know.
LEMMA KindAgrees ==
    ASSUME NEW S \in SUBSET CUs, NEW b, Holds(b, S), NEW s \in DOMAIN b.syms, NEW X,
           X = UNION {Kinds(Facts[c], s) : c \in S}, AtMostOne(X)
    PROVE  /\ b.syms[s][1] = One(Kinds(AllFacts(S), s))
           /\ <<s, KindVariable>> \in AllKinds(S) => b.syms[s][1] = KindVariable
<1>1. s \in Int
  <2>1. AllFacts(S) \in SUBSET AllFacts(CUs)
    BY DEF AllFacts
  <2>2. s \in SymbolsOf(AllFacts(S))
    BY DEF Holds, Body
  <2> QED BY <2>1, <2>2, KindsTyped
<1>2. \A k : <<s, k>> \in AllKinds(S) <=> k \in X
  <2> SUFFICES ASSUME NEW k PROVE <<s, k>> \in AllKinds(S) <=> k \in X
    OBVIOUS
  <2>1. ASSUME NEW c \in S PROVE <<s, k>> \in KindsOf(Facts[c]) <=> k \in Kinds(Facts[c], s)
    <3>1. Facts[c] \in SUBSET AllFacts(CUs)
      BY DEF AllFacts
    <3>2. Kinds(Facts[c], s) \subseteq Int
      BY <3>1, KindsTyped
    <3> QED BY <1>1, <3>2 DEF KindsOf
  <2>2. <<s, k>> \in AllKinds(S) <=> \E c \in S : <<s, k>> \in KindsOf(Facts[c])
    BY DEF AllKinds
  <2>3. k \in X <=> \E c \in S : k \in Kinds(Facts[c], s)
    OBVIOUS
  <2> QED BY <2>1, <2>2, <2>3
<1>3. KindIs(b.syms[s][1], X)
  <2>1. b.syms[s][1] # UNK => <<s, b.syms[s][1]>> \in AllKinds(S)
    BY DEF Holds, KindsAre
  <2>2. b.syms[s][1] = UNK => \A p \in AllKinds(S) : p[1] # s
    BY DEF Holds, KindsAre
  <2>3. ASSUME b.syms[s][1] = UNK PROVE X = {}
    <3> SUFFICES ASSUME NEW k \in X PROVE FALSE
      BY Zenon
    <3>1. <<s, k>> \in AllKinds(S)
      BY <1>2
    <3> QED BY <3>1, <2>2, <2>3
  <2> QED BY <1>2, <2>1, <2>3 DEF KindIs
<1>4. Kinds(AllFacts(S), s) = X
  BY KindsAgree
<1>5. One(X) = b.syms[s][1]
  BY <1>3, OnlyOne
<1>6. ASSUME <<s, KindVariable>> \in AllKinds(S) PROVE b.syms[s][1] = KindVariable
  <2>1. KindVariable \in X
    BY <1>2, <1>6
  <2>2. b.syms[s][1] \in X
    BY <1>3, <2>1 DEF KindIs
  <2> QED BY <2>1, <2>2 DEF AtMostOne
<1> QED BY <1>4, <1>5, <1>6

\* The symbol rows of the reference.
RefSym(F, s) == <<One(Kinds(F, s)), One(KnownOf(F, s, 2)), BestOf(F, s)>>

RefSyms(F) == {<<s, One(Kinds(F, s)), One(KnownOf(F, s, 2)), BestOf(F, s)>> : s \in SymbolsOf(F)}

\* On consistent inputs a builder's row of a symbol is the reference's.
LEMMA SymAgrees ==
    ASSUME NEW S \in SUBSET CUs, NEW b, Holds(b, S), Consistent(S), NEW s \in DOMAIN b.syms
    PROVE  /\ b.syms[s] = RefSym(AllFacts(S), s)
           /\ <<s, KindVariable>> \in AllKinds(S) => b.syms[s][1] = KindVariable
<1> DEFINE F == AllFacts(S)
           X == UNION {Kinds(Facts[c], s) : c \in S}
<1>1. F \in SUBSET AllFacts(CUs)
  BY DEF AllFacts
<1>2. s \in SymbolsOf(F) /\ SymIs(b.syms[s], F, s) /\ b \in Builders
  BY DEF Holds, Body
<1>3. b.syms[s] \in SymRow
  <2>1. b.syms \in Maps(SymRow)
    BY <1>2 DEF Builders
  <2> QED BY <2>1, FiniteParts DEF IsMap
<1>4. s \in {f[2] : f \in {x \in F : x[1] \in {"sym", "name", "field"}}}
  BY <1>2 DEF SymbolsOf
<1>5. /\ AtMostOne(X) /\ AtMostOne(KnownOf(F, s, 2))
      /\ AtMostOne({n \in NamesOf(F, s) : Degenerate(n)})
  BY <1>4 DEF Consistent
<1>6. /\ b.syms[s][1] = One(Kinds(F, s))
      /\ <<s, KindVariable>> \in AllKinds(S) => b.syms[s][1] = KindVariable
  <2> HIDE DEF F
  <2> QED BY <1>5, KindAgrees DEF F
<1> HIDE DEF F, X
<1>7. One(KnownOf(F, s, 2)) = b.syms[s][2]
  <2>1. KindIs(b.syms[s][2], KnownOf(F, s, 2))
    BY <1>2 DEF SymIs, KindIs
  <2> QED BY <2>1, <1>5, OnlyOne
<1>8. BestOf(F, s) = b.syms[s][3]
  BY <1>1, <1>2, <1>3, <1>5, NameAgrees
<1>9. b.syms[s] = <<b.syms[s][1], b.syms[s][2], b.syms[s][3]>>
  BY <1>3, SymRecs
<1>10. b.syms[s] = RefSym(F, s)
  BY <1>6, <1>7, <1>8, <1>9 DEF RefSym
<1> QED BY <1>6, <1>10 DEF F

\* The reference, section by section.
LEMMA ReferenceIs ==
    ASSUME NEW S, NEW F, F = AllFacts(S)
    PROVE  Reference(S) =
             [xrefs |-> Sorted(RowsOf(F, "xrefs")), syms |-> Sorted(RefSyms(F)),
              names |-> NameRows(Sorted(RefSyms(F)), StrsOf(F, "aliases")),
              files |-> Sorted(FilesOf(F)),
              inh |-> Sorted(RowsOf(F, "inherits")),
              inhrev |-> Sorted({Flip(r) : r \in RowsOf(F, "inherits")}),
              calls |-> Sorted(RowsOf(F, "calls")),
              crev |-> Sorted({Flip(r) : r \in RowsOf(F, "calls")}),
              typed |-> OnePerSym(StrsOf(F, "typed")),
              childrev |-> Sorted(FlippedOf(F)),
              sig |-> OnePerSym(StrsOf(F, "sig"))]
BY Zenon DEF Reference, RowsOf, StrsOf, FilesOf, SymbolsOf, FlippedOf, RefSyms, BestOf

\* The symbol section of a finished builder is the reference's.
LEMMA SymsAgree ==
    ASSUME NEW S \in SUBSET CUs, NEW b, Holds(b, S), Consistent(S)
    PROVE  SymRows(b.syms) = Sorted(RefSyms(AllFacts(S)))
<1> DEFINE F == AllFacts(S)
<1>1. b \in Builders /\ DOMAIN b.syms = SymbolsOf(F)
  BY DEF Holds, Body
<1>2. b.syms \in Maps(SymRow)
  BY <1>1 DEF Builders
<1>3. \A s \in DOMAIN b.syms : b.syms[s] \in SymRow /\ s \in Int
  BY <1>2, FiniteParts DEF IsMap
<1>4. ASSUME NEW s \in DOMAIN b.syms
      PROVE  <<s>> \o b.syms[s] = <<s, One(Kinds(F, s)), One(KnownOf(F, s, 2)), BestOf(F, s)>>
  <2>1. b.syms[s] = RefSym(F, s)
    BY SymAgrees
  <2>2. <<s>> \o b.syms[s] = <<s, b.syms[s][1], b.syms[s][2], b.syms[s][3]>>
    BY <1>3, SymRecs
  <2> QED BY <2>1, <2>2 DEF RefSym
<1> HIDE DEF F
<1>5. SymSet(b.syms) = RefSyms(F)
  BY <1>1, <1>4 DEF SymSet, RefSyms
<1>6. SymRows(b.syms) = Sorted(SymSet(b.syms))
  BY <1>2, TableSet
<1> QED BY <1>5, <1>6 DEF F

\* An alias that a builder no longer holds is a variable's, so the name index omits it anyway.
LEMMA NamesAgree ==
    ASSUME NEW S \in SUBSET CUs, NEW b, Holds(b, S), Consistent(S)
    PROVE  NameRows(SymRows(b.syms), b.aliases)
             = NameRows(SymRows(b.syms), StrsOf(AllFacts(S), "aliases"))
<1> DEFINE A == StrsOf(AllFacts(S), "aliases")
           q == SymRows(b.syms)
           V == {r[1] : r \in {x \in ToSet(q) : x[2] = KindVariable}}
<1>1. b \in Builders /\ b.aliases \subseteq A
  BY DEF Holds, Body
<1>2. b.syms \in Maps(SymRow)
  BY <1>1 DEF Builders
<1>3. ToSet(q) = SymSet(b.syms)
  BY <1>2, TableSet
<1>4. ASSUME NEW a \in A, a \notin b.aliases PROVE a[1] \in V
  <2>1. <<a[1], KindVariable>> \in AllKinds(S)
    BY <1>4 DEF Holds, KindsAre
  <2>2. a[1] \in DOMAIN b.syms
    BY <2>1 DEF Holds, KindsAre
  <2>3. b.syms[a[1]][1] = KindVariable
    BY <2>1, <2>2, SymAgrees
  <2>4. b.syms[a[1]] \in SymRow /\ a[1] \in Int
    BY <1>2, <2>2, FiniteParts DEF IsMap
  <2> DEFINE r == <<a[1]>> \o b.syms[a[1]]
  <2>5. r[1] = a[1] /\ r[2] = KindVariable
    BY <2>3, <2>4, SymRecs
  <2>6. r \in ToSet(q)
    BY <1>3, <2>2 DEF SymSet
  <2> QED BY <2>5, <2>6
<1> HIDE DEF A, V
<1>5. {x \in b.aliases : x[1] \notin V} = {x \in A : x[1] \notin V}
  BY <1>1, <1>4
<1>6. \A al : NameRows(q, al) = Sorted({<<r[4], r[1], 0>> : r \in ToSet(q)}
                                  \cup {<<a[2], a[1], 1>> : a \in {x \in al : x[1] \notin V}})
  BY Zenon DEF NameRows, V
<1> HIDE DEF q
<1>7. NameRows(q, b.aliases) = NameRows(q, A)
  BY <1>5, <1>6
<1> QED BY <1>7 DEF q, A

\* On consistent inputs a builder that holds the facts of some units is written as the reference.
LEMMA FinishIsReference ==
    ASSUME NEW S \in SUBSET CUs, NEW b, Holds(b, S), Consistent(S)
    PROVE  finish(b) = Reference(S)
<1> DEFINE F == AllFacts(S)
<1>1. /\ b \in Builders /\ F \in SUBSET AllFacts(CUs)
      /\ b.xrefs = RowsOf(F, "xrefs") /\ b.inherits = RowsOf(F, "inherits")
      /\ b.calls = RowsOf(F, "calls") /\ b.childof = FlippedOf(F)
      /\ Covers(b.typed, StrsOf(F, "typed")) /\ Covers(b.sig, StrsOf(F, "sig"))
      /\ FileSet(b.files) = FilesOf(F)
  BY DEF Holds, Body
<1>2. SymRows(b.syms) = Sorted(RefSyms(F))
  BY SymsAgree
<1>3. NameRows(SymRows(b.syms), b.aliases) = NameRows(Sorted(RefSyms(F)), StrsOf(F, "aliases"))
  BY <1>2, NamesAgree
<1> HIDE DEF F
<1>4. FileRows(b.files) = Sorted(FilesOf(F))
  <2>1. b.files \in Maps(Int)
    BY <1>1 DEF Builders
  <2> QED BY <1>1, <2>1, TableSet
<1>5. OnePerSym(b.typed) = OnePerSym(StrsOf(F, "typed")) /\ OnePerSym(b.sig) = OnePerSym(StrsOf(F, "sig"))
  <2>1. b.typed \in SUBSET StrRec /\ b.sig \in SUBSET StrRec
    BY <1>1 DEF Builders, Fin
  <2>2. StrsOf(F, "typed") \in SUBSET StrRec /\ StrsOf(F, "sig") \in SUBSET StrRec
    BY <1>1, FactsTyped
  <2>3. Least(b.typed) = Least(StrsOf(F, "typed"))
    BY <1>1, <2>1, <2>2, CoversLeast
  <2>4. Least(b.sig) = Least(StrsOf(F, "sig"))
    BY <1>1, <2>1, <2>2, CoversLeast
  <2>5. \A A : OnePerSym(A) = Sorted(Least(A))
    BY Zenon DEF OnePerSym, Least
  <2> QED BY <2>3, <2>4, <2>5
<1>6. /\ Reversed(Sorted(b.inherits)) = Sorted({Flip(r) : r \in RowsOf(F, "inherits")})
      /\ Reversed(Sorted(b.calls)) = Sorted({Flip(r) : r \in RowsOf(F, "calls")})
  <2>1. b.inherits \in Fin(Tuple(2)) /\ b.calls \in Fin(Tuple(3))
    BY <1>1 DEF Builders
  <2>2. ToSet(Sorted(b.inherits)) = b.inherits
    BY <2>1, SortedSet
  <2>3. ToSet(Sorted(b.calls)) = b.calls
    BY <2>1, SortedSet
  <2> QED BY <1>1, <2>2, <2>3 DEF Reversed
<1>7. finish(b) =
         [xrefs |-> Sorted(b.xrefs), syms |-> SymRows(b.syms),
          names |-> NameRows(SymRows(b.syms), b.aliases), files |-> FileRows(b.files),
          inh |-> Sorted(b.inherits), inhrev |-> Reversed(Sorted(b.inherits)),
          calls |-> Sorted(b.calls), crev |-> Reversed(Sorted(b.calls)),
          typed |-> OnePerSym(b.typed), childrev |-> Sorted(b.childof),
          sig |-> OnePerSym(b.sig)]
  BY Zenon DEF finish
<1>8. Reference(S) =
             [xrefs |-> Sorted(RowsOf(F, "xrefs")), syms |-> Sorted(RefSyms(F)),
              names |-> NameRows(Sorted(RefSyms(F)), StrsOf(F, "aliases")),
              files |-> Sorted(FilesOf(F)),
              inh |-> Sorted(RowsOf(F, "inherits")),
              inhrev |-> Sorted({Flip(r) : r \in RowsOf(F, "inherits")}),
              calls |-> Sorted(RowsOf(F, "calls")),
              crev |-> Sorted({Flip(r) : r \in RowsOf(F, "calls")}),
              typed |-> OnePerSym(StrsOf(F, "typed")),
              childrev |-> Sorted(FlippedOf(F)),
              sig |-> OnePerSym(StrsOf(F, "sig"))]
  BY ReferenceIs DEF F
<1> QED BY <1>1, <1>2, <1>3, <1>4, <1>5, <1>6, <1>7, <1>8

\* On consistent inputs the output is a function of the facts of the units that were ingested:
\* not of the order of the facts, of the sinks they went through, of the shards or of how these
\* were grouped, for every number of units, sinks and shards (OutputIsReference).
THEOREM OutputFromFacts == Spec => []OutputIsReference
<1> DEFINE G == {p \in Builders \X SUBSET CUs : Holds(p[1], p[2])}
<1>1. Closed(G)
  BY HoldsClosed
<1>2. \A b, S : <<b, S>> \in G => Holds(b, S)
  OBVIOUS
<1> HIDE DEF G
<1>3. Init => BuildInv(G)
  BY <1>1, BuildBegins
<1>4. BuildInv(G) /\ [Next]_vars => BuildInv(G)'
  BY <1>1, BuildKeeps
<1>5. BuildInv(G) => OutputIsReference
  <2> SUFFICES ASSUME BuildInv(G), out # <<>>, Consistent(CUs \ todo)
               PROVE  out = Reference(CUs \ todo)
    BY DEF OutputIsReference
  <2>1. PICK b \in Builders : <<b, CUs \ todo>> \in G /\ out = finish(b)
    BY DEF BuildInv, FileOf
  <2>2. Holds(b, CUs \ todo) /\ CUs \ todo \in SUBSET CUs
    BY <1>2, <2>1
  <2> QED BY <2>1, <2>2, FinishIsReference
<1> QED BY <1>3, <1>4, <1>5, PTL DEF Spec

-----------------------------------------------------------------------------
(* How two rows of one symbol become one.                                  *)

\* Two rows of one symbol agree: neither contradicts a kind or a language
\* the other knows, and at most one degenerate name is among theirs.
Agree(p, q) ==
    /\ p[1] # UNK /\ q[1] # UNK => p[1] = q[1]
    /\ p[2] # UNK /\ q[2] # UNK => p[2] = q[2]
    /\ Degenerate(p[3]) /\ Degenerate(q[3]) => p[3] = q[3]

\* Choosing the best of three display names by prefers_name does not
\* depend on which two are compared first.
LEMMA NameChoiceAssociative ==
    ASSUME NEW a \in Strings, NEW b \in Strings, NEW c \in Strings
    PROVE  BetterName(BetterName(a, b), c) = BetterName(a, BetterName(b, c))
BY NameAssumption, OrderAssumption
   DEF BetterName, prefers_name, is_degenerate_name, is_ticket_name

\* Nor, for two names of which at most one is degenerate, on which of them
\* was there first.
LEMMA NameChoiceCommutes ==
    ASSUME NEW a \in Strings, NEW b \in Strings,
           Degenerate(a) /\ Degenerate(b) => a = b
    PROVE  BetterName(a, b) = BetterName(b, a)
BY NameAssumption, OrderAssumption
   DEF BetterName, prefers_name, is_degenerate_name, is_ticket_name

\* merge_syms_refine and upsert_sym give one row for three, whichever pair
\* is folded first: a group of shards may be coalesced before the rest.
THEOREM RefineAssociative ==
    \A p, q, r \in SymRow : Refine(Refine(p, q), r) = Refine(p, Refine(q, r))
<1> SUFFICES ASSUME NEW p \in SymRow, NEW q \in SymRow, NEW r \in SymRow
             PROVE  Refine(Refine(p, q), r) = Refine(p, Refine(q, r))
    OBVIOUS
<1>1. p[3] \in Strings /\ q[3] \in Strings /\ r[3] \in Strings
    BY DEF SymRow
<1>2. BetterName(BetterName(p[3], q[3]), r[3]) = BetterName(p[3], BetterName(q[3], r[3]))
    BY <1>1, NameChoiceAssociative
<1>3. \A x, y, z : Known(Known(x, y), z) = Known(x, Known(y, z))
    BY DEF Known
<1> QED
    BY <1>2, <1>3 DEF Refine

\* On rows that agree the order of the sources does not matter.
THEOREM RefineCommutes ==
    \A p, q \in SymRow : Agree(p, q) => Refine(p, q) = Refine(q, p)
<1> SUFFICES ASSUME NEW p \in SymRow, NEW q \in SymRow, Agree(p, q)
             PROVE  Refine(p, q) = Refine(q, p)
    OBVIOUS
<1>1. p[3] \in Strings /\ q[3] \in Strings
    BY DEF SymRow
<1>2. BetterName(p[3], q[3]) = BetterName(q[3], p[3])
    BY <1>1, NameChoiceCommutes DEF Agree
<1>3. Known(p[1], q[1]) = Known(q[1], p[1]) /\ Known(p[2], q[2]) = Known(q[2], p[2])
    BY DEF Known, Agree
<1> QED
    BY <1>2, <1>3 DEF Refine
=============================================================================
