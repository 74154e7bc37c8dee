---------------------------- MODULE Query_proofs ----------------------------
(***************************************************************************)
(* What the replies promise, for every index and every request.            *)
(*                                                                         *)
(*   ScanIsSound              Spec => []ScanSound                          *)
(*   RegionsAreFilled         Spec => []RegionsFilled                      *)
(*   TrigramSearchIsSerial    Spec => []TrigramIsSerial                    *)
(*   XrefsAreHonest           Spec => []XrefsHonest                        *)
(*   ListingsAreHonest        Spec => []ListingsHonest                     *)
(*   RelativesAreLocated      Spec => []RelativesLocated                   *)
(*   ForestIsSound            Spec => []ForestSound                        *)
(*   ForestIsClosed           Spec => []ForestClosed                       *)
(*   BudgetIsKept             Spec => []BudgetKept                         *)
(*                                                                         *)
(* The first six rest on Searched, the state of the search while it runs,  *)
(* the three of the forest on Foresting, the state of the walk.            *)
(***************************************************************************)
EXTENDS Query, NameSearch_proofs

-----------------------------------------------------------------------------
(* The search.                                                             *)

\* What the open index and the request are, and that the search was given
\* the name table and the name of the request.
Typed ==
    /\ IsIndex(db) /\ IsRequest(req)
    /\ names = db.names
    /\ query = [needle |-> req.name, limit |-> SymCap(req), ignore_case |-> req.ignore_case]

\* A behaviour starts typed.
LEMMA InitTyped ==
    ASSUME Init
    PROVE  Typed
<1>1. PICK c \in Cases :
        /\ db = c[1]
        /\ req \in c[2]
        /\ SearchInit(db.names, [needle |-> req.name, limit |-> SymCap(req), ignore_case |-> req.ignore_case])
  BY DEF Init
<1>2. IsIndex(c[1]) /\ \A r \in c[2] : IsRequest(r)
  BY CasesAssumption
<1> QED BY <1>1, <1>2 DEF Typed, SearchInit

\* No step changes the index, the request or what the search is given.
LEMMA NextTyped ==
    ASSUME Typed, [Next]_vars
    PROVE  Typed'
<1>1. UNCHANGED <<db, req, names, query>>
  <2>1. CASE Search
    <3>1. UNCHANGED <<names, query>>
      BY <2>1 DEF Search, SearchNext, StartTrigram, Probe, StartLinear, ScanRow, Join, StartEmpty
    <3> QED BY <2>1, <3>1 DEF Search, queryVars
  <2>2. CASE Exact
    BY <2>2 DEF Exact, queryVars
  <2>3. CASE dispatch
    BY <2>3 DEF dispatch, SendReply
  <2>4. CASE Seed
    BY <2>4 DEF Seed
  <2>5. CASE Expand
    BY <2>5 DEF Expand, WalkStep, searchVars
  <2>6. CASE Follow
    <3>1. UNCHANGED <<db, req>> /\ UNCHANGED names /\ UNCHANGED query
      BY <2>6 DEF Follow, SendReply, searchVars
    <3> QED BY <3>1
  <2>7. CASE NextHop
    BY <2>7 DEF NextHop, WalkStep, searchVars
  <2>8. CASE EndWalk
    BY <2>8 DEF EndWalk, SendReply
  <2>9. CASE UNCHANGED vars
    BY <2>9 DEF vars, searchVars
  <2> QED BY <2>1, <2>2, <2>3, <2>4, <2>5, <2>6, <2>7, <2>8, <2>9 DEF Next
<1> QED BY <1>1 DEF Typed, SymCap

\* The name table, the needle and the limit are what the search relies on.
LEMMA TypedSearch ==
    ASSUME Typed
    PROVE  SearchTyped
<1>1. db.names \in Seq((Seq(Nat)) \X (0..(MaxSym - 1)))
  BY DEF Typed, IsIndex, NamesReady, Str, Sym
<1>2. names \in Seq(Text \X Int)
  <2>1. \A i \in 1..Len(db.names) : db.names[i] \in Text \X Int
    <3> SUFFICES ASSUME NEW i \in 1..Len(db.names) PROVE db.names[i] \in Text \X Int
      OBVIOUS
    <3>1. db.names[i] \in (Seq(Nat)) \X (0..(MaxSym - 1))
      BY <1>1
    <3>2. (Seq(Nat)) \X (0..(MaxSym - 1)) \subseteq (Seq(Int)) \X Int
      <4>1. Seq(Nat) \subseteq Seq(Int)
        OBVIOUS
      <4>2. MaxSym \in Nat
        BY ReaderAssumption
      <4>3. 0..(MaxSym - 1) \subseteq Int
        BY <4>2
      <4> QED BY <4>1, <4>3, Zenon
    <3> QED BY <3>1, <3>2 DEF Text
  <2>2. names = db.names
    BY DEF Typed
  <2>3. ASSUME NEW A, NEW B, NEW s \in Seq(A), \A i \in 1..Len(s) : s[i] \in B
        PROVE  s \in Seq(B)
    BY <2>3
  <2> DEFINE A == (Seq(Nat)) \X (0..(MaxSym - 1))
             B == Text \X Int
             s == db.names
  <2>4. s \in Seq(A) /\ \A i \in 1..Len(s) : s[i] \in B
    BY <1>1, <2>1
  <2> HIDE DEF A, B, s
  <2>5. s \in Seq(B)
    BY <2>3, <2>4
  <2> QED BY <2>2, <2>5 DEF B, s
<1>3. req.limit \in Nat /\ SUBSTR_AGG_CAP \in Nat
  BY CasesAssumption DEF Typed, IsRequest
<1>4. SymCap(req) \in Nat
  BY <1>3 DEF SymCap, Larger
<1>5. query.limit = SymCap(req) /\ query.needle = req.name
  BY DEF Typed
<1>6. req.name \in Seq(Int)
  <2>1. req.name \in Seq(Nat)
    BY DEF Typed, IsRequest, Str
  <2> QED BY <2>1
<1> QED BY <1>2, <1>4, <1>5, <1>6 DEF SearchTyped, Text

\* The scan of the threads, from its start to what it found.
ScanWalk ==
    /\ ScanInv
    /\ pc \in {"start", "probe", "exact", "resolved"} => scan = <<>>
    /\ pc = "done" /\ scan # <<>> => OutFound

\* A step that changes nothing the scan depends on.
LEMMA ScanKept ==
    ASSUME UNCHANGED <<names, query, scan, out>>
    PROVE  /\ ScanInv /\ pc' = pc => ScanInv'
           /\ OutFound => OutFound'
<1>1. names' = names /\ query' = query /\ scan' = scan /\ out' = out
  OBVIOUS
<1>2. Hits' = Hits /\ Threads' = Threads /\ Chunk' = Chunk /\ MatchingRows' = MatchingRows /\ SerialScan' = SerialScan
  BY <1>1 DEF Hits, Threads, Chunk, MatchingRows, SerialScan, Matches
<1>3. ASSUME ScanInv, pc' = pc
      PROVE  ScanInv'
  <2>1. \A t : Edge(t)' = Edge(t)
    BY <1>1, <1>2 DEF Edge
  <2> QED BY <1>1, <1>2, <1>3, <2>1 DEF ScanInv
<1>4. ASSUME OutFound
      PROVE  OutFound'
  BY <1>1, <1>2, <1>4 DEF OutFound
<1> QED BY <1>3, <1>4

\* Every step keeps it.
LEMMA NextScan ==
    ASSUME Typed, ScanWalk, [Next]_vars
    PROVE  ScanWalk'
<1>0. SearchTyped
  BY TypedSearch
<1>1. CASE Search
  <2>1. CASE StartTrigram
    <3>1. pc = "start" /\ pc' \in {"done", "probe"} /\ scan' = scan
      BY <2>1 DEF StartTrigram
    <3> QED BY <3>1 DEF ScanWalk, ScanInv
  <2>2. CASE Probe
    <3>1. pc = "probe" /\ pc' \in {"done", "probe"} /\ scan' = scan
      BY <2>2 DEF Probe
    <3> QED BY <3>1 DEF ScanWalk, ScanInv
  <2>3. CASE StartLinear
    <3>1. ScanInv'
      BY <1>0, <2>3, ScanStarts
    <3>2. pc' = "scan"
      BY <2>3 DEF StartLinear
    <3> QED BY <3>1, <3>2 DEF ScanWalk
  <2>4. ASSUME NEW t \in 1..Cores, ScanRow(t)
        PROVE  ScanWalk'
    <3>1. ScanInv'
      BY <1>0, <2>4, ScanGoesOn DEF ScanWalk
    <3>2. pc' = "scan"
      BY <2>4 DEF ScanRow
    <3> QED BY <3>1, <3>2 DEF ScanWalk
  <2>5. CASE Join
    <3>1. OutFound'
      BY <1>0, <2>5, ScanJoins DEF ScanWalk
    <3>2. pc' = "done"
      BY <2>5 DEF Join
    <3> QED BY <3>1, <3>2 DEF ScanWalk, ScanInv
  <2>6. CASE StartEmpty
    <3>1. pc = "start" /\ pc' = "done" /\ scan' = scan
      BY <2>6 DEF StartEmpty
    <3> QED BY <3>1 DEF ScanWalk, ScanInv
  <2> QED BY <1>1, <2>1, <2>2, <2>3, <2>4, <2>5, <2>6 DEF Search, SearchNext
<1>2. ASSUME pc' \notin {"start", "probe", "exact", "scan", "done"}, pc' = "resolved" => scan' = <<>>
      PROVE  ScanWalk'
  BY <1>2 DEF ScanWalk, ScanInv
<1>3. CASE Exact
  <2>1. pc = "exact" /\ pc' = "resolved" /\ scan' = scan
    BY <1>3 DEF Exact
  <2> QED BY <1>2, <2>1 DEF ScanWalk
<1>4. CASE dispatch \/ Seed \/ EndWalk
  <2>1. pc' = "replied" \/ pc' = "walk"
    BY <1>4 DEF dispatch, Seed, EndWalk, SendReply
  <2> QED BY <1>2, <2>1
<1>5. CASE Expand \/ NextHop
  <2>1. pc' = "walk"
    BY <1>5 DEF Expand, NextHop, WalkStep, searchVars
  <2> QED BY <1>2, <2>1
<1>6. CASE Follow
  <2>1. pc' = "replied" \/ pc' = "walk"
    BY <1>6 DEF Follow, SendReply, searchVars
  <2> QED BY <1>2, <2>1
<1>7. CASE UNCHANGED vars
  <2>1. UNCHANGED <<names, query, scan, out>> /\ pc' = pc
    BY <1>7 DEF vars, searchVars
  <2> QED BY <2>1, ScanKept DEF ScanWalk
<1> QED BY <1>1, <1>3, <1>4, <1>5, <1>6, <1>7 DEF Next

\* For every index, request and number of threads, the threads' scan
\* (syms_matching_substring_linear in reader.rs) returns no symbol twice and none that does
\* not match, and the serial result when the limit admits every match.
THEOREM ScanIsSound == Spec => []ScanSound
<1>1. Init => Typed /\ ScanWalk
  <2> SUFFICES ASSUME Init PROVE Typed /\ ScanWalk
    OBVIOUS
  <2>1. scan = <<>> /\ pc \in {"start", "exact"}
    BY DEF Init, SearchInit
  <2>2. ScanWalk
    BY <2>1 DEF ScanWalk, ScanInv
  <2> QED BY <2>2, InitTyped
<1>2. Typed /\ ScanWalk /\ [Next]_vars => (Typed /\ ScanWalk)'
  BY NextTyped, NextScan
<1>3. Typed /\ ScanWalk => ScanSound
  <2> SUFFICES ASSUME ScanWalk, pc = "done", scan # <<>>
               PROVE  /\ ToSet(out) \subseteq {r[2] : r \in ToSet(MatchingRows)}
                      /\ Cardinality(ToSet(out)) = Len(out)
                      /\ Len(MatchingRows) <= query.limit => out = SerialScan
    BY DEF ScanSound
  <2>1. OutFound
    BY DEF ScanWalk
  <2>2. Cardinality(ToSet(out)) = Len(out)
    BY <2>1, DistinctCount DEF OutFound
  <2> QED BY <2>1, <2>2 DEF OutFound
<1> QED BY <1>1, <1>2, <1>3, PTL DEF Spec

-----------------------------------------------------------------------------
(* The trigram index.                                                      *)

\* The index the search uses is the one built over the name table.
Built == ix = build_trigram_index(names)

\* No step changes it.
LEMMA NextBuilt ==
    ASSUME Typed, Built, [Next]_vars
    PROVE  Built'
<1>1. UNCHANGED <<ix, names>>
  <2>1. CASE Search
    BY <2>1 DEF Search, SearchNext, StartTrigram, Probe, StartLinear, ScanRow, Join, StartEmpty
  <2>2. CASE Exact
    BY <2>2 DEF Exact, queryVars
  <2>3. CASE dispatch
    BY <2>3 DEF dispatch, SendReply
  <2>4. CASE Seed
    BY <2>4 DEF Seed
  <2>5. CASE Expand
    BY <2>5 DEF Expand, WalkStep, searchVars
  <2>6. CASE Follow
    <3>1. UNCHANGED ix /\ UNCHANGED names
      BY <2>6 DEF Follow, SendReply, searchVars
    <3> QED BY <3>1
  <2>7. CASE NextHop
    BY <2>7 DEF NextHop, WalkStep, searchVars
  <2>8. CASE EndWalk
    BY <2>8 DEF EndWalk, SendReply
  <2>9. CASE UNCHANGED vars
    BY <2>9 DEF vars, searchVars
  <2> QED BY <2>1, <2>2, <2>3, <2>4, <2>5, <2>6, <2>7, <2>8, <2>9 DEF Next
<1> QED BY <1>1 DEF Built

\* For every name table, block size and varint base, the second pass of
\* build_trigram_index fills exactly the cells the first pass sized, and
\* every list decodes to the ids of the rows whose lowercased name has its
\* trigram.
THEOREM RegionsAreFilled == Spec => []RegionsFilled
<1>1. Init => Typed /\ Built
  BY InitTyped DEF Init, SearchInit, Built
<1>2. Typed /\ Built /\ [Next]_vars => (Typed /\ Built)'
  BY NextTyped, NextBuilt
<1>3. Typed /\ Built => RegionsFilled
  <2> SUFFICES ASSUME Typed, Built PROVE RegionsFilled
    OBVIOUS
  <2>1. names \in Seq(Text \X Int)
    BY TypedSearch DEF SearchTyped
  <2>2. IndexRight(ix, names)
    BY <2>1, BuiltRight DEF Built
  <2> QED BY <2>2, Zenon DEF IndexRight, RowsWith, RegionsFilled
<1> QED BY <1>1, <1>2, <1>3, PTL DEF Spec

-----------------------------------------------------------------------------
(* The search through the trigram index.                                   *)

\* The candidates of the shortest list are probed in order; what is found
\* is what a serial scan finds up to the next candidate.
TrigramWalk ==
    /\ pc = "start" => out = <<>>
    /\ pc = "probe" => \E t, u, a : Probing(t, u, a)
    /\ TrigramIsSerial

\* A step that leaves the search where it was.
LEMMA ProbingKept ==
    ASSUME UNCHANGED searchVars, NEW t, NEW u, NEW a, Probing(t, u, a)
    PROVE  Probing(t, u, a)'
<1>1. UNCHANGED <<names, ix, query>> /\ todo' = todo /\ others' = others /\ cursor' = cursor /\ out' = out
  BY DEF searchVars
<1>2. /\ ix' = ix /\ query' = query
      /\ Events' = Events /\ Grams' = Grams
      /\ \A x : IdsOf(x)' = IdsOf(x)
      /\ \A j : OutUpTo(j)' = OutUpTo(j)
  BY <1>1, SameSearch
<1>3. ASSUME NEW x, NEW k, NEW c
      PROVE  CursorAt(x, k, c)' <=> CursorAt(x, k, c)
  BY <1>1, <1>2 DEF CursorAt
<1>4. \A k \in 1..Len(u) : CursorAt(u[k], k, IdsOf(t)[a + 1])'
  <2> SUFFICES ASSUME NEW k \in 1..Len(u) PROVE CursorAt(u[k], k, IdsOf(t)[a + 1])'
    OBVIOUS
  <2>1. CursorAt(u[k], k, IdsOf(t)[a + 1])
    BY DEF Probing
  <2>2. IdsOf(t)' = IdsOf(t)
    BY <1>2
  <2>3. cursor' = cursor /\ ix' = ix
    BY <1>1, <1>2
  <2> QED BY <2>1, <2>2, <2>3 DEF CursorAt
<1>5. OutUpTo(IdsOf(t)[a + 1])' = OutUpTo(IdsOf(t)[a + 1])
  <2>1. PICK c : c = IdsOf(t)[a + 1]
    OBVIOUS
  <2>2. IdsOf(t)[a + 1]' = c
    BY <1>2, <2>1
  <2>3. OutUpTo(c)' = OutUpTo(c)
    BY <1>2
  <2> QED BY <2>1, <2>2, <2>3, <1>1 DEF OutUpTo, Hits, Matches
<1> QED BY <1>1, <1>2, <1>4, <1>5 DEF Probing

\* An empty table and a limit of 0 leave a serial scan nothing to find.
LEMMA NothingToFind ==
    ASSUME SearchTyped, names = <<>> \/ query.limit = 0
    PROVE  SerialScan = <<>>
<1>1. OutRule /\ query.limit \in Nat
  BY OutEnds DEF SearchTyped
<1>2. CASE names = <<>>
  BY <1>1, <1>2 DEF OutRule
<1>3. CASE query.limit = 0
  <2>1. Len(names) \in Nat /\ 0 \in 0..Len(names) /\ Len(names) \in 0..Len(names)
    BY <1>1 DEF OutRule
  <2>2. OutUpTo(0) = <<>> /\ Len(OutUpTo(0)) >= query.limit
    BY <1>1, <1>3 DEF OutRule
  <2>3. OutUpTo(Len(names)) = OutUpTo(0)
    BY <2>1, <2>2, OutSame
  <2> QED BY <1>1, <2>2, <2>3 DEF OutRule
<1> QED BY <1>2, <1>3

\* Every step keeps it.
LEMMA NextTrigram ==
    ASSUME Typed, Built, ScanWalk, TrigramWalk, [Next]_vars
    PROVE  TrigramWalk'
<1>0. SearchTyped /\ Indexed
  BY TypedSearch, IndexedFound DEF Built
<1>9. ASSUME pc' \notin {"start", "probe", "done"}
      PROVE  TrigramWalk'
  BY <1>9 DEF TrigramWalk, TrigramIsSerial
<1>1. CASE Search
  <2>1. CASE StartTrigram
    <3>1. out = <<>>
      BY <2>1 DEF StartTrigram, TrigramWalk
    <3>2. \/ pc' = "done" /\ out' = SerialScan'
          \/ pc' = "probe" /\ \E t, u : Probing(t, u, 0)'
      BY <1>0, <2>1, <3>1, TrigramStarts
    <3> QED BY <3>2, Zenon DEF TrigramWalk, TrigramIsSerial
  <2>2. CASE Probe
    <3>1. PICK t, u, a : Probing(t, u, a)
      BY <2>2 DEF Probe, TrigramWalk
    <3>2. \/ pc' = "probe" /\ Probing(t, u, a + 1)'
          \/ pc' = "done" /\ out' = SerialScan'
      BY <1>0, <2>2, <3>1, ProbeStep
    <3> QED BY <3>2, Zenon DEF TrigramWalk, TrigramIsSerial
  <2>3. CASE StartLinear
    BY <1>9, <2>3 DEF StartLinear
  <2>4. ASSUME NEW t \in 1..Cores, ScanRow(t)
        PROVE  TrigramWalk'
    <3>1. pc' = "scan"
      BY <2>4 DEF ScanRow
    <3> QED BY <1>9, <3>1
  <2>5. CASE Join
    <3>1. pc = "scan" /\ pc' = "done" /\ scan' = scan
      BY <2>5 DEF Join
    <3>2. names # <<>> /\ DOMAIN scan = 1..Threads
      BY <3>1 DEF ScanWalk, ScanInv
    <3>3. Threads \in Nat \ {0}
      BY <1>0, <3>2, Chunks
    <3>4. scan # <<>>
      BY <3>2, <3>3
    <3> QED BY <3>1, <3>4 DEF TrigramWalk, TrigramIsSerial
  <2>6. CASE StartEmpty
    <3>1. pc' = "done" /\ UNCHANGED <<names, ix, query>> /\ out' = out /\ out = <<>>
      BY <2>6 DEF StartEmpty, TrigramWalk
    <3>2. query' = query /\ SerialScan' = SerialScan
      BY <3>1, SameSearch
    <3>3. query.needle # <<>> => names = <<>> \/ query.limit = 0
      BY <2>6 DEF StartEmpty
    <3>4. query.needle # <<>> => SerialScan = <<>>
      BY <1>0, <3>3, NothingToFind
    <3> QED BY <3>1, <3>2, <3>4 DEF TrigramWalk, TrigramIsSerial
  <2> QED BY <1>1, <2>1, <2>2, <2>3, <2>4, <2>5, <2>6 DEF Search, SearchNext
<1>3. CASE Exact
  BY <1>3, <1>9 DEF Exact
<1>4. CASE dispatch \/ Seed \/ EndWalk
  <2>1. pc' = "replied" \/ pc' = "walk"
    BY <1>4 DEF dispatch, Seed, EndWalk, SendReply
  <2> QED BY <1>9, <2>1
<1>5. CASE Expand \/ NextHop
  <2>1. pc' = "walk"
    BY <1>5 DEF Expand, NextHop, WalkStep, searchVars
  <2> QED BY <1>9, <2>1
<1>6. CASE Follow
  <2>1. pc' = "replied" \/ pc' = "walk"
    BY <1>6 DEF Follow, SendReply, searchVars
  <2> QED BY <1>9, <2>1
<1>7. CASE UNCHANGED vars
  <2>1. UNCHANGED searchVars
    BY <1>7 DEF vars
  <2>2. pc' = pc /\ out' = out /\ scan' = scan /\ UNCHANGED <<names, ix, query>>
    BY <2>1 DEF searchVars
  <2>3. query' = query /\ SerialScan' = SerialScan
    BY <2>2, SameSearch
  <2>4. ASSUME pc = "probe" PROVE \E t, u, a : Probing(t, u, a)'
    <3>1. PICK t, u, a : Probing(t, u, a)
      BY <2>4 DEF TrigramWalk
    <3>2. Probing(t, u, a)'
      BY <2>1, <3>1, ProbingKept
    <3> QED BY <3>2
  <2> QED BY <2>2, <2>3, <2>4 DEF TrigramWalk, TrigramIsSerial
<1> QED BY <1>1, <1>3, <1>4, <1>5, <1>6, <1>7 DEF Next

\* For every name table, block size, varint base, needle, limit and case
\* handling, the search through the trigram index (syms_matching_substring_trigram in
\* reader.rs) returns what a serial scan of the name table returns, in the
\* same order.
THEOREM TrigramSearchIsSerial == Spec => []TrigramIsSerial
<1> DEFINE Inv == Typed /\ Built /\ ScanWalk /\ TrigramWalk
<1>1. Init => Inv
  <2> SUFFICES ASSUME Init PROVE Inv
    OBVIOUS
  <2>1. scan = <<>> /\ out = <<>> /\ pc \in {"start", "exact"} /\ ix = build_trigram_index(names)
    BY DEF Init, SearchInit
  <2>2. ScanWalk /\ TrigramWalk /\ Built
    BY <2>1 DEF ScanWalk, ScanInv, TrigramWalk, TrigramIsSerial, Built
  <2> QED BY <2>2, InitTyped
<1>2. Inv /\ [Next]_vars => Inv'
  BY NextTyped, NextBuilt, NextScan, NextTrigram
<1>3. Inv => TrigramIsSerial
  BY DEF TrigramWalk
<1> QED BY <1>1, <1>2, <1>3, PTL DEF Spec

-----------------------------------------------------------------------------
(* Lookups.  A table is searched by its order; what is found is what a     *)
(* scan of its rows finds.                                                 *)

\* A set of places with every place below one of its own ends somewhere.
LEMMA CutExists ==
    ASSUME NEW n \in Nat, NEW C, \A i, j \in 1..n : i < j /\ j \in C => i \in C
    PROVE  \E c \in 0..n : CutAt(C, n, c)
<1> DEFINE S == {b \in Nat : b < n /\ b + 1 \notin C} \cup {n}
<1>1. S \in SUBSET Nat /\ S # {}
  OBVIOUS
<1>2. PICK c \in S : \A b \in S : c <= b
  <2> HIDE DEF S
  <2> QED BY <1>1, LeastNat
<1>3. c \in 0..n
  BY <1>2
<1>4. ASSUME NEW i \in 1..n
      PROVE  i \in C <=> i <= c
  <2>1. ASSUME i <= c, i \notin C PROVE FALSE
    <3>1. i - 1 \in Nat /\ i - 1 < n /\ (i - 1) + 1 = i
      OBVIOUS
    <3>2. i - 1 \in S
      BY <2>1, <3>1
    <3>3. c <= i - 1
      BY <1>2, <3>2
    <3> QED BY <1>3, <2>1, <3>3
  <2>2. ASSUME i \in C, ~ (i <= c) PROVE FALSE
    <3>1. c < n /\ c < i
      BY <1>3, <2>2
    <3>2. c + 1 \notin C /\ c + 1 \in 1..n /\ c + 1 <= i
      BY <1>2, <1>3, <3>1
    <3> QED BY <2>2, <3>2
  <2> QED BY <2>1, <2>2
<1> QED BY <1>3, <1>4 DEF CutAt

\* lower_bound counts the rows below the needle.
LEMMA LowerSearch ==
    ASSUME NEW table, NEW needle, NEW n, n = Len(table), NEW C, C = {i \in 1..n : LexLess(table[i], needle)}, NEW c, CutAt(C, n, c)
    PROVE  lower_bound(table, needle) = Clamp(c, 0, n)
<1> DEFINE Body(f, p) == IF p[1] >= p[2] THEN p[1]
                         ELSE IF LexLess(table[((p[1] + p[2]) \div 2) + 1], needle) THEN f[<<((p[1] + p[2]) \div 2) + 1, p[2]>>] ELSE f[<<p[1], ((p[1] + p[2]) \div 2)>>]
           E(f) == f = [p \in (0..n) \X (0..n) |-> Body(f, p)]
           it == CHOOSE f : E(f)
<1>1. n \in Nat
  BY DEF CutAt
<1>2. PICK f : f = [z \in Span(n) |-> f[z]] /\ BoundRule(f, n, C)
  BY BoundExists
<1>3. ASSUME NEW h, NEW lo \in 0..n, NEW hi \in 0..n
      PROVE  Body(h, <<lo, hi>>) = BoundBody(h, C, lo, hi)
  <2> DEFINE m == Mid(lo, hi)
             pr == <<lo, hi>>
  <2>1. pr[1] = lo /\ pr[2] = hi /\ (pr[1] + pr[2]) \div 2 = m
    BY DEF Mid
  <2>2. Body(h, pr) = IF lo >= hi THEN lo
                     ELSE IF LexLess(table[m + 1], needle) THEN h[<<m + 1, hi>>] ELSE h[<<lo, m>>]
    <3> HIDE DEF m, pr
    <3> QED BY <2>1, Zenon
  <2>3. CASE lo >= hi
    BY <2>2, <2>3 DEF BoundBody
  <2>4. CASE ~ (lo >= hi)
    <3>1. m \in Nat /\ m < hi
      BY <1>1, <2>4, MidIn
    <3> HIDE DEF m, Body
    <3>2. m + 1 \in 1..n
      BY <1>1, <3>1
    <3>3. m + 1 \in C <=> LexLess(table[m + 1], needle)
      <4>1. (m + 1) - 1 = m
        BY <3>1
      <4> QED BY <3>2, <4>1
    <3>4. BoundBody(h, C, lo, hi) = IF m + 1 \in C THEN h[<<m + 1, hi>>] ELSE h[<<lo, m>>]
      BY <2>4 DEF BoundBody, m
    <3> QED BY <2>2, <2>4, <3>3, <3>4
  <2> QED BY <2>3, <2>4
<1>4. E(f)
  <2>1. ASSUME NEW z \in (0..n) \X (0..n)
        PROVE  f[z] = Body(f, z)
    <3>1. PICK lo \in 0..n, hi \in 0..n : z = <<lo, hi>>
      BY <2>1
    <3> HIDE DEF Body
    <3>2. f[<<lo, hi>>] = BoundBody(f, C, lo, hi)
      BY <1>2 DEF BoundRule
    <3>3. Body(f, <<lo, hi>>) = BoundBody(f, C, lo, hi)
      BY <1>3
    <3> QED BY <3>1, <3>2, <3>3, Zenon
  <2> HIDE DEF Body
  <2> QED BY <1>2, <2>1 DEF Span
<1>5. E(it)
  <2> HIDE DEF E
  <2> QED BY <1>4
<1>6. lower_bound(table, needle) = it[<<0, n>>]
  BY Zenon DEF lower_bound, LowerBoundBy
<1> HIDE DEF it
<1>7. BoundRule(it, n, C)
  <2>1. ASSUME NEW lo \in 0..n, NEW hi \in 0..n
        PROVE  it[<<lo, hi>>] = BoundBody(it, C, lo, hi)
    <3>1. it = [p \in (0..n) \X (0..n) |-> Body(it, p)]
      BY <1>5
    <3> HIDE DEF Body
    <3>2. it[<<lo, hi>>] = Body(it, <<lo, hi>>)
      BY <3>1
    <3> QED BY <1>3, <3>2
  <2> QED BY <2>1 DEF BoundRule
<1>8. it[<<0, n>>] = Clamp(c, 0, n)
  <2>1. 0 \in 0..n /\ n \in 0..n
    BY <1>1
  <2> QED BY <1>7, <2>1, BoundFound
<1> QED BY <1>6, <1>8, Zenon

\* The first place that is not below the name asked for.
NameLow(table, q) == LowerBoundBy(Len(table), LAMBDA i : StrLess(table[i][1], q))

\* The names below the one asked for.
LEMMA NameSearched ==
    ASSUME NEW table, NEW q, NEW n, n = Len(table), NEW C, C = {i \in 1..n : StrLess(table[i][1], q)}, NEW c, CutAt(C, n, c)
    PROVE  NameLow(table, q) = Clamp(c, 0, n)
<1> DEFINE Body(f, p) == IF p[1] >= p[2] THEN p[1]
                         ELSE IF StrLess(table[((p[1] + p[2]) \div 2) + 1][1], q) THEN f[<<((p[1] + p[2]) \div 2) + 1, p[2]>>] ELSE f[<<p[1], ((p[1] + p[2]) \div 2)>>]
           E(f) == f = [p \in (0..n) \X (0..n) |-> Body(f, p)]
           it == CHOOSE f : E(f)
<1>1. n \in Nat
  BY DEF CutAt
<1>2. PICK f : f = [z \in Span(n) |-> f[z]] /\ BoundRule(f, n, C)
  BY BoundExists
<1>3. ASSUME NEW h, NEW lo \in 0..n, NEW hi \in 0..n
      PROVE  Body(h, <<lo, hi>>) = BoundBody(h, C, lo, hi)
  <2> DEFINE m == Mid(lo, hi)
             pr == <<lo, hi>>
  <2>1. pr[1] = lo /\ pr[2] = hi /\ (pr[1] + pr[2]) \div 2 = m
    BY DEF Mid
  <2>2. Body(h, pr) = IF lo >= hi THEN lo
                     ELSE IF StrLess(table[m + 1][1], q) THEN h[<<m + 1, hi>>] ELSE h[<<lo, m>>]
    <3> HIDE DEF m, pr
    <3> QED BY <2>1, Zenon
  <2>3. CASE lo >= hi
    BY <2>2, <2>3 DEF BoundBody
  <2>4. CASE ~ (lo >= hi)
    <3>1. m \in Nat /\ m < hi
      BY <1>1, <2>4, MidIn
    <3> HIDE DEF m, Body
    <3>2. m + 1 \in 1..n
      BY <1>1, <3>1
    <3>3. m + 1 \in C <=> StrLess(table[m + 1][1], q)
      <4>1. (m + 1) - 1 = m
        BY <3>1
      <4> QED BY <3>2, <4>1
    <3>4. BoundBody(h, C, lo, hi) = IF m + 1 \in C THEN h[<<m + 1, hi>>] ELSE h[<<lo, m>>]
      BY <2>4 DEF BoundBody, m
    <3> QED BY <2>2, <2>4, <3>3, <3>4
  <2> QED BY <2>3, <2>4
<1>4. E(f)
  <2>1. ASSUME NEW z \in (0..n) \X (0..n)
        PROVE  f[z] = Body(f, z)
    <3>1. PICK lo \in 0..n, hi \in 0..n : z = <<lo, hi>>
      BY <2>1
    <3> HIDE DEF Body
    <3>2. f[<<lo, hi>>] = BoundBody(f, C, lo, hi)
      BY <1>2 DEF BoundRule
    <3>3. Body(f, <<lo, hi>>) = BoundBody(f, C, lo, hi)
      BY <1>3
    <3> QED BY <3>1, <3>2, <3>3, Zenon
  <2> HIDE DEF Body
  <2> QED BY <1>2, <2>1 DEF Span
<1>5. E(it)
  <2> HIDE DEF E
  <2> QED BY <1>4
<1>6. NameLow(table, q) = it[<<0, n>>]
  BY Zenon DEF NameLow, LowerBoundBy
<1> HIDE DEF it
<1>7. BoundRule(it, n, C)
  <2>1. ASSUME NEW lo \in 0..n, NEW hi \in 0..n
        PROVE  it[<<lo, hi>>] = BoundBody(it, C, lo, hi)
    <3>1. it = [p \in (0..n) \X (0..n) |-> Body(it, p)]
      BY <1>5
    <3> HIDE DEF Body
    <3>2. it[<<lo, hi>>] = Body(it, <<lo, hi>>)
      BY <3>1
    <3> QED BY <1>3, <3>2
  <2> QED BY <2>1 DEF BoundRule
<1>8. it[<<0, n>>] = Clamp(c, 0, n)
  <2>1. 0 \in 0..n /\ n \in 0..n
    BY <1>1
  <2> QED BY <1>7, <2>1, BoundFound
<1> QED BY <1>6, <1>8, Zenon

\* FindKey finds the row that is neither below nor above.
LEMMA KeySearch ==
    ASSUME NEW table, NEW key, NEW n, n = Len(table), NEW C, C = {i \in 1..n : table[i][1] < key}, NEW A, A = {i \in 1..n : table[i][1] > key},
           Parted(C, A, n)
    PROVE  FindKey(table, key) = Equal(C, A, table, 0, n)
<1> DEFINE Body(f, p) == IF p[1] >= p[2] THEN {}
                         ELSE IF table[((p[1] + p[2]) \div 2) + 1][1] < key THEN f[<<((p[1] + p[2]) \div 2) + 1, p[2]>>]
                         ELSE IF table[((p[1] + p[2]) \div 2) + 1][1] > key THEN f[<<p[1], ((p[1] + p[2]) \div 2)>>] ELSE {table[((p[1] + p[2]) \div 2) + 1]}
           E(f) == f = [p \in (0..n) \X (0..n) |-> Body(f, p)]
           it == CHOOSE f : E(f)
<1>1. n \in Nat
  BY DEF Parted
<1>2. PICK f : f = [z \in Span(n) |-> f[z]] /\ KeyedBy(f, n, C, A, table)
  BY KeyedExists
<1>3. ASSUME NEW h, NEW lo \in 0..n, NEW hi \in 0..n
      PROVE  Body(h, <<lo, hi>>) = KeyBody(h, C, A, table, lo, hi)
  <2> DEFINE m == Mid(lo, hi)
             pr == <<lo, hi>>
  <2>1. pr[1] = lo /\ pr[2] = hi /\ (pr[1] + pr[2]) \div 2 = m
    BY DEF Mid
  <2>2. Body(h, pr) = IF lo >= hi THEN {}
                     ELSE IF table[m + 1][1] < key THEN h[<<m + 1, hi>>]
                     ELSE IF table[m + 1][1] > key THEN h[<<lo, m>>] ELSE {table[m + 1]}
    <3> HIDE DEF m, pr
    <3> QED BY <2>1, Zenon
  <2>3. CASE lo >= hi
    BY <2>2, <2>3 DEF KeyBody
  <2>4. CASE ~ (lo >= hi)
    <3>1. m \in Nat /\ m < hi
      BY <1>1, <2>4, MidIn
    <3> HIDE DEF m, Body
    <3>2. m + 1 \in 1..n
      BY <1>1, <3>1
    <3>3. (m + 1 \in C <=> table[m + 1][1] < key) /\ (m + 1 \in A <=> table[m + 1][1] > key)
      BY <3>2
    <3>4. KeyBody(h, C, A, table, lo, hi) = IF m + 1 \in C THEN h[<<m + 1, hi>>] ELSE IF m + 1 \in A THEN h[<<lo, m>>] ELSE {table[m + 1]}
      BY <2>4 DEF KeyBody, m
    <3> QED BY <2>2, <2>4, <3>3, <3>4
  <2> QED BY <2>3, <2>4
<1>4. E(f)
  <2>1. ASSUME NEW z \in (0..n) \X (0..n)
        PROVE  f[z] = Body(f, z)
    <3>1. PICK lo \in 0..n, hi \in 0..n : z = <<lo, hi>>
      BY <2>1
    <3> HIDE DEF Body
    <3>2. f[<<lo, hi>>] = KeyBody(f, C, A, table, lo, hi)
      BY <1>2 DEF KeyedBy
    <3>3. Body(f, <<lo, hi>>) = KeyBody(f, C, A, table, lo, hi)
      BY <1>3
    <3> QED BY <3>1, <3>2, <3>3, Zenon
  <2> HIDE DEF Body
  <2> QED BY <1>2, <2>1 DEF Span
<1>5. E(it)
  <2> HIDE DEF E
  <2> QED BY <1>4
<1>6. FindKey(table, key) = it[<<0, n>>]
  BY Zenon DEF FindKey
<1> HIDE DEF it
<1>7. KeyedBy(it, n, C, A, table)
  <2>1. ASSUME NEW lo \in 0..n, NEW hi \in 0..n
        PROVE  it[<<lo, hi>>] = KeyBody(it, C, A, table, lo, hi)
    <3>1. it = [p \in (0..n) \X (0..n) |-> Body(it, p)]
      BY <1>5
    <3> HIDE DEF Body
    <3>2. it[<<lo, hi>>] = Body(it, <<lo, hi>>)
      BY <3>1
    <3> QED BY <1>3, <3>2
  <2> QED BY <2>1 DEF KeyedBy
<1>8. it[<<0, n>>] = Equal(C, A, table, 0, n)
  <2>1. 0 \in 0..n /\ n \in 0..n
    BY <1>1
  <2> QED BY <1>7, <2>1, KeyedFound
<1> QED BY <1>6, <1>8, Zenon

\* Rows of two, three and four numbers.
LEMMA RowsAreTuples ==
    /\ \A x, y \in Int : <<x, y>> \in Tuple(2)
    /\ \A x, y, z \in Int : <<x, y, z>> \in Tuple(3)
    /\ \A x, y, z, w \in Int : <<x, y, z, w>> \in Tuple(4)
BY DEF Tuple

\* lower_bound cuts an ascending table.
LEMMA LowerFound ==
    ASSUME NEW k \in Nat, NEW table \in Seq(Tuple(k)), Ascends(table), NEW needle \in Tuple(k)
    PROVE  /\ lower_bound(table, needle) \in 0..Len(table)
           /\ \A i \in 1..Len(table) : LexLess(table[i], needle) <=> i <= lower_bound(table, needle)
<1> DEFINE n == Len(table)
           C == {i \in 1..n : LexLess(table[i], needle)}
<1>1. n \in Nat /\ \A i \in 1..n : table[i] \in Tuple(k)
  OBVIOUS
<1>2. ASSUME NEW i \in 1..n, NEW j \in 1..n, i < j, j \in C
      PROVE  i \in C
  <2>1. LexLess(table[i], table[j]) /\ LexLess(table[j], needle)
    BY <1>2 DEF Ascends
  <2> QED BY <1>1, <2>1, LexTransitive
<1>3. C = {i \in 1..n : LexLess(table[i], needle)}
  OBVIOUS
<1> HIDE DEF C
<1>4. PICK c \in 0..n : CutAt(C, n, c)
  BY <1>1, <1>2, CutExists
<1>5. lower_bound(table, needle) = Clamp(c, 0, n)
  BY <1>3, <1>4, LowerSearch, ZenonT(40)
<1>6. Clamp(c, 0, n) = c
  BY <1>1, <1>4 DEF Clamp
<1> QED BY <1>3, <1>4, <1>5, <1>6 DEF CutAt

Cut(s, a, b) == a \in 0..Len(s) /\ b \in 0..Len(s) /\ Distinct(s)

\* The elements of the places a + 1 to b, each once.
Part(got, V, s, a, b) ==
    /\ got \in Seq(V) /\ Len(got) \in Nat /\ Distinct(got)
    /\ ToSet(got) = {s[i] : i \in (a + 1)..b}

\* A part of a list without repeats.
LEMMA PartOf ==
    ASSUME NEW V, NEW s \in Seq(V), NEW a \in Nat, NEW b \in Nat, Cut(s, a, b),
           NEW got, got = SubSeq(s, a + 1, b)
    PROVE  Part(got, V, s, a, b)
<1> SUFFICES /\ got \in Seq(V) /\ Len(got) \in Nat /\ Distinct(got)
             /\ ToSet(got) = {s[i] : i \in (a + 1)..b}
  BY DEF Part
<1>0. a \in 0..Len(s) /\ b \in 0..Len(s) /\ Distinct(s)
  BY DEF Cut
<1>1. CASE b <= a
  <2>1. got = <<>> /\ {s[i] : i \in (a + 1)..b} = {}
    BY <1>0, <1>1
  <2>2. got \in Seq(V) /\ Len(got) = 0 /\ ToSet(got) = {}
    <3>0. got = <<>>
      BY <2>1
    <3>1. got \in Seq(V) /\ Len(got) = 0
      BY <3>0
    <3>2. ToSet(got) = {}
      BY <2>1, ElementsOf, Zenon
    <3> QED BY <3>1, <3>2
  <2>3. Distinct(got)
    BY <2>2 DEF Distinct
  <2> QED BY <2>1, <2>2, <2>3
<1>2. CASE a < b
  <2>1. b \in a..Len(s)
    BY <1>0, <1>2
  <2>2. got = Slice(s, a, b)
    BY DEF Slice
  <2>3. got \in Seq(V) /\ Len(got) = b - a /\ \A i \in 1..(b - a) : got[i] = s[a + i]
    BY <1>0, <2>1, <2>2, SliceAt
  <2>4. ToSet(got) = RowsIn(got)
    BY <2>3, ElementsOf
  <2>5. RowsIn(got) = {s[i] : i \in (a + 1)..b}
    <3>1. ASSUME NEW i \in 1..(b - a)
          PROVE  got[i] = s[a + i] /\ a + i \in (a + 1)..b
      BY <1>0, <2>1, <2>3
    <3>2. ASSUME NEW i \in (a + 1)..b
          PROVE  i - a \in 1..(b - a) /\ got[i - a] = s[i]
      <4>1. i - a \in 1..(b - a) /\ a + (i - a) = i
        BY <1>0, <2>1
      <4> QED BY <2>3, <4>1
    <3>3. RowsIn(got) = {got[i] : i \in 1..(b - a)}
      BY <2>3 DEF RowsIn
    <3>4. {got[i] : i \in 1..(b - a)} = {s[i] : i \in (a + 1)..b}
      <4>1. ASSUME NEW x \in {got[i] : i \in 1..(b - a)} PROVE x \in {s[i] : i \in (a + 1)..b}
        <5>1. PICK i \in 1..(b - a) : x = got[i]
          OBVIOUS
        <5> QED BY <3>1, <5>1
      <4>2. ASSUME NEW x \in {s[i] : i \in (a + 1)..b} PROVE x \in {got[i] : i \in 1..(b - a)}
        <5>1. PICK i \in (a + 1)..b : x = s[i]
          OBVIOUS
        <5> QED BY <3>2, <5>1
      <4> QED BY <4>1, <4>2, Zenon
    <3> QED BY <3>3, <3>4
  <2>6. Distinct(got)
    <3> SUFFICES ASSUME NEW i \in 1..(b - a), NEW j \in 1..(b - a), got[i] = got[j] PROVE i = j
      BY <2>3 DEF Distinct
    <3>1. s[a + i] = s[a + j]
      BY <2>3
    <3>2. a + i \in 1..Len(s) /\ a + j \in 1..Len(s)
      BY <1>0, <2>1
    <3>3. a + i = a + j
      BY <1>0, <3>1, <3>2 DEF Distinct
    <3> QED BY <1>0, <3>3
  <2>7. Len(got) \in Nat
    BY <1>0, <1>2, <2>3
  <2> QED BY <2>3, <2>4, <2>5, <2>6, <2>7
<1> QED BY <1>0, <1>1, <1>2

\* The rows between two cuts.
Between(V, lo, hi, K) == \A r \in V : r \in K <=> ~ LexLess(r, lo) /\ LexLess(r, hi)

\* The rows of a table that are in K, each once.
ReadOf(got, V, table, K) ==
    got \in Seq(V) /\ ToSet(got) = ToSet(table) \cap K /\ Distinct(got) /\ Len(got) \in Nat

\* A range lookup returns the rows of the range, each once.
LEMMA RowsBetween ==
    ASSUME NEW V, NEW k \in Nat, NEW table \in Seq(V), V \in SUBSET Tuple(k), Ascends(table),
           NEW lo \in Tuple(k), NEW hi \in Tuple(k), NEW K, Between(V, lo, hi, K)
    PROVE  ReadOf(SubSeq(table, lower_bound(table, lo) + 1, lower_bound(table, hi)), V, table, K)
<1> DEFINE n == Len(table)
           a == lower_bound(table, lo)
           b == lower_bound(table, hi)
<1>0. table \in Seq(Tuple(k)) /\ n \in Nat /\ \A i \in 1..n : table[i] \in V
  OBVIOUS
<1>1. /\ a \in 0..n /\ b \in 0..n
      /\ \A i \in 1..n : LexLess(table[i], lo) <=> i <= a
      /\ \A i \in 1..n : LexLess(table[i], hi) <=> i <= b
  BY <1>0, LowerFound
<1> SUFFICES ReadOf(SubSeq(table, a + 1, b), V, table, K)
  OBVIOUS
<1> HIDE DEF a, b
<1>2. PICK got : got = SubSeq(table, a + 1, b)
  OBVIOUS
<1>4. \A i \in 1..n : table[i] \in K <=> i \in (a + 1)..b
  BY <1>0, <1>1 DEF Between
<1>5. Distinct(table)
  <2>1. \A i, j \in 1..n : i < j => table[i] # table[j]
    <3> SUFFICES ASSUME NEW i \in 1..n, NEW j \in 1..n, i < j, table[i] = table[j] PROVE FALSE
      OBVIOUS
    <3>1. LexLess(table[i], table[j]) /\ table[i] \in Tuple(k)
      BY <1>0 DEF Ascends
    <3> QED BY <3>1, LexIrreflexive
  <2> QED BY <1>0, <2>1 DEF Distinct
<1>6. got \in Seq(V) /\ Len(got) \in Nat /\ Distinct(got) /\ ToSet(got) = {table[i] : i \in (a + 1)..b}
  <2>1. a \in 0..Len(table) /\ b \in 0..Len(table)
    BY <1>1
  <2>2. Cut(table, a, b)
    BY <1>5, <2>1 DEF Cut
  <2>3. a \in Nat /\ b \in Nat
    BY <1>1
  <2>4. Part(got, V, table, a, b)
    BY <1>2, <2>2, <2>3, PartOf
  <2> QED BY <2>4 DEF Part
<1>7. ToSet(table) = {table[i] : i \in 1..n}
  BY ElementsOf DEF RowsIn
<1>8. {table[i] : i \in (a + 1)..b} = ToSet(table) \cap K
  <2>1. (a + 1)..b \in SUBSET (1..n)
    BY <1>0, <1>1
  <2> HIDE DEF n
  <2> QED BY <1>4, <1>7, <2>1
<1>9. ReadOf(got, V, table, K)
  BY <1>6, <1>8 DEF ReadOf
<1> QED BY <1>2, <1>9

\* Rows of two and of three columns that begin below s.
LEMMA FirstBelow ==
    /\ \A x, y \in Nat, s \in Nat : LexLess(<<x, y>>, <<s, 0>>) <=> x < s
    /\ \A x, y, z \in Nat, s \in Nat : LexLess(<<x, y, z>>, <<s, 0, 0>>) <=> x < s
<1>1. ASSUME NEW x \in Nat, NEW y \in Nat, NEW s \in Nat
      PROVE  LexLess(<<x, y>>, <<s, 0>>) <=> x < s
  <2>1. DOMAIN <<x, y>> = 1..2
    OBVIOUS
  <2> QED BY <2>1 DEF LexLess
<1>2. ASSUME NEW x \in Nat, NEW y \in Nat, NEW z \in Nat, NEW s \in Nat
      PROVE  LexLess(<<x, y, z>>, <<s, 0, 0>>) <=> x < s
  <2>1. DOMAIN <<x, y, z>> = 1..3
    OBVIOUS
  <2> QED BY <2>1 DEF LexLess
<1> QED BY <1>1, <1>2

\* Rows of four columns that come before a symbol and a role.
LEMMA RoleBelow ==
    \A x, y, z, w \in Nat, s, lo \in Nat :
        LexLess(<<x, y, z, w>>, <<s, lo, 0, 0>>) <=> x < s \/ (x = s /\ y < lo)
<1> SUFFICES ASSUME NEW x \in Nat, NEW y \in Nat, NEW z \in Nat, NEW w \in Nat, NEW s \in Nat, NEW lo \in Nat
             PROVE  LexLess(<<x, y, z, w>>, <<s, lo, 0, 0>>) <=> x < s \/ (x = s /\ y < lo)
  OBVIOUS
<1> DEFINE a == <<x, y, z, w>>
           b == <<s, lo, 0, 0>>
<1>1. /\ DOMAIN a = 1..4 /\ a[1] = x /\ a[2] = y /\ a[3] = z /\ a[4] = w
      /\ b[1] = s /\ b[2] = lo /\ b[3] = 0 /\ b[4] = 0
  OBVIOUS
<1> HIDE DEF a, b
<1>2. LexLess(a, b) <=> \E i \in 1..4 : a[i] < b[i] /\ \A j \in 1..(i - 1) : a[j] = b[j]
  BY <1>1 DEF LexLess
<1>3. ASSUME x < s PROVE LexLess(a, b)
  <2>1. a[1] < b[1] /\ \A j \in 1..(1 - 1) : a[j] = b[j]
    BY <1>1, <1>3
  <2> QED BY <1>2, <2>1
<1>4. ASSUME x = s, y < lo PROVE LexLess(a, b)
  <2>1. a[2] < b[2] /\ \A j \in 1..(2 - 1) : a[j] = b[j]
    BY <1>1, <1>4
  <2> QED BY <1>2, <2>1
<1>5. ASSUME NEW i \in 1..4, a[i] < b[i], \A j \in 1..(i - 1) : a[j] = b[j]
      PROVE  x < s \/ (x = s /\ y < lo)
  <2>1. i = 1 \/ i = 2 \/ i = 3 \/ i = 4
    OBVIOUS
  <2>2. i # 3 /\ i # 4
    BY <1>1, <1>5
  <2>3. CASE i = 1
    BY <1>1, <1>5, <2>3
  <2>4. CASE i = 2
    <3>1. a[1] = b[1]
      BY <1>5, <2>4
    <3> QED BY <1>1, <1>5, <2>4, <3>1
  <2> QED BY <2>1, <2>2, <2>3, <2>4
<1>6. LexLess(a, b) <=> x < s \/ (x = s /\ y < lo)
  BY <1>2, <1>3, <1>4, <1>5
<1> QED BY <1>6 DEF a, b

EdgeRow == Sym \X Sym
SiteRow == Sym \X Sym \X Nat
XrefRow == Sym \X (0..MaxRole) \X Nat \X Nat

\* The rows a symbol has.
EdgesIn(s)       == {r \in EdgeRow : r[1] = s}
SitesIn(s)       == {r \in SiteRow : r[1] = s}
XrefsIn(s, a, b) == {r \in XrefRow : r[1] = s /\ r[2] \in a..b}

\* Symbols are numbers, and the symbol after one is one more.
LEMMA SymNext ==
    /\ \A s \in Sym : s \in Nat /\ NextSym(s) = s + 1
    /\ Sym \in SUBSET Nat /\ 0..MaxRole \in SUBSET Nat /\ MaxRole \in Nat /\ MaxRole > RoleCall
BY ReaderAssumption DEF Sym, NextSym

\* The rows of a table of pairs that a symbol has.
LEMMA EdgesFound ==
    ASSUME NEW table \in Seq(EdgeRow), Ascends(table), NEW s \in Sym
    PROVE  ReadOf(RowsOf(table, s, 2), EdgeRow, table, EdgesIn(s))
<1> DEFINE lo == <<s, 0>>
           hi == <<s + 1, 0>>
           K  == {r \in EdgeRow : r[1] = s}
<1>1. s \in Nat /\ s + 1 \in Nat /\ NextSym(s) = s + 1 /\ Sym \in SUBSET Nat
  BY SymNext
<1>2. <<s>> \o Zeros(2 - 1) = lo /\ <<s + 1>> \o Zeros(2 - 1) = hi
  <2>1. Zeros(2 - 1) = <<0>>
    BY DEF Zeros
  <2>2. ASSUME NEW x \in Nat PROVE <<x>> \o <<0>> = <<x, 0>>
    <3>1. <<x>> \in Seq(Nat) /\ <<0>> \in Seq(Nat) /\ <<x, 0>> \in Seq(Nat) /\ Len(<<x, 0>>) = 2
      OBVIOUS
    <3>2. Len(<<x>>) = 1 /\ Len(<<0>>) = 1 /\ <<x>>[1] = x /\ <<0>>[1] = 0
      OBVIOUS
    <3> DEFINE t == <<x>> \o <<0>>
    <3>3. t \in Seq(Nat) /\ Len(t) = 2 /\ t[1] = x /\ t[2] = 0
      <4>1. t \in Seq(Nat) /\ Len(t) = 1 + 1
        BY <3>1, <3>2, ConcatAt
      <4>2. t[1] = x /\ t[1 + 1] = 0
        BY <3>1, <3>2, ConcatMore
      <4> QED BY <4>1, <4>2
    <3> HIDE DEF t
    <3>4. t = <<x, 0>>
      BY <3>1, <3>3
    <3> QED BY <3>4 DEF t
  <2> QED BY <1>1, <2>1, <2>2
<1>3. lo \in Tuple(2) /\ hi \in Tuple(2)
  BY <1>1, RowsAreTuples
<1>0. \A r \in EdgeRow : r = <<r[1], r[2]>> /\ r[1] \in Nat /\ r[2] \in Nat
  <2>1. \A r \in EdgeRow : r = <<r[1], r[2]>> /\ r[1] \in Sym /\ r[2] \in Sym
    BY DEF EdgeRow
  <2> QED BY <1>1, <2>1
<1>4. EdgeRow \in SUBSET Tuple(2)
  BY <1>0, RowsAreTuples
<1>5. ASSUME NEW r \in EdgeRow
      PROVE  r \in K <=> ~ LexLess(r, lo) /\ LexLess(r, hi)
  <2>1. PICK x \in Nat, y \in Nat : r = <<x, y>>
    BY <1>0
  <2>2. (LexLess(<<x, y>>, <<s, 0>>) <=> x < s) /\ (LexLess(<<x, y>>, <<s + 1, 0>>) <=> x < s + 1)
    BY <1>1, FirstBelow
  <2>3. r \in K <=> x = s
    BY <2>1
  <2>4. x = s <=> ~ (x < s) /\ x < s + 1
    BY <1>1
  <2> QED BY <2>1, <2>2, <2>3, <2>4, Zenon
<1>6. Between(EdgeRow, lo, hi, K)
  BY <1>5 DEF Between
<1>7. RowsOf(table, s, 2) = SubSeq(table, lower_bound(table, lo) + 1, lower_bound(table, hi))
  <2> HIDE DEF lo, hi
  <2> QED BY <1>1, <1>2, Zenon DEF RowsOf
<1> HIDE DEF lo, hi, K
<1>8. ReadOf(SubSeq(table, lower_bound(table, lo) + 1, lower_bound(table, hi)), EdgeRow, table, K)
  BY <1>3, <1>4, <1>6, RowsBetween
<1> QED BY <1>7, <1>8, Zenon DEF K, EdgesIn

\* The same for rows of three columns.
LEMMA SitesFound ==
    ASSUME NEW table \in Seq(SiteRow), Ascends(table), NEW s \in Sym
    PROVE  ReadOf(RowsOf(table, s, 3), SiteRow, table, SitesIn(s))
<1> DEFINE lo == <<s, 0, 0>>
           hi == <<s + 1, 0, 0>>
           K  == {r \in SiteRow : r[1] = s}
<1>1. s \in Nat /\ s + 1 \in Nat /\ NextSym(s) = s + 1 /\ Sym \in SUBSET Nat
  BY SymNext
<1>2. <<s>> \o Zeros(3 - 1) = lo /\ <<s + 1>> \o Zeros(3 - 1) = hi
  <2>1. Zeros(3 - 1) = <<0, 0>>
    BY DEF Zeros
  <2>2. ASSUME NEW x \in Nat PROVE <<x>> \o <<0, 0>> = <<x, 0, 0>>
    <3>1. <<x>> \in Seq(Nat) /\ <<0, 0>> \in Seq(Nat) /\ <<x, 0, 0>> \in Seq(Nat) /\ Len(<<x, 0, 0>>) = 3
      OBVIOUS
    <3>2. Len(<<x>>) = 1 /\ Len(<<0, 0>>) = 2 /\ <<x>>[1] = x /\ <<0, 0>>[1] = 0 /\ <<0, 0>>[2] = 0
      OBVIOUS
    <3> DEFINE t == <<x>> \o <<0, 0>>
    <3>3. t \in Seq(Nat) /\ Len(t) = 3 /\ t[1] = x /\ t[2] = 0 /\ t[3] = 0
      <4>1. t \in Seq(Nat) /\ Len(t) = 1 + 2
        BY <3>1, <3>2, ConcatAt
      <4>2. t[1] = x /\ t[1 + 1] = 0 /\ t[1 + 2] = 0
        BY <3>1, <3>2, ConcatMore
      <4> QED BY <4>1, <4>2
    <3> HIDE DEF t
    <3>4. t = <<x, 0, 0>>
      BY <3>1, <3>3
    <3> QED BY <3>4 DEF t
  <2> QED BY <1>1, <2>1, <2>2
<1>3. lo \in Tuple(3) /\ hi \in Tuple(3)
  BY <1>1, RowsAreTuples
<1>0. \A r \in SiteRow : r = <<r[1], r[2], r[3]>> /\ r[1] \in Nat /\ r[2] \in Nat /\ r[3] \in Nat
  <2>1. \A r \in SiteRow : r = <<r[1], r[2], r[3]>> /\ r[1] \in Sym /\ r[2] \in Sym /\ r[3] \in Nat
    BY DEF SiteRow
  <2> QED BY <1>1, <2>1
<1>4. SiteRow \in SUBSET Tuple(3)
  BY <1>0, RowsAreTuples
<1>5. ASSUME NEW r \in SiteRow
      PROVE  r \in K <=> ~ LexLess(r, lo) /\ LexLess(r, hi)
  <2>1. PICK x \in Nat, y \in Nat, z \in Nat : r = <<x, y, z>>
    BY <1>0
  <2>2. (LexLess(<<x, y, z>>, <<s, 0, 0>>) <=> x < s) /\ (LexLess(<<x, y, z>>, <<s + 1, 0, 0>>) <=> x < s + 1)
    BY <1>1, FirstBelow
  <2>3. r \in K <=> x = s
    BY <2>1
  <2>4. x = s <=> ~ (x < s) /\ x < s + 1
    BY <1>1
  <2> QED BY <2>1, <2>2, <2>3, <2>4, Zenon
<1>6. Between(SiteRow, lo, hi, K)
  BY <1>5 DEF Between
<1>7. RowsOf(table, s, 3) = SubSeq(table, lower_bound(table, lo) + 1, lower_bound(table, hi))
  <2> HIDE DEF lo, hi
  <2> QED BY <1>1, <1>2, Zenon DEF RowsOf
<1> HIDE DEF lo, hi, K
<1>8. ReadOf(SubSeq(table, lower_bound(table, lo) + 1, lower_bound(table, hi)), SiteRow, table, K)
  BY <1>3, <1>4, <1>6, RowsBetween
<1> QED BY <1>7, <1>8, Zenon DEF K, SitesIn

\* The xrefs a symbol has with a role of a range; the largest role ends the
\* range at the next symbol.
LEMMA XrefsFound ==
    ASSUME NEW d, d.xrefs \in Seq(XrefRow), Ascends(d.xrefs), NEW s \in Sym,
           NEW a \in 0..MaxRole, NEW b \in 0..MaxRole
    PROVE  ReadOf(xrefs(d, s, a, b), XrefRow, d.xrefs, XrefsIn(s, a, b))
<1> DEFINE table == d.xrefs
           lo == <<s, a, 0, 0>>
           hi == IF b = MaxRole THEN <<s + 1, 0, 0, 0>> ELSE <<s, b + 1, 0, 0>>
           K  == {r \in XrefRow : r[1] = s /\ r[2] \in a..b}
<1>1. /\ s \in Nat /\ s + 1 \in Nat /\ NextSym(s) = s + 1 /\ Sym \in SUBSET Nat /\ MaxRole \in Nat
      /\ a \in Nat /\ b \in Nat /\ b + 1 \in Nat
  BY SymNext
<1>3. lo \in Tuple(4) /\ hi \in Tuple(4)
  <2>1. \A x, y \in Nat : <<x, y, 0, 0>> \in Tuple(4)
    BY RowsAreTuples
  <2> QED BY <1>1, <2>1
<1>0. \A r \in XrefRow : /\ r = <<r[1], r[2], r[3], r[4]>>
                         /\ r[1] \in Nat /\ r[2] \in 0..MaxRole /\ r[3] \in Nat /\ r[4] \in Nat
  <2>1. \A r \in XrefRow : /\ r = <<r[1], r[2], r[3], r[4]>>
                           /\ r[1] \in Sym /\ r[2] \in 0..MaxRole /\ r[3] \in Nat /\ r[4] \in Nat
    BY DEF XrefRow
  <2> QED BY <1>1, <2>1
<1>4. XrefRow \in SUBSET Tuple(4)
  <2>1. \A r \in XrefRow : r[2] \in Nat
    BY <1>0, <1>1
  <2> QED BY <1>0, <2>1, RowsAreTuples
<1>5. ASSUME NEW r \in XrefRow
      PROVE  r \in K <=> ~ LexLess(r, lo) /\ LexLess(r, hi)
  <2>1. PICK x \in Nat, y \in 0..MaxRole, z \in Nat, w \in Nat : r = <<x, y, z, w>>
    BY <1>0
  <2>2. y \in Nat /\ y <= MaxRole /\ b <= MaxRole
    BY <1>1, <2>1
  <2>3. LexLess(r, lo) <=> x < s \/ (x = s /\ y < a)
    BY <1>1, <2>1, <2>2, RoleBelow
  <2>4. LexLess(r, hi) <=> x < s \/ (x = s /\ y <= b)
    <3>1. CASE b = MaxRole
      <4>1. LexLess(<<x, y, z, w>>, <<s + 1, 0, 0, 0>>) <=> x < s + 1 \/ (x = s + 1 /\ y < 0)
        BY <1>1, <2>1, <2>2, RoleBelow
      <4>2. x < s + 1 \/ (x = s + 1 /\ y < 0) <=> x < s \/ (x = s /\ y <= b)
        BY <1>1, <2>1, <2>2, <3>1
      <4>3. hi = <<s + 1, 0, 0, 0>>
        BY <3>1
      <4> QED BY <2>1, <4>1, <4>2, <4>3, Zenon
    <3>2. CASE b # MaxRole
      <4>1. LexLess(<<x, y, z, w>>, <<s, b + 1, 0, 0>>) <=> x < s \/ (x = s /\ y < b + 1)
        BY <1>1, <2>1, <2>2, RoleBelow, SMTT(30)
      <4>2. y < b + 1 <=> y <= b
        BY <1>1, <2>2
      <4>3. hi = <<s, b + 1, 0, 0>>
        BY <3>2
      <4> QED BY <2>1, <4>1, <4>2, <4>3, Zenon
    <3> QED BY <3>1, <3>2
  <2>5. r \in K <=> x = s /\ a <= y /\ y <= b
    BY <1>1, <2>1, <2>2
  <2> HIDE DEF lo, hi, K
  <2> QED BY <1>1, <2>1, <2>2, <2>3, <2>4, <2>5
<1>6. Between(XrefRow, lo, hi, K)
  BY <1>5 DEF Between
<1>7. xrefs(d, s, a, b) = SubSeq(table, lower_bound(table, lo) + 1, lower_bound(table, hi))
  BY <1>1, Zenon DEF xrefs
<1> HIDE DEF lo, hi, K
<1>8. table \in Seq(XrefRow) /\ Ascends(table)
  OBVIOUS
<1> HIDE DEF table
<1>9. ReadOf(SubSeq(table, lower_bound(table, lo) + 1, lower_bound(table, hi)), XrefRow, table, K)
  BY <1>3, <1>4, <1>6, <1>8, RowsBetween
<1> QED BY <1>7, <1>9, Zenon DEF K, XrefsIn, table

Keyed(table) ==
    /\ Len(table) \in Nat /\ \A i \in 1..Len(table) : table[i][1] \in Nat
    /\ ToSet(table) = {table[i] : i \in 1..Len(table)}
    /\ KeyUp(table)

\* FindKey returns the row that has the key, if one does.
LEMMA KeyFound ==
    ASSUME NEW table, Keyed(table), NEW key \in Nat
    PROVE  FindKey(table, key) = {r \in ToSet(table) : r[1] = key}
<1> DEFINE n == Len(table)
           C == {i \in 1..n : table[i][1] < key}
           A == {i \in 1..n : table[i][1] > key}
<1>1. /\ n \in Nat /\ \A i \in 1..n : table[i][1] \in Nat
      /\ ToSet(table) = {table[i] : i \in 1..n}
      /\ \A i, j \in 1..n : i < j => table[i][1] < table[j][1]
  BY DEF Keyed, KeyUp
<1>2. Parted(C, A, n)
  <2>1. ASSUME NEW i \in 1..n, NEW j \in 1..n, i < j
        PROVE  /\ j \in C => i \in C
               /\ i \in A => j \in A
               /\ i \in C \/ j \in A
    <3>1. table[i][1] \in Nat /\ table[j][1] \in Nat /\ table[i][1] < table[j][1]
      BY <1>1, <2>1
    <3> QED BY <3>1
  <2>2. \A i \in 1..n : ~ (i \in C /\ i \in A)
    BY <1>1
  <2> HIDE DEF C, A
  <2> QED BY <1>1, <2>1, <2>2 DEF Parted
<1>3. \A i \in 1..n : i \notin C /\ i \notin A <=> table[i][1] = key
  BY <1>1
<1>4. n = Len(table) /\ C = {i \in 1..n : table[i][1] < key} /\ A = {i \in 1..n : table[i][1] > key}
  OBVIOUS
<1> HIDE DEF n, C, A
<1>5. FindKey(table, key) = Equal(C, A, table, 0, n)
  BY <1>2, <1>4, KeySearch
<1>6. Equal(C, A, table, 0, n) = {table[i] : i \in {x \in 1..n : x \notin C /\ x \notin A}}
  BY <1>1 DEF Equal
<1>7. {table[i] : i \in {x \in 1..n : x \notin C /\ x \notin A}} = {r \in ToSet(table) : r[1] = key}
  <2>1. ToSet(table) = {table[i] : i \in 1..n}
    BY <1>1
  <2> QED BY <1>3, <2>1
<1> QED BY <1>5, <1>6, <1>7

RunBody(table, q, n, f, i) ==
    IF i > n THEN {} ELSE IF table[i][1] # q THEN {} ELSE {table[i][2]} \cup f[i + 1]

\* The run of rows from place i on.
RunFrom(table, q, n, i) ==
    {table[j][2] : j \in {x \in i..n : \A y \in i..x : table[y][1] = q}}

\* The run of a place is that of the next, and the place.
LEMMA RunNext ==
    ASSUME NEW table, NEW q, NEW n \in Nat, NEW i \in 1..(n + 1)
    PROVE  /\ i > n => RunFrom(table, q, n, i) = {}
           /\ i <= n /\ table[i][1] # q => RunFrom(table, q, n, i) = {}
           /\ i <= n /\ table[i][1] = q => RunFrom(table, q, n, i) = {table[i][2]} \cup RunFrom(table, q, n, i + 1)
<1> DEFINE D(k) == {x \in k..n : \A y \in k..x : table[y][1] = q}
<1>1. i > n => D(i) = {}
  OBVIOUS
<1>2. i <= n /\ table[i][1] # q => D(i) = {}
  <2> SUFFICES ASSUME i <= n, table[i][1] # q, NEW x \in D(i) PROVE FALSE
    OBVIOUS
  <2>1. i \in i..x
    OBVIOUS
  <2> QED BY <2>1
<1>3. ASSUME i <= n, table[i][1] = q
      PROVE  D(i) = {i} \cup D(i + 1)
  <2>1. ASSUME NEW x \in D(i), x # i PROVE x \in D(i + 1)
    <3>1. x \in (i + 1)..n
      BY <2>1
    <3>2. \A y \in (i + 1)..x : y \in i..x
      BY <3>1
    <3> QED BY <2>1, <3>1, <3>2
  <2>2. i \in D(i)
    <3>1. \A y \in i..i : y = i
      OBVIOUS
    <3> QED BY <1>3, <3>1
  <2>3. ASSUME NEW x \in D(i + 1) PROVE x \in D(i)
    <3>1. x \in i..n
      BY <2>3
    <3>2. \A y \in i..x : y = i \/ y \in (i + 1)..x
      BY <3>1
    <3> QED BY <1>3, <2>3, <3>1, <3>2
  <2> HIDE DEF D
  <2> QED BY <2>1, <2>2, <2>3
<1>4. \A k : RunFrom(table, q, n, k) = {table[j][2] : j \in D(k)}
  BY DEF RunFrom
<1> HIDE DEF D
<1> QED BY <1>1, <1>2, <1>3, <1>4

RunRule(f, table, q, n, lo) ==
    \A i \in (lo + 1)..(n + 1) : f[i] = RunBody(table, q, n, f, i)

\* The runs of all places.
LEMMA RunFound ==
    ASSUME NEW table, NEW q, NEW n \in Nat, NEW lo \in 0..n, NEW f, RunRule(f, table, q, n, lo)
    PROVE  f[lo + 1] = RunFrom(table, q, n, lo + 1)
<1> DEFINE P == {d \in Nat : d <= n - lo => f[n + 1 - d] = RunFrom(table, q, n, n + 1 - d)}
<1>1. 0 \in P
  <2>1. n + 1 \in (lo + 1)..(n + 1) /\ n + 1 > n /\ n + 1 \in 1..(n + 1) /\ n + 1 - 0 = n + 1
    OBVIOUS
  <2>2. f[n + 1] = {}
    BY <2>1 DEF RunRule, RunBody
  <2> QED BY <2>1, <2>2, RunNext
<1>2. ASSUME NEW d \in Nat, d \in P
      PROVE  d + 1 \in P
  <2> SUFFICES ASSUME d + 1 <= n - lo
               PROVE  f[n + 1 - (d + 1)] = RunFrom(table, q, n, n + 1 - (d + 1))
    OBVIOUS
  <2>1. PICK i \in Nat : i = n + 1 - (d + 1)
    OBVIOUS
  <2>2. i \in (lo + 1)..(n + 1) /\ i <= n /\ ~ (i > n) /\ i \in 1..(n + 1) /\ i + 1 = n + 1 - d /\ d <= n - lo
    BY <2>1
  <2>3. f[i + 1] = RunFrom(table, q, n, i + 1)
    BY <1>2, <2>2
  <2>4. f[i] = IF table[i][1] # q THEN {} ELSE {table[i][2]} \cup f[i + 1]
    BY <2>2 DEF RunRule, RunBody
  <2>5. CASE table[i][1] = q
    <3>1. RunFrom(table, q, n, i) = {table[i][2]} \cup RunFrom(table, q, n, i + 1)
      BY <2>2, <2>5, RunNext
    <3> QED BY <2>1, <2>3, <2>4, <2>5, <3>1
  <2>6. CASE table[i][1] # q
    <3>1. RunFrom(table, q, n, i) = {}
      BY <2>2, <2>6, RunNext
    <3> QED BY <2>1, <2>4, <2>6, <3>1
  <2> QED BY <2>5, <2>6
<1>3. n - lo \in P
  <2>1. n - lo \in Nat
    OBVIOUS
  <2> HIDE DEF P
  <2> QED BY <1>1, <1>2, <2>1, NatSetInduction
<1>4. n - lo \in Nat /\ n - lo <= n - lo /\ n + 1 - (n - lo) = lo + 1
  OBVIOUS
<1> QED BY <1>3, <1>4

\* The run the reader follows from the place lo on.
RunOf(table, q, n, lo) ==
    LET run[i \in (lo + 1)..(n + 1)] ==
            IF i > n THEN {} ELSE IF table[i][1] # q THEN {} ELSE {table[i][2]} \cup run[i + 1]
    IN  run[lo + 1]

\* It is the run of that place.
LEMMA RunRead ==
    ASSUME NEW table, NEW q, NEW n \in Nat, NEW lo \in 0..n
    PROVE  RunOf(table, q, n, lo) = RunFrom(table, q, n, lo + 1)
<1> DEFINE D == (lo + 1)..(n + 1)
           Body(f, i) == IF i > n THEN {} ELSE IF table[i][1] # q THEN {} ELSE {table[i][2]} \cup f[i + 1]
           E(f) == f = [i \in (lo + 1)..(n + 1) |-> Body(f, i)]
           it == CHOOSE f : E(f)
           W == [i \in D |-> RunFrom(table, q, n, i)]
<1>1. \A i \in D : i \in 1..(n + 1) /\ (i <= n => i + 1 \in D) /\ (i > n <=> ~ (i <= n))
  OBVIOUS
<1>2. ASSUME NEW i \in D
      PROVE  W[i] = Body(W, i)
  <2>1. W[i] = RunFrom(table, q, n, i) /\ (i <= n => W[i + 1] = RunFrom(table, q, n, i + 1))
    <3> HIDE DEF D
    <3> QED BY <1>1
  <2> HIDE DEF W, D
  <2>2. CASE i > n
    BY <1>1, <2>1, <2>2, RunNext
  <2>3. CASE i <= n /\ table[i][1] # q
    BY <1>1, <2>1, <2>3, RunNext
  <2>4. CASE i <= n /\ table[i][1] = q
    <3>1. RunFrom(table, q, n, i) = {table[i][2]} \cup RunFrom(table, q, n, i + 1)
      BY <1>1, <2>4, RunNext
    <3> QED BY <1>1, <2>1, <2>4, <3>1
  <2> QED BY <1>1, <2>2, <2>3, <2>4
<1>3. E(W)
  <2> HIDE DEF Body
  <2>1. W = [i \in D |-> W[i]]
    OBVIOUS
  <2> HIDE DEF W
  <2> QED BY <1>2, <2>1
<1>4. E(it)
  <2> HIDE DEF E
  <2> QED BY <1>3
<1>5. RunOf(table, q, n, lo) = it[lo + 1]
  BY Zenon DEF RunOf
<1> HIDE DEF it
<1>6. RunRule(it, table, q, n, lo)
  <2>1. ASSUME NEW i \in D
        PROVE  it[i] = Body(it, i)
    <3> HIDE DEF Body
    <3> QED BY <1>4
  <2> HIDE DEF D
  <2>2. \A i \in D : it[i] = RunBody(table, q, n, it, i)
    BY <2>1 DEF RunBody
  <2> QED BY <2>2 DEF RunRule, D
<1> QED BY <1>5, <1>6, RunFound

NameTable(table) ==
    /\ table \in Seq(Text \X Sym)
    /\ \A i, j \in 1..Len(table) : i < j => ~ StrLess(table[j][1], table[i][1])

\* The symbols a name table gives a name, by a scan.
SymsNamed(table, q) == {r[2] : r \in {x \in ToSet(table) : x[1] = q}}

\* syms_for_name returns the symbols of the name in ascending order.
LEMMA NameFound ==
    ASSUME NEW table, NameTable(table), NEW q \in Text
    PROVE  /\ syms_for_name(table, q) \in Seq(Sym) /\ Distinct(syms_for_name(table, q))
           /\ ToSet(syms_for_name(table, q)) = SymsNamed(table, q)
<1> DEFINE n == Len(table)
           nm(i) == table[i][1]
           C == {i \in 1..n : StrLess(table[i][1], q)}
           S == SymsNamed(table, q)
<1>0. /\ table \in Seq(Text \X Sym)
      /\ \A i, j \in 1..n : i < j => ~ StrLess(nm(j), nm(i))
  BY DEF NameTable
<1>1. n \in Nat /\ \A i \in 1..n : nm(i) \in Text /\ table[i][2] \in Sym /\ table[i] \in Text \X Sym
  BY <1>0
<1>2. ASSUME NEW i \in 1..n, NEW j \in 1..n, i < j, j \in C
      PROVE  i \in C
  <2>1. nm(i) \in Text /\ nm(j) \in Text /\ ~ StrLess(nm(j), nm(i)) /\ StrLess(nm(j), q)
    BY <1>0, <1>1, <1>2
  <2> HIDE DEF nm
  <2>2. nm(i) = nm(j) \/ StrLess(nm(i), nm(j))
    BY <2>1, StrTotal
  <2>3. StrLess(nm(i), q)
    BY <2>1, <2>2, StrTransitive
  <2> QED BY <2>3 DEF nm
<1>3. C = {i \in 1..n : StrLess(table[i][1], q)} /\ n = Len(table)
  OBVIOUS
<1> HIDE DEF C, n
<1>4. PICK c \in 0..n : CutAt(C, n, c)
  BY <1>1, <1>2, CutExists
<1>5. NameLow(table, q) = c
  <2>1. NameLow(table, q) = Clamp(c, 0, n)
    BY <1>3, <1>4, NameSearched
  <2>2. Clamp(c, 0, n) = c
    BY <1>1, <1>4 DEF Clamp
  <2> QED BY <2>1, <2>2
<1>6. syms_for_name(table, q) = InOrder(RunOf(table, q, n, NameLow(table, q)), <)
  BY Zenon DEF syms_for_name, RunOf, NameLow, n
<1>7. RunOf(table, q, n, c) = RunFrom(table, q, n, c + 1)
  BY <1>1, RunRead
<1>8. ASSUME NEW j \in (c + 1)..n, nm(j) = q, NEW y \in (c + 1)..j
      PROVE  nm(y) = q
  <2>1. y \in 1..n /\ j \in 1..n /\ y <= j /\ ~ (y <= c)
    BY <1>1
  <2>2. y \notin C
    BY <1>4, <2>1 DEF CutAt
  <2>3. ~ StrLess(nm(y), q) /\ nm(y) \in Text
    BY <1>1, <1>3, <2>1, <2>2
  <2>4. CASE y < j
    <3>1. ~ StrLess(nm(j), nm(y))
      BY <1>0, <2>1, <2>4
    <3> HIDE DEF nm
    <3> QED BY <1>8, <2>3, <3>1, StrTotal
  <2> QED BY <1>8, <2>1, <2>4
<1>9. RunFrom(table, q, n, c + 1) = S
  <2>1. ToSet(table) = {table[i] : i \in 1..n}
    BY <1>0, ElementsOf DEF RowsIn, n
  <2>2. ASSUME NEW j \in 1..n, nm(j) = q
        PROVE  j \in (c + 1)..n /\ \A y \in (c + 1)..j : nm(y) = q
    <3>1. ~ StrLess(q, q)
      BY StrIrreflexive
    <3>2. j \notin C
      BY <1>3, <2>2, <3>1
    <3>3. j \in (c + 1)..n
      BY <1>1, <1>4, <3>2 DEF CutAt
    <3> QED BY <1>8, <2>2, <3>3
  <2>3. ASSUME NEW j \in (c + 1)..n, \A y \in (c + 1)..j : nm(y) = q
        PROVE  j \in 1..n /\ nm(j) = q
    <3>1. j \in (c + 1)..j /\ j \in 1..n
      BY <1>1
    <3> QED BY <2>3, <3>1
  <2>4. ASSUME NEW x \in RunFrom(table, q, n, c + 1) PROVE x \in S
    <3>1. PICK j \in (c + 1)..n : (\A y \in (c + 1)..j : nm(y) = q) /\ x = table[j][2]
      BY DEF RunFrom
    <3>2. j \in 1..n /\ nm(j) = q
      BY <2>3, <3>1
    <3>3. table[j] \in ToSet(table) /\ table[j][1] = q
      BY <2>1, <3>2
    <3> QED BY <3>1, <3>3 DEF SymsNamed
  <2>5. ASSUME NEW x \in S PROVE x \in RunFrom(table, q, n, c + 1)
    <3>1. PICK r \in ToSet(table) : r[1] = q /\ x = r[2]
      BY DEF SymsNamed
    <3>2. PICK j \in 1..n : r = table[j]
      BY <2>1
    <3>3. nm(j) = q
      BY <3>1, <3>2
    <3>4. j \in (c + 1)..n /\ \A y \in (c + 1)..j : table[y][1] = q
      BY <2>2, <3>3
    <3> QED BY <3>1, <3>2, <3>4 DEF RunFrom
  <2> HIDE DEF S
  <2> QED BY <2>4, <2>5
<1>10. S \in SUBSET Sym /\ IsFiniteSet(S)
  <2>1. ToSet(table) = {table[i] : i \in 1..n}
    BY <1>0, ElementsOf DEF RowsIn, n
  <2>2. S \in SUBSET Sym
    BY <1>1, <2>1 DEF SymsNamed
  <2>3. IsFiniteSet(Sym)
    <3>1. 0 \in Int /\ MaxSym - 1 \in Int
      BY ReaderAssumption
    <3> QED BY <3>1, FS_Interval DEF Sym
  <2> QED BY <2>2, <2>3, FS_Subset
<1>11. Listed(InOrder(S, <), S, NumberOrder) /\ OrderOn(S, NumberOrder)
  <2> HIDE DEF S
  <2>1. S \in SUBSET Int
    <3>1. Sym \in SUBSET Nat
      BY SymNext
    <3> QED BY <1>10, <3>1
  <2> QED BY <1>10, <2>1, NumbersListed
<1>12. syms_for_name(table, q) = InOrder(S, <)
  BY <1>5, <1>6, <1>7, <1>9, Zenon
<1> DEFINE L == InOrder(S, <)
<1>13. L \in Seq(Sym) /\ Distinct(L) /\ ToSet(L) = S
  <2>1. L \in Seq(S) /\ Len(L) \in Nat /\ RowsIn(L) = S /\ \A i, j \in 1..Len(L) : i < j => <<L[i], L[j]>> \in NumberOrder
    BY <1>11 DEF Listed
  <2> HIDE DEF L, S
  <2>2. ToSet(L) = S
    BY <2>1, ElementsOf
  <2>3. L \in Seq(Sym)
    BY <1>10, <2>1
  <2>4. Distinct(L)
    <3>1. \A x \in S : <<x, x>> \notin NumberOrder
      BY <1>11 DEF OrderOn
    <3>2. \A i \in 1..Len(L) : L[i] \in S
      BY <2>1
    <3>3. \A i, j \in 1..Len(L) : i < j => L[i] # L[j]
      BY <2>1, <3>1, <3>2
    <3> QED BY <2>1, <3>3 DEF Distinct
  <2> QED BY <2>2, <2>3, <2>4
<1> HIDE DEF L
<1>14. syms_for_name(table, q) = L
  BY <1>12, Zenon DEF L
<1> QED BY <1>13, <1>14

-----------------------------------------------------------------------------
(* The symbols a request names.                                            *)

\* The name table of an index.
LEMMA NamesTyped ==
    ASSUME Typed
    PROVE  NameTable(names) /\ req.name \in Text /\ query.needle = req.name
<1>1. /\ db.names \in Seq((Seq(Nat)) \X Sym) /\ names = db.names
      /\ \A i, j \in 1..Len(db.names) : i < j => ~StrLess(db.names[j][1], db.names[i][1])
  BY DEF Typed, IsIndex, NamesReady, Str
<1>2. (Seq(Nat)) \X Sym \subseteq Text \X Sym
  <2>1. Seq(Nat) \subseteq Seq(Int)
    OBVIOUS
  <2> QED BY <2>1 DEF Text
<1>3. ASSUME NEW A, NEW B, A \subseteq B, NEW s \in Seq(A)
      PROVE  s \in Seq(B)
  BY <1>3
<1>4. names \in Seq(Text \X Sym)
  <2> DEFINE A == (Seq(Nat)) \X Sym
             B == Text \X Sym
  <2>1. A \subseteq B /\ names \in Seq(A)
    BY <1>1, <1>2
  <2> HIDE DEF A, B
  <2>2. names \in Seq(B)
    BY <1>3, <2>1
  <2> QED BY <2>2 DEF B
<1>5. req.name \in Text /\ query.needle = req.name
  <2>1. req.name \in Seq(Nat) /\ query.needle = req.name
    BY DEF Typed, IsRequest, Str
  <2> QED BY <2>1 DEF Text
<1> QED BY <1>1, <1>4, <1>5 DEF NameTable

\* What the list o says of the symbols asked for.
GatheredOf(o) ==
    /\ o \in Seq(Sym) /\ Distinct(o) /\ ToSet(o) \subseteq Asked
    /\ ~req.substr \/ (WithinScan /\ Len(o) < query.limit) => ToSet(o) = Asked

\* It depends on the search alone.
LEMMA SameAsked ==
    ASSUME UNCHANGED <<names, query, scan, req>>
    PROVE  Asked' = Asked /\ \A o : GatheredOf(o)' <=> GatheredOf(o)
<1>1. names' = names /\ query' = query /\ scan' = scan /\ req' = req
  OBVIOUS
<1>2. MatchingRows' = MatchingRows
  BY <1>1 DEF MatchingRows, Matches
<1>3. Asked' = Asked
  BY <1>1, <1>2 DEF Asked
<1>4. WithinScan' <=> WithinScan
  BY <1>1, <1>2 DEF WithinScan
<1> QED BY <1>1, <1>3, <1>4 DEF GatheredOf

\* A list of symbols of the name table.
LEMMA SymsOfNames ==
    ASSUME Typed, NEW o \in Seq(Int), ToSet(o) \subseteq {r[2] : r \in ToSet(names)}
    PROVE  o \in Seq(Sym)
<1>1. names \in Seq(Text \X Sym)
  BY NamesTyped DEF NameTable
<1>2. ToSet(names) \in SUBSET (Text \X Sym)
  BY <1>1, ElementsOf
<1>3. ToSet(o) \subseteq Sym
  BY <1>2
<1>4. ToSet(o) = RowsIn(o)
  BY ElementsOf
<1>5. \A i \in 1..Len(o) : o[i] \in Sym
  BY <1>3, <1>4 DEF RowsIn
<1> QED BY <1>5

\* The empty needle is not searched for.
Gathering ==
    /\ pc \in {"start", "probe", "scan", "done"} => req.substr
    /\ pc \in {"exact", "resolved"} => ~req.substr
    /\ pc \in {"probe", "scan"} => query.needle # <<>>
    /\ pc = "done" /\ query.needle = <<>> => out = <<>>
    /\ pc \in {"resolved", "walk", "replied"} => GatheredOf(out)

\* What a finished search has gathered.
LEMMA DoneGathered ==
    ASSUME Typed, ScanWalk, TrigramWalk, Gathering, pc = "done"
    PROVE  GatheredOf(out)
<1>0. SearchTyped /\ req.substr /\ query.needle = req.name
  BY TypedSearch, NamesTyped DEF Gathering
<1> DEFINE M == {r[2] : r \in ToSet(MatchingRows)}
<1>1. /\ MatchingRows = Keep(names, Hits)
      /\ SerialScan = FirstDistinct(Col2(MatchingRows), query.limit)
      /\ Col2(MatchingRows) \in Seq(Int) /\ MatchingRows \in Seq(Text \X Int)
      /\ SerialScan \in Seq(Int) /\ Distinct(SerialScan)
      /\ ToSet(SerialScan) \in SUBSET M
  BY <1>0, SerialFound
<1>2. Len(SerialScan) < query.limit => ToSet(SerialScan) = M
  <2>1. query.limit \in Nat
    BY <1>0 DEF SearchTyped
  <2>2. Len(SerialScan) < query.limit => ToSet(SerialScan) = ToSet(Col2(MatchingRows))
    BY <1>1, <2>1, FirstElements
  <2>3. ToSet(Col2(MatchingRows)) = M
    <3>1. ToSet(MatchingRows) = RowsIn(MatchingRows) /\ ToSet(Col2(MatchingRows)) = RowsIn(Col2(MatchingRows))
      BY <1>1, ElementsOf
    <3>2. Col2(MatchingRows) = [i \in 1..Len(MatchingRows) |-> MatchingRows[i][2]] /\ Len(MatchingRows) \in Nat
      BY <1>1 DEF Col2
    <3>3. RowsIn(Col2(MatchingRows)) = {MatchingRows[i][2] : i \in 1..Len(MatchingRows)}
      BY <3>2 DEF RowsIn
    <3>4. M = {MatchingRows[i][2] : i \in 1..Len(MatchingRows)}
      BY <3>1 DEF RowsIn
    <3> QED BY <3>1, <3>3, <3>4
  <2> QED BY <2>2, <2>3
<1>3. M \subseteq {r[2] : r \in ToSet(names)}
  <2>1. ToSet(MatchingRows) = ToSet(names) \cap Hits
    BY <1>0, <1>1, KeepElements DEF SearchTyped
  <2> QED BY <2>1
<1>4. CASE query.needle = <<>>
  <2>1. out = <<>>
    BY <1>4 DEF Gathering
  <2>2. Asked = {}
    BY <1>0, <1>4 DEF Asked
  <2>3. out \in Seq(Sym) /\ ToSet(out) = {} /\ Distinct(out)
    <3>1. ToSet(<<>>) = {}
      BY ElementsOf
    <3> QED BY <2>1, <3>1 DEF Distinct
  <2> QED BY <2>2, <2>3 DEF GatheredOf
<1>5. CASE query.needle # <<>>
  <2>1. Asked = M
    BY <1>0, <1>5 DEF Asked
  <2>2. out \in Seq(Int) /\ Distinct(out) /\ ToSet(out) \subseteq M
    <3>1. CASE scan = <<>>
      <4>1. out = SerialScan
        BY <1>5, <3>1 DEF TrigramWalk, TrigramIsSerial
      <4> QED BY <1>1, <4>1
    <3>2. CASE scan # <<>>
      BY <3>2 DEF ScanWalk, OutFound
    <3> QED BY <3>1, <3>2
  <2>3. WithinScan => out = SerialScan
    <3>1. CASE scan = <<>>
      BY <1>5, <3>1 DEF TrigramWalk, TrigramIsSerial
    <3>2. CASE scan # <<>>
      <4>1. OutFound
        BY <3>2 DEF ScanWalk
      <4> QED BY <3>2, <4>1 DEF OutFound, WithinScan
    <3> QED BY <3>1, <3>2
  <2>4. out \in Seq(Sym)
    BY <1>3, <2>2, SymsOfNames
  <2> HIDE DEF M
  <2> QED BY <1>0, <1>2, <2>1, <2>2, <2>3, <2>4 DEF GatheredOf
<1> QED BY <1>4, <1>5

\* Every step keeps it.
LEMMA NextGathering ==
    ASSUME Typed, ScanWalk, TrigramWalk, Gathering, [Next]_vars
    PROVE  Gathering'
<1>0. pc = "done" => GatheredOf(out)
  BY DoneGathered
<1>1. CASE Search
  <2>0. req' = req
    BY <1>1 DEF Search, queryVars
  <2>1. CASE StartTrigram
    <3>1. pc = "start" /\ pc' \in {"done", "probe"} /\ query' = query /\ Len(query.needle) >= 3
      BY <2>1 DEF StartTrigram
    <3>2. query.needle # <<>>
      BY <3>1
    <3> QED BY <2>0, <3>1, <3>2 DEF Gathering
  <2>2. CASE Probe
    <3>1. pc = "probe" /\ pc' \in {"done", "probe"} /\ query' = query
      BY <2>2 DEF Probe
    <3> QED BY <2>0, <3>1 DEF Gathering
  <2>3. CASE StartLinear
    <3>1. pc = "start" /\ pc' = "scan" /\ query' = query /\ query.needle # <<>>
      BY <2>3 DEF StartLinear
    <3> QED BY <2>0, <3>1 DEF Gathering
  <2>4. ASSUME NEW t \in 1..Cores, ScanRow(t)
        PROVE  Gathering'
    <3>1. pc = "scan" /\ pc' = "scan" /\ query' = query
      BY <2>4 DEF ScanRow
    <3> QED BY <2>0, <3>1 DEF Gathering
  <2>5. CASE Join
    <3>1. pc = "scan" /\ pc' = "done" /\ query' = query
      BY <2>5 DEF Join
    <3> QED BY <2>0, <3>1 DEF Gathering
  <2>6. CASE StartEmpty
    <3>1. pc = "start" /\ pc' = "done" /\ out' = out /\ query' = query
      BY <2>6 DEF StartEmpty
    <3> QED BY <2>0, <3>1 DEF Gathering, TrigramWalk
  <2> QED BY <1>1, <2>1, <2>2, <2>3, <2>4, <2>5, <2>6 DEF Search, SearchNext
<1>2. CASE Exact
  <2>1. /\ pc = "exact" /\ pc' = "resolved" /\ out' = syms_for_name(names, req.name)
        /\ UNCHANGED <<names, query, scan, req>>
    BY <1>2 DEF Exact, queryVars
  <2>2. PICK o : o = syms_for_name(names, req.name)
    OBVIOUS
  <2>3. o \in Seq(Sym) /\ Distinct(o) /\ ToSet(o) = SymsNamed(names, req.name)
    BY <2>2, NamesTyped, NameFound
  <2>4. ~req.substr
    BY <2>1 DEF Gathering
  <2>5. Asked = SymsNamed(names, req.name)
    BY <2>4 DEF Asked, SymsNamed
  <2>6. GatheredOf(o)
    BY <2>3, <2>5 DEF GatheredOf
  <2>7. GatheredOf(o)'
    BY <2>1, <2>6, SameAsked
  <2>8. GatheredOf(out)'
    BY <2>1, <2>2, <2>7 DEF GatheredOf
  <2> QED BY <2>1, <2>4, <2>8 DEF Gathering
<1>3. ASSUME UNCHANGED <<names, query, scan, req, out>>, pc' \in {"walk", "replied"}, GatheredOf(out)
      PROVE  Gathering'
  <2>1. PICK o : o = out
    OBVIOUS
  <2>2. GatheredOf(o)'
    BY <1>3, <2>1, SameAsked
  <2>3. GatheredOf(out)'
    BY <1>3, <2>1, <2>2 DEF GatheredOf
  <2> QED BY <1>3, <2>3 DEF Gathering
<1>4. CASE dispatch \/ Seed
  <2>1. UNCHANGED <<names, query, scan, req, out>> /\ pc' \in {"walk", "replied"} /\ pc \in {"done", "resolved"}
    BY <1>4 DEF dispatch, Seed, SendReply, Resolved
  <2>2. GatheredOf(out)
    BY <1>0, <2>1 DEF Gathering
  <2> QED BY <1>3, <2>1, <2>2
<1>5. CASE Expand \/ NextHop \/ EndWalk
  <2>1. UNCHANGED <<names, query, scan, req, out>> /\ pc' \in {"walk", "replied"} /\ pc = "walk"
    BY <1>5 DEF Expand, NextHop, EndWalk, HopDone, SendReply, WalkStep, searchVars
  <2>2. GatheredOf(out)
    BY <2>1 DEF Gathering
  <2> QED BY <1>3, <2>1, <2>2
<1>6. CASE Follow
  <2>1. UNCHANGED <<names, query, scan, req, out>> /\ pc' \in {"walk", "replied"} /\ pc = "walk"
    BY <1>6 DEF Follow, SendReply, searchVars
  <2>2. GatheredOf(out)
    BY <2>1 DEF Gathering
  <2> QED BY <1>3, <2>1, <2>2
<1>7. CASE UNCHANGED vars
  <2>1. UNCHANGED <<names, query, scan, req, out>> /\ pc' = pc
    BY <1>7 DEF vars, searchVars
  <2>2. PICK o : o = out
    OBVIOUS
  <2>3. GatheredOf(out) => GatheredOf(out)'
    <3>1. GatheredOf(o)' <=> GatheredOf(o)
      BY <2>1, SameAsked
    <3> QED BY <2>1, <2>2, <3>1 DEF GatheredOf
  <2> QED BY <2>1, <2>3 DEF Gathering
<1> QED BY <1>1, <1>2, <1>4, <1>5, <1>6, <1>7 DEF Next

-----------------------------------------------------------------------------
(* Lists put together and cut short.                                       *)

Apart(ss) ==
    /\ \A i \in 1..Len(ss) : Distinct(ss[i])
    /\ \A i, j \in 1..Len(ss) : i # j => ToSet(ss[i]) \cap ToSet(ss[j]) = {}

\* Two lists without repeats and without a common element.
LEMMA DistinctConcat ==
    ASSUME NEW V, NEW s \in Seq(V), NEW t \in Seq(V), Distinct(s), Distinct(t), ToSet(s) \cap ToSet(t) = {}
    PROVE  Distinct(s \o t) /\ s \o t \in Seq(V)
<1>1. /\ s \o t \in Seq(V) /\ Len(s \o t) = Len(s) + Len(t) /\ Len(s) \in Nat /\ Len(t) \in Nat
      /\ \A i \in 1..Len(s) : (s \o t)[i] = s[i]
      /\ \A i \in (Len(s) + 1)..(Len(s) + Len(t)) : (s \o t)[i] = t[i - Len(s)]
  BY ConcatAt
<1>2. PICK u : u = s \o t
  OBVIOUS
<1>3. /\ u \in Seq(V) /\ Len(u) = Len(s) + Len(t)
      /\ \A i \in 1..Len(s) : u[i] = s[i]
      /\ \A i \in (Len(s) + 1)..(Len(s) + Len(t)) : u[i] = t[i - Len(s)]
  BY <1>1, <1>2
<1>4. ToSet(s) = RowsIn(s) /\ ToSet(t) = RowsIn(t)
  BY ElementsOf
<1>5. \A i \in 1..Len(s), j \in 1..Len(t) : s[i] # t[j]
  BY <1>4 DEF RowsIn
<1>6. ASSUME NEW i \in 1..Len(u), NEW j \in 1..Len(u), u[i] = u[j]
      PROVE  i = j
  <2>0. i \in Nat /\ j \in Nat /\ Len(s) \in Nat /\ Len(t) \in Nat
    BY <1>1, <1>3
  <2>1. CASE i <= Len(s) /\ j <= Len(s)
    <3>1. i \in 1..Len(s) /\ j \in 1..Len(s)
      BY <2>0, <2>1
    <3> QED BY <1>3, <1>6, <3>1 DEF Distinct
  <2>2. CASE i <= Len(s) /\ j > Len(s)
    <3>1. i \in 1..Len(s) /\ j \in (Len(s) + 1)..(Len(s) + Len(t)) /\ j - Len(s) \in 1..Len(t)
      BY <1>3, <2>0, <2>2
    <3> QED BY <1>3, <1>5, <1>6, <3>1
  <2>3. CASE i > Len(s) /\ j <= Len(s)
    <3>1. j \in 1..Len(s) /\ i \in (Len(s) + 1)..(Len(s) + Len(t)) /\ i - Len(s) \in 1..Len(t)
      BY <1>3, <2>0, <2>3
    <3> QED BY <1>3, <1>5, <1>6, <3>1
  <2>4. CASE i > Len(s) /\ j > Len(s)
    <3>1. /\ i \in (Len(s) + 1)..(Len(s) + Len(t)) /\ i - Len(s) \in 1..Len(t)
          /\ j \in (Len(s) + 1)..(Len(s) + Len(t)) /\ j - Len(s) \in 1..Len(t)
      BY <1>3, <2>0, <2>4
    <3>2. t[i - Len(s)] = t[j - Len(s)]
      BY <1>3, <1>6, <3>1
    <3>3. i - Len(s) = j - Len(s)
      BY <3>1, <3>2 DEF Distinct
    <3> QED BY <2>0, <3>3
  <2> QED BY <2>0, <2>1, <2>2, <2>3, <2>4
<1>7. Distinct(u)
  BY <1>6 DEF Distinct
<1> QED BY <1>1, <1>2, <1>7

\* Lists without repeats that share no element make one without repeats.
LEMMA FlattenDistinct ==
    ASSUME NEW V, NEW ss \in Seq(Seq(V)), Apart(ss)
    PROVE  Distinct(FlattenSeq(ss))
<1> DEFINE P == {q \in Seq(Seq(V)) : Apart(q) => Distinct(FlattenSeq(q))}
<1>0. FlatRule(V)
  BY FlattenOne
<1>1. <<>> \in P
  <2>1. FlattenSeq(<<>>) = <<>>
    BY <1>0 DEF FlatRule
  <2> QED BY <2>1 DEF Distinct
<1>2. ASSUME NEW q \in Seq(Seq(V)), NEW u \in Seq(V), q \in P
      PROVE  Append(q, u) \in P
  <2>0. Append(q, u) \in Seq(Seq(V))
    OBVIOUS
  <2> SUFFICES ASSUME Apart(Append(q, u)) PROVE Distinct(FlattenSeq(Append(q, u)))
    BY <2>0
  <2>1. PICK a : a = Append(q, u)
    OBVIOUS
  <2>2. /\ Len(a) = Len(q) + 1 /\ Len(q) \in Nat /\ a[Len(q) + 1] = u
        /\ \A i \in 1..Len(q) : a[i] = q[i] /\ q[i] \in Seq(V)
    BY <2>1
  <2>3. Apart(a)
    BY <2>1
  <2>4. Len(q) + 1 \in 1..Len(a) /\ \A i \in 1..Len(q) : i \in 1..Len(a) /\ i # Len(q) + 1
    BY <2>2
  <2>5. Distinct(u)
    BY <2>2, <2>3, <2>4 DEF Apart
  <2>6. \A i \in 1..Len(q) : ToSet(q[i]) \cap ToSet(u) = {}
    BY <2>2, <2>3, <2>4 DEF Apart
  <2>7. Apart(q)
    BY <2>2, <2>3, <2>4 DEF Apart
  <2>8. Distinct(FlattenSeq(q))
    BY <1>2, <2>7
  <2>9. /\ FlattenSeq(q) \in Seq(V)
        /\ \A x : x \in ToSet(FlattenSeq(q)) <=> \E i \in 1..Len(q) : x \in ToSet(q[i])
    BY FlattenElements
  <2>10. ToSet(FlattenSeq(q)) \cap ToSet(u) = {}
    BY <2>6, <2>9
  <2>11. Distinct(FlattenSeq(q) \o u)
    BY <2>5, <2>8, <2>9, <2>10, DistinctConcat
  <2>12. FlattenSeq(Append(q, u)) = FlattenSeq(q) \o u
    BY <1>0 DEF FlatRule
  <2> QED BY <2>11, <2>12
<1>3. ss \in P
  <2> HIDE DEF P
  <2> QED BY <1>1, <1>2, ListInduction
<1> QED BY <1>3

UptoRule(t, s, V, n) ==
    /\ t \in Seq(V) /\ Len(t) \in Nat /\ Len(t) <= Larger(n, 1)
    /\ ToSet(t) \in SUBSET ToSet(s)
    /\ Distinct(s) => Distinct(t)
    /\ Len(t) <= Len(s) /\ \A i \in 1..Len(t) : t[i] = s[i]
    /\ Len(s) <= Larger(n, 1) => t = s
    /\ Len(s) >= Larger(n, 1) => Len(t) = Larger(n, 1)

\* The first elements of a list, at least one.
LEMMA UptoOf ==
    ASSUME NEW V, NEW s \in Seq(V), NEW n \in Nat
    PROVE  UptoRule(Upto(s, n), s, V, n)
<1> DEFINE m == Smaller(Larger(n, 1), Len(s))
<1>1. /\ m \in 0..Len(s) /\ m <= Larger(n, 1) /\ (Len(s) <= Larger(n, 1) => m = Len(s))
      /\ Larger(n, 1) \in Nat /\ Len(s) \in Nat /\ (Len(s) >= Larger(n, 1) => m = Larger(n, 1))
  <2>1. Larger(n, 1) \in Nat /\ Len(s) \in Nat
    BY DEF Larger
  <2>2. \A x, y \in Nat : /\ Smaller(x, y) \in 0..y /\ Smaller(x, y) <= x
                          /\ (y <= x => Smaller(x, y) = y) /\ (y >= x => Smaller(x, y) = x)
    BY DEF Smaller
  <2> QED BY <2>1, <2>2
<1>2. PICK t : t = SubSeq(s, 1, m)
  OBVIOUS
<1>3. Upto(s, n) = t
  BY <1>2 DEF Upto
<1> HIDE DEF m
<1>4. t \in Seq(V) /\ Len(t) = m /\ \A i \in 1..m : t[i] = s[i]
  BY <1>1, <1>2, Prefixed
<1>5. m = Len(s) => t = s
  BY <1>2, Prefixed
<1>6. ToSet(t) \in SUBSET ToSet(s)
  <2>1. ToSet(t) = RowsIn(t) /\ ToSet(s) = RowsIn(s)
    BY <1>4, ElementsOf
  <2>2. \A i \in 1..m : i \in 1..Len(s)
    BY <1>1
  <2> QED BY <1>4, <2>1, <2>2 DEF RowsIn
<1>7. Distinct(s) => Distinct(t)
  <2>2. \A i \in 1..m : i \in 1..Len(s)
    BY <1>1
  <2> QED BY <1>4, <2>2 DEF Distinct
<1>8. Len(t) \in Nat /\ Len(t) <= Len(s)
  BY <1>1, <1>4
<1> QED BY <1>1, <1>3, <1>4, <1>5, <1>6, <1>7, <1>8 DEF UptoRule

-----------------------------------------------------------------------------
(* The def, ref and callers replies.                                       *)

XrefSyms    == Keep(out, {s \in ToSet(out) : DefIn(s)})
XrefHits(s) == xrefs(db, s, Roles(req.verb)[1], Roles(req.verb)[2])
XrefList(s) == Keep(XrefHits(s), {r \in ToSet(XrefHits(s)) : passes(PathOf(r[3]))})
XrefRows    == FlattenSeq([i \in DOMAIN XrefSyms |-> XrefList(XrefSyms[i])])
XrefKept    == IF req.verb = "def" THEN XrefRows ELSE Upto(XrefRows, req.max_hits)

\* What the property says of a reply.
XrefsOk(r) ==
    LET got == {r.items[i].row : i \in DOMAIN r.items}
    IN  /\ got \subseteq AllRows
        /\ Cardinality(got) = Len(r.items)
        /\ req.verb # "def" => Len(r.items) <= Larger(1, req.max_hits)
        /\ ~r.truncated /\ WithinScan => got = AllRows

\* The reply, in these terms.
LEMMA XrefReply ==
    /\ DOMAIN do_xrefs.items = DOMAIN XrefKept
    /\ \A i \in DOMAIN XrefKept : do_xrefs.items[i].row = XrefKept[i]
    /\ do_xrefs.truncated <=> \/ CapReached
                              \/ req.verb # "def" /\ XrefRows # <<>> /\ Len(XrefRows) >= req.max_hits
<1> DEFINE hit(r) == [row |-> r, name |-> Meta(r[1])[4], path |-> PathOf(r[3]),
                      typed |-> IF req.verb = "def" THEN type_of(db, r[1]) ELSE {},
                      sig |-> IF req.verb = "def" THEN sig_of(db, r[1]) ELSE {}]
           cut == \/ CapReached
                  \/ req.verb # "def" /\ XrefRows # <<>> /\ Len(XrefRows) >= req.max_hits
<1>1. do_xrefs = [items |-> [i \in DOMAIN XrefKept |-> hit(XrefKept[i])], truncated |-> cut]
  BY Zenon DEF do_xrefs, XrefKept, XrefRows, XrefList, XrefHits, XrefSyms
<1>2. \A r : hit(r).row = r
  OBVIOUS
<1> HIDE DEF hit, cut
<1>3. do_xrefs.items = [i \in DOMAIN XrefKept |-> hit(XrefKept[i])] /\ do_xrefs.truncated = cut
  BY <1>1
<1> QED BY <1>2, <1>3 DEF cut

\* The roles a verb asks for.
LEMMA RoleRange ==
    ASSUME req.verb \in XrefVerbs
    PROVE  Roles(req.verb)[1] \in 0..MaxRole /\ Roles(req.verb)[2] \in 0..MaxRole
<1>1. MaxRole \in Nat /\ MaxRole > 3
  BY ReaderAssumption DEF RoleCall
<1>2. CASE req.verb = "def"
  <2>1. Roles(req.verb) = <<0, 1>>
    BY <1>2 DEF Roles, RoleDecl, RoleDef
  <2> QED BY <1>1, <2>1
<1>3. CASE req.verb = "callers"
  <2>1. Roles(req.verb) = <<3, 3>>
    BY <1>3 DEF Roles, RoleCall
  <2> QED BY <1>1, <2>1
<1>4. CASE req.verb = "ref"
  <2>1. Roles(req.verb) = <<0, MaxRole>>
    BY <1>4 DEF Roles
  <2> QED BY <1>1, <2>1
<1> QED BY <1>2, <1>3, <1>4 DEF XrefVerbs

\* The rows before the limit is applied.
LEMMA XrefRowsFound ==
    ASSUME Typed, GatheredOf(out), req.verb \in XrefVerbs
    PROVE  /\ XrefRows \in Seq(XrefRow) /\ Distinct(XrefRows)
           /\ ToSet(XrefRows) = {r \in ToSet(db.xrefs) : /\ r[1] \in ToSet(out) /\ DefIn(r[1])
                                                         /\ r[2] \in Roles(req.verb)[1]..Roles(req.verb)[2]
                                                         /\ passes(PathOf(r[3]))}
<1> DEFINE lo == Roles(req.verb)[1]
           hi == Roles(req.verb)[2]
           D  == {s \in ToSet(out) : DefIn(s)}
           Ok == {r \in XrefRow : passes(PathOf(r[3]))}
           n  == Len(XrefSyms)
           ss == [i \in DOMAIN XrefSyms |-> XrefList(XrefSyms[i])]
<1>1. db.xrefs \in Seq(XrefRow) /\ Ascends(db.xrefs)
  BY DEF Typed, IsIndex, TablesReady, XrefRow
<1>2. out \in Seq(Sym) /\ Distinct(out)
  BY DEF GatheredOf
<1>3. lo \in 0..MaxRole /\ hi \in 0..MaxRole
  BY RoleRange
<1>4. /\ XrefSyms \in Seq(Sym) /\ ToSet(XrefSyms) = D /\ Distinct(XrefSyms) /\ n \in Nat
      /\ DOMAIN XrefSyms = 1..n /\ ToSet(XrefSyms) = {XrefSyms[i] : i \in 1..n}
  <2>1. XrefSyms \in Seq(Sym) /\ ToSet(XrefSyms) = ToSet(out) \cap D /\ Distinct(XrefSyms)
    <3>1. XrefSyms = Keep(out, D)
      BY DEF XrefSyms
    <3> HIDE DEF D
    <3> QED BY <1>2, <3>1, KeepElements
  <2>2. ToSet(out) \cap D = D
    OBVIOUS
  <2>3. DOMAIN XrefSyms = 1..n /\ ToSet(XrefSyms) = {XrefSyms[i] : i \in 1..n} /\ n \in Nat
    BY <2>1, ElementsOf DEF RowsIn
  <2> QED BY <2>1, <2>2, <2>3
<1>5. ASSUME NEW s \in Sym
      PROVE  /\ XrefList(s) \in Seq(XrefRow) /\ Distinct(XrefList(s))
             /\ ToSet(XrefList(s)) = {r \in ToSet(db.xrefs) : r[1] = s /\ r[2] \in lo..hi /\ r \in Ok}
  <2> DEFINE K == {r \in XrefRow : r[1] = s /\ r[2] \in lo..hi}
             F == {r \in ToSet(XrefHits(s)) : passes(PathOf(r[3]))}
  <2>1. ReadOf(XrefHits(s), XrefRow, db.xrefs, K)
    <3> HIDE DEF lo, hi
    <3>1. XrefHits(s) = xrefs(db, s, lo, hi)
      BY DEF XrefHits, lo, hi
    <3>2. ReadOf(xrefs(db, s, lo, hi), XrefRow, db.xrefs, XrefsIn(s, lo, hi))
      BY <1>1, <1>3, XrefsFound
    <3> QED BY <3>1, <3>2, Zenon DEF XrefsIn
  <2> HIDE DEF K
  <2>2. XrefHits(s) \in Seq(XrefRow) /\ ToSet(XrefHits(s)) = ToSet(db.xrefs) \cap K /\ Distinct(XrefHits(s))
    BY <2>1 DEF ReadOf
  <2>3. XrefList(s) = Keep(XrefHits(s), F)
    BY DEF XrefList
  <2> HIDE DEF F
  <2>4. XrefList(s) \in Seq(XrefRow) /\ ToSet(XrefList(s)) = ToSet(XrefHits(s)) \cap F /\ Distinct(XrefList(s))
    BY <2>2, <2>3, KeepElements
  <2>5. ToSet(db.xrefs) \in SUBSET XrefRow
    BY <1>1, ElementsOf
  <2>6. ToSet(XrefHits(s)) \cap F = {r \in ToSet(db.xrefs) : r[1] = s /\ r[2] \in lo..hi /\ r \in Ok}
    <3> HIDE DEF lo, hi
    <3> QED BY <2>2, <2>5 DEF F, K
  <2> QED BY <2>4, <2>6
<1> HIDE DEF Ok, D
<1>6. ss \in Seq(Seq(XrefRow)) /\ Len(ss) = n /\ \A i \in 1..n : ss[i] = XrefList(XrefSyms[i]) /\ XrefSyms[i] \in Sym
  <2>1. \A i \in 1..n : XrefSyms[i] \in Sym
    BY <1>4
  <2>2. ss = [i \in 1..n |-> XrefList(XrefSyms[i])]
    BY <1>4
  <2>3. \A i \in 1..n : XrefList(XrefSyms[i]) \in Seq(XrefRow)
    BY <1>5, <2>1
  <2> HIDE DEF n, ss
  <2> QED BY <1>4, <2>1, <2>2, <2>3
<1>7. XrefRows = FlattenSeq(ss)
  BY DEF XrefRows
<1> HIDE DEF ss, n, lo, hi
<1>8. Apart(ss)
  <2>1. \A i \in 1..n : Distinct(ss[i])
    BY <1>5, <1>6
  <2>2. ASSUME NEW i \in 1..n, NEW j \in 1..n, i # j, NEW x \in ToSet(ss[i]) \cap ToSet(ss[j])
        PROVE  FALSE
    <3>1. x[1] = XrefSyms[i] /\ x[1] = XrefSyms[j]
      BY <1>5, <1>6
    <3> QED BY <1>4, <2>2, <3>1 DEF Distinct, n
  <2> QED BY <1>6, <2>1, <2>2 DEF Apart
<1>9. Distinct(XrefRows) /\ XrefRows \in Seq(XrefRow)
  BY <1>6, <1>7, <1>8, FlattenDistinct, FlattenElements
<1>10. \A x : x \in ToSet(XrefRows) <=> \E i \in 1..n : x \in ToSet(XrefList(XrefSyms[i]))
  BY <1>6, <1>7, FlattenElements
<1>11. \A x : x \in ToSet(XrefRows) <=> \E s \in D : x \in ToSet(XrefList(s))
  BY <1>4, <1>10
<1>12. D \subseteq Sym
  BY <1>4, ElementsOf
<1>13. \A x : x \in ToSet(XrefRows) <=> x \in ToSet(db.xrefs) /\ x[1] \in D /\ x[2] \in lo..hi /\ x \in Ok
  BY <1>5, <1>11, <1>12
<1>14. ToSet(db.xrefs) \in SUBSET XrefRow
  BY <1>1, ElementsOf
<1>15. \A x : x \in ToSet(XrefRows) <=> /\ x \in ToSet(db.xrefs) /\ x[1] \in ToSet(out) /\ DefIn(x[1])
                                        /\ x[2] \in lo..hi /\ passes(PathOf(x[3]))
  BY <1>13, <1>14 DEF D, Ok
<1> QED BY <1>9, <1>15 DEF lo, hi

\* The reply that is sent.
LEMMA XrefsRight ==
    ASSUME Typed, GatheredOf(out), req.verb \in XrefVerbs
    PROVE  XrefsOk(do_xrefs)
<1> DEFINE m == req.max_hits
           R == XrefRows
           K == XrefKept
           All == {r \in ToSet(db.xrefs) : /\ r[1] \in ToSet(out) /\ DefIn(r[1])
                                           /\ r[2] \in Roles(req.verb)[1]..Roles(req.verb)[2]
                                           /\ passes(PathOf(r[3]))}
<1>1. R \in Seq(XrefRow) /\ Distinct(R) /\ ToSet(R) = All
  BY XrefRowsFound
<1>2. m \in Nat
  BY DEF Typed, IsRequest
<1>3. All \subseteq AllRows /\ (ToSet(out) = Asked => All = AllRows)
  BY DEF AllRows, GatheredOf
<1> HIDE DEF All
<1>4. UptoRule(Upto(R, m), R, XrefRow, m)
  BY <1>1, <1>2, UptoOf
<1>5. /\ K \in Seq(XrefRow) /\ Len(K) \in Nat /\ Distinct(K) /\ ToSet(K) \in SUBSET All
      /\ req.verb # "def" => Len(K) <= Larger(m, 1)
      /\ req.verb = "def" \/ Len(R) <= Larger(m, 1) => ToSet(K) = All
  <2>1. CASE req.verb = "def"
    <3>1. K = R
      BY <2>1 DEF XrefKept
    <3> QED BY <1>1, <2>1, <3>1
  <2>2. CASE req.verb # "def"
    <3>1. K = Upto(R, m)
      BY <2>2 DEF XrefKept
    <3> QED BY <1>1, <1>4, <2>2, <3>1 DEF UptoRule
  <2> QED BY <2>1, <2>2
<1> HIDE DEF K, R
<1>6. /\ DOMAIN do_xrefs.items = DOMAIN K
      /\ \A i \in DOMAIN K : do_xrefs.items[i].row = K[i]
      /\ do_xrefs.truncated <=> CapReached \/ (req.verb # "def" /\ R # <<>> /\ Len(R) >= m)
  BY XrefReply DEF K, R
<1> DEFINE got == {do_xrefs.items[i].row : i \in DOMAIN do_xrefs.items}
<1>7. got = ToSet(K)
  <2>1. ToSet(K) = {K[i] : i \in DOMAIN K}
    BY DEF ToSet
  <2> QED BY <1>6, <2>1
<1>8. Len(do_xrefs.items) = Len(K)
  <2>1. DOMAIN do_xrefs.items = 1..Len(K) /\ Len(K) \in Nat
    BY <1>5, <1>6
  <2> QED BY <2>1
<1> HIDE DEF got
<1>9. Cardinality(got) = Len(do_xrefs.items)
  BY <1>5, <1>7, <1>8, DistinctCount
<1>10. req.verb # "def" => Len(do_xrefs.items) <= Larger(1, m)
  <2>1. Larger(1, m) = Larger(m, 1)
    BY <1>2 DEF Larger
  <2> QED BY <1>5, <1>8, <2>1
<1>11. ASSUME ~do_xrefs.truncated, WithinScan
       PROVE  got = AllRows
  <2>1. ~ CapReached
    BY <1>6, <1>11
  <2>2. query.limit = SymCap(req) /\ query.limit \in Nat /\ Len(out) \in Nat
    <3>1. out \in Seq(Sym)
      BY DEF GatheredOf
    <3>2. query.limit = SymCap(req)
      BY DEF Typed
    <3>3. query.limit \in Nat
      BY TypedSearch DEF SearchTyped
    <3> QED BY <3>1, <3>2, <3>3
  <2>3. ~req.substr \/ Len(out) < query.limit
    BY <2>1, <2>2 DEF CapReached
  <2>4. ToSet(out) = Asked
    BY <1>11, <2>3 DEF GatheredOf
  <2>5. req.verb = "def" \/ Len(R) <= Larger(m, 1)
    <3>1. CASE R = <<>>
      <4>1. Len(R) = 0
        BY <3>1
      <4> QED BY <1>2, <4>1 DEF Larger
    <3>2. CASE Len(R) < m
      BY <1>1, <1>2, <3>2 DEF Larger
    <3>3. Len(R) \in Nat
      BY <1>1
    <3> QED BY <1>2, <1>6, <1>11, <3>1, <3>2, <3>3
  <2> QED BY <1>3, <1>5, <1>7, <2>4, <2>5
<1> QED BY <1>3, <1>5, <1>7, <1>9, <1>10, <1>11 DEF XrefsOk, got

\* A reply is made once, by a handler of its verb.
Answering ==
    /\ pc # "replied" => reply = NoReply
    /\ pc = "walk" => req.verb \in WalkVerbs
    /\ pc = "replied" => reply # NoReply

\* What no step changes.
Kept == UNCHANGED <<names, query, scan, out, db, req>>

\* The steps, by what they mean for the reply.
LEMMA ReplySteps ==
    ASSUME Typed, ScanWalk, TrigramWalk, Gathering, Answering, [Next]_vars
    PROVE  \/ UNCHANGED vars
           \/ pc' # "replied" /\ reply' = NoReply
           \/ pc' = "replied" /\ req' = req /\ req.verb \in WalkVerbs
           \/ pc' = "replied" /\ Kept /\ GatheredOf(out) /\ dispatch
<1>1. CASE Search
  <2>1. pc # "replied" /\ pc' # "replied" /\ reply' = reply
    <3>1. reply' = reply
      BY <1>1 DEF Search, queryVars
    <3>2. CASE StartTrigram
      BY <3>1, <3>2 DEF StartTrigram
    <3>3. CASE Probe
      BY <3>1, <3>3 DEF Probe
    <3>4. CASE StartLinear
      BY <3>1, <3>4 DEF StartLinear
    <3>5. ASSUME NEW t \in 1..Cores, ScanRow(t) PROVE pc # "replied" /\ pc' # "replied"
      BY <3>5 DEF ScanRow
    <3>6. CASE Join
      BY <3>1, <3>6 DEF Join
    <3>7. CASE StartEmpty
      BY <3>1, <3>7 DEF StartEmpty
    <3> QED BY <1>1, <3>1, <3>2, <3>3, <3>4, <3>5, <3>6, <3>7 DEF Search, SearchNext
  <2> QED BY <2>1 DEF Answering
<1>2. CASE Exact
  <2>1. pc # "replied" /\ pc' # "replied" /\ reply' = reply
    BY <1>2 DEF Exact, queryVars
  <2> QED BY <2>1 DEF Answering
<1>3. CASE dispatch
  <2>1. pc' = "replied" /\ Kept /\ pc \in {"done", "resolved"}
    BY <1>3 DEF dispatch, SendReply, Resolved, Kept
  <2>2. GatheredOf(out)
    <3>1. CASE pc = "done"
      BY <3>1, DoneGathered
    <3>2. CASE pc = "resolved"
      BY <3>2 DEF Gathering
    <3> QED BY <2>1, <3>1, <3>2
  <2> QED BY <1>3, <2>1, <2>2
<1>4. CASE Seed
  <2>1. pc # "replied" /\ pc' # "replied" /\ reply' = reply
    BY <1>4 DEF Seed, Resolved
  <2> QED BY <2>1 DEF Answering
<1>5. CASE Expand \/ NextHop
  <2>1. pc # "replied" /\ pc' # "replied" /\ reply' = reply
    BY <1>5 DEF Expand, NextHop, WalkStep, searchVars
  <2> QED BY <2>1 DEF Answering
<1>6. CASE Follow
  <2>1. pc = "walk" /\ req' = req
    BY <1>6 DEF Follow, SendReply
  <2>2. PICK w : \/ pc' = "replied" /\ reply' = [items |-> w.nodes, truncated |-> TRUE]
                 \/ pc' = "walk" /\ reply' = reply
    BY <1>6 DEF Follow, SendReply, searchVars
  <2> QED BY <2>1, <2>2 DEF Answering
<1>7. CASE EndWalk
  <2>1. pc = "walk" /\ req' = req /\ pc' = "replied"
    BY <1>7 DEF EndWalk, HopDone, SendReply
  <2> QED BY <2>1 DEF Answering
<1> QED BY <1>1, <1>2, <1>3, <1>4, <1>5, <1>6, <1>7 DEF Next

\* A reply is a record.
LEMMA NextAnswering ==
    ASSUME Typed, ScanWalk, TrigramWalk, Gathering, Answering, [Next]_vars
    PROVE  Answering'
<1>0. \A x, y : [items |-> x, truncated |-> y] # NoReply
  <2> SUFFICES ASSUME NEW x, NEW y, [items |-> x, truncated |-> y] = <<>> PROVE FALSE
    BY DEF NoReply
  <2>1. DOMAIN [items |-> x, truncated |-> y] = {"items", "truncated"} /\ DOMAIN <<>> = {}
    OBVIOUS
  <2> QED BY <2>1
<1>1. CASE Search
  <2>1. pc # "replied" /\ pc' \notin {"replied", "walk"} /\ reply' = reply
    <3>1. reply' = reply
      BY <1>1 DEF Search, queryVars
    <3>2. CASE StartTrigram
      BY <3>1, <3>2 DEF StartTrigram
    <3>3. CASE Probe
      BY <3>1, <3>3 DEF Probe
    <3>4. CASE StartLinear
      BY <3>1, <3>4 DEF StartLinear
    <3>5. ASSUME NEW t \in 1..Cores, ScanRow(t) PROVE pc # "replied" /\ pc' \notin {"replied", "walk"}
      BY <3>5 DEF ScanRow
    <3>6. CASE Join
      BY <3>1, <3>6 DEF Join
    <3>7. CASE StartEmpty
      BY <3>1, <3>7 DEF StartEmpty
    <3> QED BY <1>1, <3>1, <3>2, <3>3, <3>4, <3>5, <3>6, <3>7 DEF Search, SearchNext
  <2> QED BY <2>1 DEF Answering
<1>2. CASE Exact
  <2>1. pc # "replied" /\ pc' = "resolved" /\ reply' = reply
    BY <1>2 DEF Exact, queryVars
  <2> QED BY <2>1 DEF Answering
<1>3. CASE dispatch
  <2>1. pc' = "replied"
    BY <1>3 DEF dispatch, SendReply
  <2>2. reply' \in {do_xrefs, do_type, do_sig, do_members, do_inh}
    <3>1. req.verb \in {"def", "ref", "callers", "type", "sig", "members", "super", "sub", "callgraph", "inheritance"} /\ req.verb \notin WalkVerbs
      BY <1>3 DEF Typed, IsRequest, dispatch
    <3>2. req.verb \in XrefVerbs \/ req.verb = "type" \/ req.verb = "sig" \/ req.verb = "members" \/ req.verb \in {"super", "sub"}
      BY <3>1 DEF WalkVerbs, XrefVerbs
    <3>3. reply' = CASE req.verb \in XrefVerbs -> do_xrefs
                     [] req.verb = "type"      -> do_type
                     [] req.verb = "sig"       -> do_sig
                     [] req.verb = "members"   -> do_members
                     [] req.verb \in {"super", "sub"} -> do_inh
      BY <1>3 DEF dispatch, SendReply
    <3> QED BY <3>2, <3>3 DEF XrefVerbs
  <2>3. do_xrefs # NoReply
    BY <1>0, Zenon DEF do_xrefs
  <2>4. do_type # NoReply /\ do_sig # NoReply
    BY <1>0, Zenon DEF do_type, do_sig, Rendered
  <2>5. do_members # NoReply
    BY <1>0, Zenon DEF do_members
  <2>6. do_inh # NoReply
    BY <1>0, Zenon DEF do_inh
  <2>7. reply' # NoReply
    BY <2>2, <2>3, <2>4, <2>5, <2>6
  <2> QED BY <2>1, <2>7 DEF Answering
<1>4. CASE Seed
  <2>1. pc # "replied" /\ pc' = "walk" /\ reply' = reply /\ req' = req /\ req.verb \in WalkVerbs
    BY <1>4 DEF Seed, Resolved
  <2> QED BY <2>1 DEF Answering
<1>5. CASE Expand \/ NextHop
  <2>1. pc = "walk" /\ pc' = "walk" /\ reply' = reply /\ req' = req
    BY <1>5 DEF Expand, NextHop, WalkStep, searchVars
  <2> QED BY <2>1 DEF Answering
<1>6. CASE Follow
  <2>1. PICK w : \/ pc' = "replied" /\ reply' = [items |-> w.nodes, truncated |-> TRUE]
                 \/ pc' = "walk" /\ reply' = reply
    BY <1>6 DEF Follow, SendReply, searchVars
  <2>2. pc = "walk" /\ req' = req
    BY <1>6 DEF Follow, SendReply
  <2>3. [items |-> w.nodes, truncated |-> TRUE] # NoReply
    BY <1>0
  <2> QED BY <2>1, <2>2, <2>3 DEF Answering
<1>7. CASE EndWalk
  <2>1. pc' = "replied" /\ reply' = [items |-> walk.nodes, truncated |-> FALSE]
    BY <1>7 DEF EndWalk, SendReply
  <2>3. [items |-> walk.nodes, truncated |-> FALSE] # NoReply
    BY <1>0
  <2> QED BY <2>1, <2>3 DEF Answering
<1>8. CASE UNCHANGED vars
  <2>1. pc' = pc /\ reply' = reply /\ req' = req
    BY <1>8 DEF vars, searchVars
  <2> QED BY <2>1 DEF Answering
<1> QED BY <1>1, <1>2, <1>3, <1>4, <1>5, <1>6, <1>7, <1>8 DEF Next

\* What the tables say of a request does not change.
LEMMA SameXrefs ==
    ASSUME Kept
    PROVE  \A r : XrefsOk(r)' <=> XrefsOk(r)
<1>1. names' = names /\ query' = query /\ scan' = scan /\ db' = db /\ req' = req
  BY DEF Kept
<1>2. Asked' = Asked
  <2>1. UNCHANGED <<names, query, scan, req>>
    BY <1>1
  <2> QED BY <2>1, SameAsked
<1>3. WithinScan' <=> WithinScan
  BY <1>1 DEF WithinScan, MatchingRows, Matches
<1>4. \A x : DefIn(x)' <=> DefIn(x)
  BY <1>1 DEF DefIn
<1>5. \A x : PathOf(x)' = PathOf(x)
  BY <1>1 DEF PathOf
<1>6. \A x : passes(x)' <=> passes(x)
  BY <1>1 DEF passes
<1>7. \A x : passes(PathOf(x))' <=> passes(PathOf(x))
  BY <1>1, <1>5 DEF passes
<1>8. AllRows' = AllRows
  BY <1>1, <1>2, <1>4, <1>7 DEF AllRows
<1> QED BY <1>1, <1>3, <1>8 DEF XrefsOk

\* The symbols that are gathered, the replies and what they rest on.
Searched == Typed /\ Built /\ ScanWalk /\ TrigramWalk /\ Gathering /\ Answering

\* It holds at first and every step keeps it.
LEMMA SearchedAlways == Spec => []Searched
<1>1. Init => Searched
  <2> SUFFICES ASSUME Init PROVE Searched
    OBVIOUS
  <2>1. /\ scan = <<>> /\ out = <<>> /\ ix = build_trigram_index(names) /\ reply = NoReply
        /\ pc = IF req.substr THEN "start" ELSE "exact"
    BY DEF Init, SearchInit
  <2>2. Typed
    BY InitTyped
  <2>3. req.substr \in BOOLEAN
    BY <2>2 DEF Typed, IsRequest
  <2>4. ScanWalk /\ TrigramWalk /\ Built
    BY <2>1 DEF ScanWalk, ScanInv, TrigramWalk, TrigramIsSerial, Built
  <2>5. Gathering /\ Answering
    BY <2>1, <2>3 DEF Gathering, Answering
  <2> QED BY <2>2, <2>4, <2>5 DEF Searched
<1>2. Searched /\ [Next]_vars => Searched'
  <2> SUFFICES ASSUME Searched, [Next]_vars PROVE Searched'
    OBVIOUS
  <2>1. Typed /\ Built /\ ScanWalk /\ TrigramWalk /\ Gathering /\ Answering
    BY DEF Searched
  <2>2. Typed' /\ Built' /\ ScanWalk' /\ TrigramWalk' /\ Gathering' /\ Answering'
    BY <2>1, NextTyped, NextBuilt, NextScan, NextTrigram, NextGathering, NextAnswering
  <2> QED BY <2>2 DEF Searched
<1> QED BY <1>1, <1>2, PTL DEF Spec

\* For every index and every request, a def, ref or callers reply (do_xrefs
\* in server.rs) holds no row twice and none that the tables, the filters
\* and the names asked for do not justify, respects max_hits, and unless it
\* is flagged truncated holds them all.
THEOREM XrefsAreHonest == Spec => []XrefsHonest
<1>1. Init => XrefsHonest
  BY DEF Init, XrefsHonest, Replied
<1>2. Searched /\ XrefsHonest /\ [Next]_vars => XrefsHonest'
  <2> SUFFICES ASSUME Searched, XrefsHonest, [Next]_vars, Replied(XrefVerbs)'
               PROVE  XrefsOk(reply)'
    BY Zenon DEF XrefsHonest, XrefsOk
  <2>0. reply' # NoReply /\ req'.verb \in XrefVerbs
    BY DEF Replied, NoReply
  <2>1. Typed /\ ScanWalk /\ TrigramWalk /\ Gathering /\ Answering
    BY DEF Searched
  <2>2. XrefVerbs \cap WalkVerbs = {}
    BY DEF XrefVerbs, WalkVerbs
  <2>3. PICK r : r = reply'
    OBVIOUS
  <2>4. CASE UNCHANGED vars
    <3>1. Kept /\ reply' = reply /\ req' = req
      BY <2>4 DEF vars, searchVars, Kept
    <3>2. Replied(XrefVerbs)
      BY <2>0, <3>1 DEF Replied
    <3>3. XrefsOk(reply)
      BY <3>2, Zenon DEF XrefsHonest, XrefsOk
    <3>4. XrefsOk(r)
      BY <2>3, <3>1, <3>3
    <3>5. XrefsOk(r)'
      BY <3>1, <3>4, SameXrefs
    <3> QED BY <2>3, <3>5 DEF XrefsOk
  <2>5. CASE pc' = "replied" /\ Kept /\ GatheredOf(out) /\ dispatch
    <3>1. req' = req
      BY <2>5 DEF Kept
    <3>2. reply' = do_xrefs
      BY <2>0, <2>5, <3>1 DEF dispatch, SendReply, XrefVerbs
    <3>3. XrefsOk(do_xrefs)
      BY <2>0, <2>1, <2>5, <3>1, XrefsRight
    <3>4. XrefsOk(r)
      BY <2>3, <3>2, <3>3
    <3>5. XrefsOk(r)'
      BY <2>5, <3>4, SameXrefs
    <3> QED BY <2>3, <3>5 DEF XrefsOk
  <2> QED BY <2>0, <2>1, <2>2, <2>4, <2>5, ReplySteps
<1> QED BY <1>1, <1>2, SearchedAlways, PTL DEF Spec

-----------------------------------------------------------------------------
(* The type, sig and members replies.                                      *)

\* The symbols in the second column of the rows of s.
ToOf(table, s) == {r[2] : r \in {x \in ToSet(table) : x[1] = s}}

\* The second column of what a lookup returns.
LEMMA SecondFound ==
    ASSUME NEW V, NEW got, NEW table, NEW K, ReadOf(got, V, table, K), NEW s,
           \A r \in ToSet(table) : r \in V /\ (r \in K <=> r[1] = s), \A r \in V : r[2] \in Sym
    PROVE  SecondCol(got) \in Seq(Sym) /\ ToSet(SecondCol(got)) = ToOf(table, s)
<1>1. got \in Seq(V) /\ ToSet(got) = ToSet(table) \cap K /\ Len(got) \in Nat
  BY DEF ReadOf
<1>2. DOMAIN got = 1..Len(got) /\ ToSet(got) = {got[i] : i \in 1..Len(got)} /\ \A i \in 1..Len(got) : got[i] \in V
  BY <1>1, ElementsOf DEF RowsIn
<1>3. SecondCol(got) = [i \in 1..Len(got) |-> got[i][2]]
  BY <1>2 DEF SecondCol
<1>4. \A i \in 1..Len(got) : got[i][2] \in Sym
  BY <1>2
<1>5. SecondCol(got) \in Seq(Sym)
  BY <1>1, <1>3, <1>4
<1>6. ToSet(SecondCol(got)) = {got[i][2] : i \in 1..Len(got)}
  BY <1>3 DEF ToSet
<1>7. {got[i][2] : i \in 1..Len(got)} = {r[2] : r \in ToSet(got)}
  BY <1>2
<1>8. {r[2] : r \in ToSet(got)} = ToOf(table, s)
  <2>1. ToSet(got) = {x \in ToSet(table) : x[1] = s}
    BY <1>1
  <2> QED BY <2>1 DEF ToOf
<1> QED BY <1>5, <1>6, <1>7, <1>8

\* The symbols an edge table leads to.
Leads(got, table, s) == got \in Seq(Sym) /\ ToSet(got) = ToOf(table, s)

\* The lookups of edges.
LEMMA EdgesLead ==
    ASSUME Typed, NEW s \in Sym
    PROVE  /\ Leads(inherits_of(db, s), db.inh, s) /\ Leads(inherited_by(db, s), db.inhrev, s)
           /\ Leads(members(db, s), db.childrev, s)
           /\ Leads(calls_from(db, s), db.calls, s) /\ Leads(called_by(db, s), db.crev, s)
<1>1. /\ \A rows \in {db.inh, db.inhrev, db.childrev} : rows \in Seq(EdgeRow) /\ Ascends(rows)
      /\ \A rows \in {db.calls, db.crev} : rows \in Seq(SiteRow) /\ Ascends(rows)
  BY DEF Typed, IsIndex, TablesReady, EdgeRow, SiteRow
<1>2. ASSUME NEW table \in Seq(EdgeRow), Ascends(table)
      PROVE  Leads(SecondCol(RowsOf(table, s, 2)), table, s)
  <2>1. ReadOf(RowsOf(table, s, 2), EdgeRow, table, EdgesIn(s))
    BY <1>2, EdgesFound
  <2>2. \A r \in ToSet(table) : r \in EdgeRow /\ (r \in EdgesIn(s) <=> r[1] = s)
    BY ElementsOf DEF EdgesIn
  <2>3. \A r \in EdgeRow : r[2] \in Sym
    BY DEF EdgeRow
  <2> QED BY <2>1, <2>2, <2>3, SecondFound DEF Leads
<1>3. ASSUME NEW table \in Seq(SiteRow), Ascends(table)
      PROVE  Leads(SecondCol(RowsOf(table, s, 3)), table, s)
  <2>1. ReadOf(RowsOf(table, s, 3), SiteRow, table, SitesIn(s))
    BY <1>3, SitesFound
  <2>2. \A r \in ToSet(table) : r \in SiteRow /\ (r \in SitesIn(s) <=> r[1] = s)
    BY ElementsOf DEF SitesIn
  <2>3. \A r \in SiteRow : r[2] \in Sym
    BY DEF SiteRow
  <2> QED BY <2>1, <2>2, <2>3, SecondFound DEF Leads
<1> QED BY <1>1, <1>2, <1>3 DEF inherits_of, inherited_by, members, calls_from, called_by

\* The keys of the first distinct elements of a list.
KeysOf(s, key) == {key[x] : x \in ToSet(s)}

ShownRule(H, S, key, n) ==
    /\ H \in Seq(Sym) /\ Len(H) \in Nat /\ Len(H) <= Larger(1, n)
    /\ ToSet(H) \in SUBSET ToSet(S)
    /\ KeysOf(H, key) \subseteq KeysOf(S, key)
    /\ Cardinality(KeysOf(H, key)) = Len(H)
    /\ Len(DistinctBy(S, key)) < n \/ DistinctBy(S, key) = <<>> => KeysOf(H, key) = KeysOf(S, key)
    /\ Len(H) < n => KeysOf(H, key) = KeysOf(S, key)

\* Each key is shown once, and unless the limit is met every one.
LEMMA ShownOnce ==
    ASSUME NEW S \in Seq(Sym), NEW key, NEW n \in Nat
    PROVE  ShownRule(Upto(DistinctBy(S, key), n), S, key, n)
<1> DEFINE D   == DistinctBy(S, key)
           H   == Upto(D, n)
           m   == Len(H)
           kh  == [i \in 1..m |-> key[H[i]]]
           got == KeysOf(H, key)
<1>1. /\ D \in Seq(Sym) /\ Len(D) \in Nat /\ ToSet(D) \in SUBSET ToSet(S)
      /\ \A x \in ToSet(S) : \E y \in ToSet(D) : key[y] = key[x]
      /\ \A i, j \in 1..Len(D) : key[D[i]] = key[D[j]] => i = j
  BY KeyElements
<1> HIDE DEF D
<1>2. UptoRule(H, D, Sym, n)
  BY <1>1, UptoOf
<1> HIDE DEF H
<1>3. /\ H \in Seq(Sym) /\ m \in Nat /\ DOMAIN H = 1..m /\ ToSet(H) = {H[i] : i \in 1..m}
      /\ ToSet(H) \in SUBSET ToSet(S)
  <2>1. H \in Seq(Sym) /\ ToSet(H) \in SUBSET ToSet(S)
    BY <1>1, <1>2 DEF UptoRule
  <2> QED BY <2>1, ElementsOf DEF RowsIn
<1>4. Cardinality(got) = m
  <2>1. \A i \in 1..m : H[i] = D[i] /\ i \in 1..Len(D)
    <3>1. m <= Len(D) /\ \A i \in 1..m : H[i] = D[i]
      BY <1>2 DEF UptoRule
    <3> QED BY <1>1, <1>3, <3>1
  <2>2. kh \in Seq(got) /\ Len(kh) = m /\ \A i \in 1..m : kh[i] = key[H[i]]
    <3>1. \A i \in 1..m : key[H[i]] \in got
      BY <1>3 DEF KeysOf
    <3> HIDE DEF m, got
    <3> QED BY <1>3, <3>1
  <2> HIDE DEF kh, m
  <2>3. Distinct(kh)
    BY <1>1, <2>1, <2>2 DEF Distinct
  <2>4. ToSet(kh) = got
    <3>1. ToSet(kh) = {kh[i] : i \in 1..m}
      BY <2>2, ElementsOf DEF RowsIn
    <3>2. {kh[i] : i \in 1..m} = {key[H[i]] : i \in 1..m}
      BY <2>2
    <3>3. {key[H[i]] : i \in 1..m} = got
      BY <1>3 DEF KeysOf
    <3> QED BY <3>1, <3>2, <3>3
  <2> HIDE DEF got
  <2> QED BY <2>2, <2>3, <2>4, DistinctCount
<1>5. got \subseteq KeysOf(S, key)
  BY <1>3 DEF KeysOf
<1>6. m <= Larger(1, n)
  <2>1. Larger(1, n) = Larger(n, 1) /\ m <= Larger(n, 1)
    BY <1>2 DEF UptoRule, Larger
  <2> QED BY <2>1
<1>7. ASSUME H = D PROVE got = KeysOf(S, key)
  <2>1. KeysOf(D, key) = KeysOf(S, key)
    BY <1>1 DEF KeysOf
  <2> QED BY <1>7, <2>1
<1>8. ASSUME Len(D) < n \/ D = <<>> PROVE H = D
  <2>1. Len(D) <= Larger(n, 1)
    BY <1>1, <1>8 DEF Larger
  <2> QED BY <1>2, <2>1 DEF UptoRule
<1>9. ASSUME m < n PROVE H = D
  <2>1. n >= 1 /\ Larger(n, 1) = n
    BY <1>3, <1>9 DEF Larger
  <2>2. ~ (Len(D) >= n)
    BY <1>2, <1>3, <1>9, <2>1 DEF UptoRule
  <2>3. Len(D) <= n
    BY <1>1, <2>2
  <2> QED BY <1>2, <2>1, <2>3 DEF UptoRule
<1> HIDE DEF got
<1>10. ShownRule(H, S, key, n)
  BY <1>3, <1>4, <1>5, <1>6, <1>7, <1>8, <1>9 DEF ShownRule, got, m, D
<1> QED BY <1>10 DEF H, D

\* The value a keyed table has for s, as the set of it.
ColOf(T, s) == {r[2] : r \in FindKey(T, s)}

ListSyms(T) == Keep(out, {s \in ToSet(out) : ColOf(T, s) # {}})
ListKey(T)  == [s \in ToSet(ListSyms(T)) |-> <<logical_key(Meta(s)[4]), ColOf(T, s)>>]
ListHits(T) == Upto(DistinctBy(ListSyms(T), ListKey(T)), req.limit)

ListReply(T) ==
    [items |-> [i \in DOMAIN ListHits(T) |-> [name |-> Meta(ListHits(T)[i])[4], string |-> ColOf(T, ListHits(T)[i])]],
     truncated |-> Len(ListHits(T)) >= req.limit]

\* The replies, in these terms.
LEMMA ListReplies == do_type = ListReply(db.typed) /\ do_sig = ListReply(db.sig)
<1>1. do_type = ListReply(db.typed)
  BY Zenon DEF do_type, Rendered, type_of, ListReply, ListHits, ListKey, ListSyms, ColOf
<1>2. do_sig = ListReply(db.sig)
  BY Zenon DEF do_sig, Rendered, sig_of, ListReply, ListHits, ListKey, ListSyms, ColOf
<1> QED BY <1>1, <1>2

\* What the property says of a type or sig reply.
ListOk(r, T) ==
    LET all == {<<logical_key(Meta(x[1])[4]), {x[2]}>> : x \in {y \in ToSet(T) : y[1] \in ToSet(out)}}
        got == {<<logical_key(h.name), h.string>> : h \in ToSet(r.items)}
    IN  /\ Len(r.items) <= Larger(1, req.limit)
        /\ got \subseteq all
        /\ Cardinality(got) = Len(r.items)
        /\ ~r.truncated => got = all

ValueTable(T) == T \in Seq(Sym \X Nat) /\ KeyUp(T)

\* What a keyed table has for a symbol.
LEMMA ValueFound ==
    ASSUME NEW T, ValueTable(T), NEW s \in Sym
    PROVE  /\ \A r \in ToSet(T) : r[1] = s => ColOf(T, s) = {r[2]}
           /\ ColOf(T, s) # {} => \E r \in ToSet(T) : r[1] = s
<1>1. T \in Seq(Sym \X Nat) /\ KeyUp(T)
  BY DEF ValueTable
<1>2. ToSet(T) = {T[i] : i \in 1..Len(T)} /\ Len(T) \in Nat
  BY <1>1, ElementsOf DEF RowsIn
<1>3. \A i \in 1..Len(T) : T[i] \in Sym \X Nat
  BY <1>1
<1>4. s \in Nat /\ Sym \in SUBSET Nat
  BY SymNext
<1>5. Keyed(T)
  BY <1>1, <1>2, <1>3, <1>4 DEF Keyed
<1>6. FindKey(T, s) = {r \in ToSet(T) : r[1] = s}
  BY <1>4, <1>5, KeyFound
<1>7. ASSUME NEW r \in ToSet(T), NEW q \in ToSet(T), r[1] = s, q[1] = s
      PROVE  r = q
  <2>1. PICK i \in 1..Len(T) : r = T[i]
    BY <1>2
  <2>2. PICK j \in 1..Len(T) : q = T[j]
    BY <1>2
  <2>3. ~ (i < j) /\ ~ (j < i)
    BY <1>1, <1>3, <1>4, <1>7, <2>1, <2>2 DEF KeyUp
  <2>4. i = j
    BY <2>3
  <2> QED BY <2>1, <2>2, <2>4
<1> QED BY <1>6, <1>7 DEF ColOf

\* A type or sig reply.
LEMMA ListRight ==
    ASSUME Typed, GatheredOf(out), NEW T, ValueTable(T)
    PROVE  ListOk(ListReply(T), T)
<1> DEFINE S   == ListSyms(T)
           key == ListKey(T)
           H   == ListHits(T)
           r   == ListReply(T)
           lim == req.limit
           n   == Len(H)
           all == {<<logical_key(Meta(x[1])[4]), {x[2]}>> : x \in {y \in ToSet(T) : y[1] \in ToSet(out)}}
           got == {<<logical_key(h.name), h.string>> : h \in ToSet(r.items)}
<1>0. out \in Seq(Sym) /\ lim \in Nat /\ ToSet(out) \in SUBSET Sym
  <2>1. out \in Seq(Sym)
    BY DEF GatheredOf
  <2> QED BY <2>1, ElementsOf DEF Typed, IsRequest
<1>1. S \in Seq(Sym) /\ ToSet(S) = {s \in ToSet(out) : ColOf(T, s) # {}}
  <2> DEFINE K == {s \in ToSet(out) : ColOf(T, s) # {}}
  <2>1. S = Keep(out, K) /\ ToSet(out) \cap K = K
    BY DEF ListSyms
  <2> HIDE DEF K, S
  <2>2. S \in Seq(Sym) /\ ToSet(S) = ToSet(out) \cap K
    BY <1>0, <2>1, KeepElements
  <2> QED BY <2>1, <2>2 DEF K
<1>2. \A s \in ToSet(S) : key[s] = <<logical_key(Meta(s)[4]), ColOf(T, s)>>
  BY DEF ListKey
<1>3. H = Upto(DistinctBy(S, key), lim)
  BY DEF ListHits
<1>4. \A i \in DOMAIN H : /\ r.items[i] = [name |-> Meta(H[i])[4], string |-> ColOf(T, H[i])]
                          /\ r.items[i].name = Meta(H[i])[4] /\ r.items[i].string = ColOf(T, H[i])
  BY DEF ListReply
<1>5. DOMAIN r.items = DOMAIN H /\ (r.truncated <=> n >= lim)
  BY DEF ListReply
<1> HIDE DEF S, key, H, r
<1>6. ShownRule(H, S, key, lim)
  BY <1>0, <1>1, <1>3, ShownOnce
<1>8. /\ H \in Seq(Sym) /\ n \in Nat /\ DOMAIN H = 1..n /\ ToSet(H) = {H[i] : i \in 1..n}
      /\ ToSet(H) \in SUBSET ToSet(S)
  <2>1. H \in Seq(Sym) /\ ToSet(H) \in SUBSET ToSet(S)
    BY <1>6 DEF ShownRule
  <2> QED BY <2>1, ElementsOf DEF RowsIn
<1>9. got = KeysOf(H, key)
  <2>1. ToSet(r.items) = {r.items[i] : i \in 1..n}
    BY <1>5, <1>8 DEF ToSet
  <2>2. got = {<<logical_key(r.items[i].name), r.items[i].string>> : i \in 1..n}
    BY <2>1
  <2>3. \A i \in 1..n : <<logical_key(r.items[i].name), r.items[i].string>> = key[H[i]]
    BY <1>2, <1>4, <1>8
  <2> HIDE DEF n, got
  <2>4. got = {key[H[i]] : i \in 1..n}
    BY <2>2, <2>3
  <2> QED BY <1>8, <2>4 DEF KeysOf
<1>10. Len(r.items) = n
  BY <1>5, <1>8
<1> HIDE DEF got
<1>12. KeysOf(S, key) = all
  <2>1. ASSUME NEW s \in ToSet(S)
        PROVE  key[s] \in all
    <3>1. s \in ToSet(out) /\ ColOf(T, s) # {} /\ s \in Sym
      BY <1>0, <1>1
    <3>2. PICK x \in ToSet(T) : x[1] = s
      BY <3>1, ValueFound
    <3>3. ColOf(T, s) = {x[2]}
      BY <3>1, <3>2, ValueFound
    <3>4. key[s] = <<logical_key(Meta(x[1])[4]), {x[2]}>>
      BY <1>2, <3>2, <3>3
    <3>5. x \in {y \in ToSet(T) : y[1] \in ToSet(out)}
      BY <3>1, <3>2
    <3> QED BY <3>4, <3>5
  <2>2. ASSUME NEW x \in ToSet(T), x[1] \in ToSet(out)
        PROVE  <<logical_key(Meta(x[1])[4]), {x[2]}>> \in KeysOf(S, key)
    <3>1. x[1] \in Sym
      BY <1>0, <2>2
    <3>2. ColOf(T, x[1]) = {x[2]}
      BY <3>1, ValueFound
    <3>3. x[1] \in ToSet(S)
      BY <1>1, <2>2, <3>2
    <3>4. key[x[1]] = <<logical_key(Meta(x[1])[4]), {x[2]}>>
      BY <1>2, <3>2, <3>3
    <3> QED BY <3>3, <3>4 DEF KeysOf
  <2> QED BY <2>1, <2>2 DEF KeysOf
<1> HIDE DEF all
<1>13. got \subseteq all /\ Len(r.items) <= Larger(1, lim) /\ Cardinality(got) = Len(r.items)
  BY <1>6, <1>9, <1>10, <1>12 DEF ShownRule
<1>15. ASSUME ~r.truncated PROVE got = all
  <2>1. n < lim
    BY <1>0, <1>5, <1>8, <1>15
  <2> QED BY <1>6, <1>9, <1>12, <2>1 DEF ShownRule
<1>17. ListOk(r, T)
  BY <1>13, <1>15, Zenon DEF ListOk, got, all, lim
<1> QED BY <1>17 DEF r

MemberOf   == Keep(out, {s \in ToSet(out) : is_container(Meta(s)[2])})
Children   == FlattenSeq([i \in DOMAIN MemberOf |-> members(db, MemberOf[i])])
ChildKey   == [c \in ToSet(Children) |-> MemberKey(c)]
ChildHits  == Upto(DistinctBy(Children, ChildKey), req.limit)
ChildCut   == DistinctBy(Children, ChildKey) # <<>> /\ Len(DistinctBy(Children, ChildKey)) >= req.limit

\* The reply, in these terms.
LEMMA MembersReply ==
    do_members = [items |-> [i \in DOMAIN ChildHits |-> [child |-> ChildHits[i], key |-> MemberKey(ChildHits[i])]],
                  truncated |-> ChildCut]
BY Zenon DEF do_members, MemberOf, Children, ChildKey, ChildHits, ChildCut

\* The members of the types and packages that are gathered.
AllChildren ==
    {r[2] : r \in {x \in ToSet(db.childrev) :
                      x[1] \in ToSet(out) /\ Meta(x[1])[2] \in {KindType, KindPackage}}}

\* What the property says of a members reply.
MembersOk(r) ==
    /\ Len(r.items) <= Larger(1, req.limit)
    /\ {h.child : h \in ToSet(r.items)} \subseteq AllChildren
    /\ Cardinality({h.key : h \in ToSet(r.items)}) = Len(r.items)
    /\ ~r.truncated => {h.key : h \in ToSet(r.items)} = {MemberKey(c) : c \in AllChildren}

\* What a list of lists of symbols holds, one list for each symbol of s.
LEMMA FlatLead ==
    ASSUME NEW s \in Seq(Sym), NEW ss, NEW table,
           DOMAIN ss = DOMAIN s, \A i \in DOMAIN s : Leads(ss[i], table, s[i]),
           ss = [i \in DOMAIN s |-> ss[i]]
    PROVE  /\ FlattenSeq(ss) \in Seq(Sym)
           /\ \A y : y \in ToSet(FlattenSeq(ss)) <=> \E x \in ToSet(s) : y \in ToOf(table, x)
<1>1. Len(s) \in Nat /\ DOMAIN s = 1..Len(s) /\ ToSet(s) = {s[i] : i \in 1..Len(s)}
  BY ElementsOf DEF RowsIn
<1>2. \A i \in 1..Len(s) : ss[i] \in Seq(Sym) /\ ToSet(ss[i]) = ToOf(table, s[i])
  BY <1>1 DEF Leads
<1>3. ss \in Seq(Seq(Sym)) /\ Len(ss) = Len(s)
  <2>1. ss = [i \in 1..Len(s) |-> ss[i]]
    BY <1>1
  <2> QED BY <1>1, <1>2, <2>1
<1>4. /\ FlattenSeq(ss) \in Seq(Sym)
      /\ \A y : y \in ToSet(FlattenSeq(ss)) <=> \E i \in 1..Len(ss) : y \in ToSet(ss[i])
  BY <1>3, FlattenElements
<1> QED BY <1>1, <1>2, <1>3, <1>4

\* The children before the limit is applied.
LEMMA ChildrenFound ==
    ASSUME Typed, GatheredOf(out)
    PROVE  Children \in Seq(Sym) /\ ToSet(Children) = AllChildren
<1> DEFINE K == {s \in ToSet(out) : is_container(Meta(s)[2])}
           ss == [i \in DOMAIN MemberOf |-> members(db, MemberOf[i])]
<1>1. MemberOf \in Seq(Sym) /\ ToSet(MemberOf) = K
  <2>1. MemberOf = Keep(out, K) /\ ToSet(out) \cap K = K /\ out \in Seq(Sym)
    BY DEF MemberOf, GatheredOf
  <2> HIDE DEF K
  <2> QED BY <2>1, KeepElements
<1>2. \A i \in DOMAIN MemberOf : MemberOf[i] \in Sym
  BY <1>1
<1>3. DOMAIN ss = DOMAIN MemberOf /\ ss = [i \in DOMAIN MemberOf |-> ss[i]]
  OBVIOUS
<1>4. \A i \in DOMAIN MemberOf : Leads(ss[i], db.childrev, MemberOf[i])
  BY <1>2, EdgesLead
<1>5. Children = FlattenSeq(ss)
  BY DEF Children
<1> HIDE DEF ss, K
<1>6. /\ Children \in Seq(Sym)
      /\ \A y : y \in ToSet(Children) <=> \E x \in ToSet(MemberOf) : y \in ToOf(db.childrev, x)
  BY <1>1, <1>3, <1>4, <1>5, FlatLead
<1>7. \A y : (\E x \in K : y \in ToOf(db.childrev, x)) <=> y \in AllChildren
  BY DEF ToOf, AllChildren, K, is_container
<1> QED BY <1>1, <1>6, <1>7

\* A members reply.
LEMMA MembersRight ==
    ASSUME Typed, GatheredOf(out)
    PROVE  MembersOk(do_members)
<1> DEFINE S   == Children
           key == ChildKey
           H   == ChildHits
           r   == do_members
           lim == req.limit
           n   == Len(H)
<1>1. S \in Seq(Sym) /\ ToSet(S) = AllChildren /\ lim \in Nat
  BY ChildrenFound DEF Typed, IsRequest
<1>2. \A s \in ToSet(S) : key[s] = MemberKey(s)
  BY DEF ChildKey
<1>3. H = Upto(DistinctBy(S, key), lim)
  BY DEF ChildHits
<1>4. /\ DOMAIN r.items = DOMAIN H
      /\ \A i \in DOMAIN H : r.items[i].child = H[i] /\ r.items[i].key = MemberKey(H[i])
      /\ r.truncated <=> ChildCut
  BY MembersReply
<1>5. ChildCut <=> DistinctBy(S, key) # <<>> /\ Len(DistinctBy(S, key)) >= lim
  BY DEF ChildCut
<1> HIDE DEF S, key, H, r, lim
<1>6. ShownRule(H, S, key, lim)
  BY <1>1, <1>3, ShownOnce
<1>7. /\ H \in Seq(Sym) /\ n \in Nat /\ DOMAIN H = 1..n /\ ToSet(H) = {H[i] : i \in 1..n}
      /\ ToSet(H) \in SUBSET ToSet(S)
  <2>1. H \in Seq(Sym) /\ ToSet(H) \in SUBSET ToSet(S)
    BY <1>6 DEF ShownRule
  <2> QED BY <2>1, ElementsOf DEF RowsIn
<1>8. ToSet(r.items) = {r.items[i] : i \in 1..n} /\ Len(r.items) = n
  <2>1. ToSet(r.items) = {r.items[i] : i \in 1..n}
    BY <1>4, <1>7 DEF ToSet
  <2>2. DOMAIN r.items = 1..n /\ n \in Nat
    BY <1>4, <1>7
  <2> QED BY <2>1, <2>2
<1>9. {h.child : h \in ToSet(r.items)} = ToSet(H)
  BY <1>4, <1>7, <1>8
<1>10. {h.key : h \in ToSet(r.items)} = KeysOf(H, key)
  <2>1. {h.key : h \in ToSet(r.items)} = {MemberKey(H[i]) : i \in 1..n}
    BY <1>4, <1>7, <1>8
  <2>2. \A i \in 1..n : MemberKey(H[i]) = key[H[i]]
    BY <1>2, <1>7
  <2>3. {MemberKey(H[i]) : i \in 1..n} = {key[H[i]] : i \in 1..n}
    BY <2>2
  <2> QED BY <1>7, <2>1, <2>3 DEF KeysOf
<1>11. KeysOf(S, key) = {MemberKey(c) : c \in AllChildren}
  BY <1>1, <1>2 DEF KeysOf
<1>12. ASSUME ~r.truncated PROVE KeysOf(H, key) = KeysOf(S, key)
  <2>1. Len(DistinctBy(S, key)) \in Nat
    BY <1>1, KeyElements
  <2>2. Len(DistinctBy(S, key)) < lim \/ DistinctBy(S, key) = <<>>
    BY <1>1, <1>4, <1>5, <1>12, <2>1
  <2> QED BY <1>6, <2>2 DEF ShownRule
<1>13. /\ Len(r.items) <= Larger(1, lim) /\ Cardinality(KeysOf(H, key)) = Len(r.items)
       /\ ToSet(H) \subseteq AllChildren
  BY <1>1, <1>6, <1>7, <1>8 DEF ShownRule
<1>14. MembersOk(r)
  BY <1>9, <1>10, <1>11, <1>12, <1>13, Zenon DEF MembersOk, lim
<1> QED BY <1>14 DEF r

\* What the property says of a reply that lists.
ListingsOk(r) ==
    /\ req.verb = "type" => ListOk(r, db.typed)
    /\ req.verb = "sig" => ListOk(r, db.sig)
    /\ req.verb = "members" => MembersOk(r)

\* What the tables say of a listing does not change.
LEMMA SameListings ==
    ASSUME Kept
    PROVE  \A r : ListingsOk(r)' <=> ListingsOk(r)
<1>1. db' = db /\ req' = req /\ out' = out
  BY DEF Kept
<1>2. \A x : Meta(x)' = Meta(x)
  BY <1>1 DEF Meta
<1>3. \A x : MemberKey(x)' = MemberKey(x)
  BY <1>1, <1>2 DEF MemberKey
<1>4. AllChildren' = AllChildren
  BY <1>1, <1>2 DEF AllChildren
<1>5. \A r : MembersOk(r)' <=> MembersOk(r)
  BY <1>1, <1>3, <1>4 DEF MembersOk
<1>7. \A r : ListOk(r, db.typed)' <=> ListOk(r, db.typed)
  BY <1>1, <1>2 DEF ListOk
<1>8. \A r : ListOk(r, db.sig)' <=> ListOk(r, db.sig)
  BY <1>1, <1>2 DEF ListOk
<1> QED BY <1>1, <1>5, <1>7, <1>8 DEF ListingsOk

\* The listing that is sent.
LEMMA ListingsRight ==
    ASSUME Typed, GatheredOf(out), dispatch, req.verb \in {"type", "sig", "members"}
    PROVE  ListingsOk(reply')
<1>1. ValueTable(db.typed) /\ ValueTable(db.sig)
  BY DEF Typed, IsIndex, TablesReady, ValueTable
<1>2. ListOk(do_type, db.typed) /\ ListOk(do_sig, db.sig) /\ MembersOk(do_members)
  BY <1>1, ListReplies, ListRight, MembersRight
<1>3. CASE req.verb = "type"
  <2>1. reply' = do_type
    BY <1>3 DEF dispatch, SendReply, XrefVerbs
  <2> QED BY <1>2, <1>3, <2>1 DEF ListingsOk
<1>4. CASE req.verb = "sig"
  <2>1. reply' = do_sig
    BY <1>4 DEF dispatch, SendReply, XrefVerbs
  <2> QED BY <1>2, <1>4, <2>1 DEF ListingsOk
<1>5. CASE req.verb = "members"
  <2>1. reply' = do_members
    BY <1>5 DEF dispatch, SendReply, XrefVerbs
  <2> QED BY <1>2, <1>5, <2>1 DEF ListingsOk
<1> QED BY <1>3, <1>4, <1>5

\* The property, as what it says of a reply.
LEMMA ListingsMean ==
    ListingsHonest <=> (Replied({"type", "sig", "members"}) => ListingsOk(reply))
<1>1. CASE reply = NoReply
  BY <1>1 DEF Replied, ListingsHonest
<1>2. CASE req.verb = "type" /\ reply # NoReply
  <2>1. Replied({"type", "sig", "members"}) /\ Replied({"type", "sig"}) /\ ~Replied({"members"})
    BY <1>2 DEF Replied
  <2>2. ListingsOk(reply) <=> ListOk(reply, db.typed)
    BY <1>2 DEF ListingsOk
  <2>3. (IF req.verb = "type" THEN db.typed ELSE db.sig) = db.typed
    BY <1>2
  <2> QED BY <2>1, <2>2, <2>3 DEF ListingsHonest, ListOk
<1>3. CASE req.verb = "sig" /\ reply # NoReply
  <2>1. Replied({"type", "sig", "members"}) /\ Replied({"type", "sig"}) /\ ~Replied({"members"})
    BY <1>3 DEF Replied
  <2>2. ListingsOk(reply) <=> ListOk(reply, db.sig)
    BY <1>3 DEF ListingsOk
  <2>3. (IF req.verb = "type" THEN db.typed ELSE db.sig) = db.sig
    BY <1>3
  <2> QED BY <2>1, <2>2, <2>3 DEF ListingsHonest, ListOk
<1>4. CASE req.verb = "members" /\ reply # NoReply
  <2>1. Replied({"type", "sig", "members"}) /\ ~Replied({"type", "sig"}) /\ Replied({"members"})
    BY <1>4 DEF Replied
  <2>2. ListingsOk(reply) <=> MembersOk(reply)
    BY <1>4 DEF ListingsOk
  <2> QED BY <2>1, <2>2 DEF ListingsHonest, MembersOk, AllChildren
<1>5. CASE req.verb \notin {"type", "sig", "members"}
  BY <1>5 DEF Replied, ListingsHonest
<1> QED BY <1>1, <1>2, <1>3, <1>4, <1>5

\* For every index and every request, a type or sig reply shows each
\* rendering once, at most limit of them and unless flagged every one the
\* gathered symbols have, and a members reply (do_members in server.rs) does
\* the same for the members of the types and packages among them.
THEOREM ListingsAreHonest == Spec => []ListingsHonest
<1>1. Init => ListingsHonest
  BY DEF Init, ListingsHonest, Replied
<1>2. Searched /\ ListingsHonest /\ [Next]_vars => ListingsHonest'
  <2> SUFFICES ASSUME Searched, ListingsHonest, [Next]_vars, Replied({"type", "sig", "members"})'
               PROVE  ListingsOk(reply)'
    <3>1. (ListingsHonest <=> (Replied({"type", "sig", "members"}) => ListingsOk(reply)))'
      BY ListingsMean, PTL
    <3> QED BY <3>1
  <2>0. reply' # NoReply /\ req'.verb \in {"type", "sig", "members"}
    BY DEF Replied, NoReply
  <2>1. Typed /\ ScanWalk /\ TrigramWalk /\ Gathering /\ Answering
    BY DEF Searched
  <2>2. {"type", "sig", "members"} \cap WalkVerbs = {}
    BY DEF WalkVerbs
  <2>3. PICK r : r = reply'
    OBVIOUS
  <2>4. CASE UNCHANGED vars
    <3>1. Kept /\ reply' = reply /\ req' = req
      BY <2>4 DEF vars, searchVars, Kept
    <3>2. Replied({"type", "sig", "members"})
      BY <2>0, <3>1 DEF Replied
    <3>3. ListingsOk(reply)
      BY <3>2, ListingsMean
    <3>4. ListingsOk(r)
      BY <2>3, <3>1, <3>3
    <3>5. ListingsOk(r)'
      BY <3>1, <3>4, SameListings
    <3> QED BY <2>3, <3>5 DEF ListingsOk, ListOk, MembersOk
  <2>5. CASE pc' = "replied" /\ Kept /\ GatheredOf(out) /\ dispatch
    <3>1. req' = req
      BY <2>5 DEF Kept
    <3>2. ListingsOk(r)
      BY <2>0, <2>1, <2>3, <2>5, <3>1, ListingsRight
    <3>5. ListingsOk(r)'
      BY <2>5, <3>2, SameListings
    <3> QED BY <2>3, <3>5 DEF ListingsOk, ListOk, MembersOk
  <2> QED BY <2>0, <2>1, <2>2, <2>4, <2>5, ReplySteps
<1> QED BY <1>1, <1>2, SearchedAlways, PTL DEF Spec

-----------------------------------------------------------------------------
(* The super and sub replies.                                              *)

DeclRows(s) == xrefs(db, s, RoleDecl, RoleDef)
DefRows(s)  == Keep(DeclRows(s), {r \in ToSet(DeclRows(s)) : r[2] = RoleDef})

\* A definition site has a path.
LEMMA SiteTyped ==
    ASSUME Typed, NEW s \in Sym, NEW d \in def_loc_str(s)
    PROVE  d[1] \in Str
<1>1. DeclRows(s) \in Seq(XrefRow)
  <2>1. db.xrefs \in Seq(XrefRow) /\ Ascends(db.xrefs)
    BY DEF Typed, IsIndex, TablesReady, XrefRow
  <2>2. RoleDecl \in 0..MaxRole /\ RoleDef \in 0..MaxRole
    BY ReaderAssumption DEF RoleDecl, RoleDef, RoleCall
  <2>3. ReadOf(DeclRows(s), XrefRow, db.xrefs, XrefsIn(s, RoleDecl, RoleDef))
    BY <2>1, <2>2, XrefsFound DEF DeclRows
  <2> QED BY <2>3 DEF ReadOf
<1>2. DefRows(s) \in Seq(XrefRow)
  <2> DEFINE K == {r \in ToSet(DeclRows(s)) : r[2] = RoleDef}
  <2>1. DefRows(s) = Keep(DeclRows(s), K)
    BY DEF DefRows
  <2> HIDE DEF K
  <2> QED BY <1>1, <2>1, KeepElements
<1>3. sym_def_loc(db, s) = IF DefRows(s) # <<>> THEN {<<DefRows(s)[1][3], DefRows(s)[1][4]>>}
                           ELSE IF DeclRows(s) # <<>> THEN {<<DeclRows(s)[1][3], DeclRows(s)[1][4]>>} ELSE {}
  BY Zenon DEF sym_def_loc, DefRows, DeclRows
<1>4. \A q \in Seq(XrefRow) : q # <<>> => q[1][3] \in Nat
  <2> SUFFICES ASSUME NEW q \in Seq(XrefRow), q # <<>> PROVE q[1][3] \in Nat
    OBVIOUS
  <2>1. q[1] \in XrefRow
    OBVIOUS
  <2> QED BY <2>1 DEF XrefRow
<1>5. \A loc \in sym_def_loc(db, s) : loc[1] \in Nat
  <2>1. CASE DefRows(s) # <<>>
    BY <1>2, <1>3, <1>4, <2>1
  <2>2. CASE DefRows(s) = <<>> /\ DeclRows(s) # <<>>
    BY <1>1, <1>3, <1>4, <2>2
  <2>3. CASE DefRows(s) = <<>> /\ DeclRows(s) = <<>>
    BY <1>3, <2>3
  <2> QED BY <2>1, <2>2, <2>3
<1>6. ASSUME NEW f \in Nat, NEW p \in file_path(db, f) PROVE p \in Str
  <2>1. db.files \in Seq(Nat \X Str) /\ KeyUp(db.files)
    BY DEF Typed, IsIndex, TablesReady
  <2>2. ToSet(db.files) = {db.files[i] : i \in 1..Len(db.files)} /\ Len(db.files) \in Nat
    BY <2>1, ElementsOf DEF RowsIn
  <2>3. \A i \in 1..Len(db.files) : db.files[i] \in Nat \X Str
    BY <2>1
  <2>4. Keyed(db.files)
    BY <2>1, <2>2, <2>3 DEF Keyed
  <2>5. PICK r \in FindKey(db.files, f) : p = r[2]
    BY <1>6 DEF file_path
  <2>6. r \in ToSet(db.files)
    BY <2>4, <2>5, KeyFound
  <2>7. r \in Nat \X Str
    BY <2>2, <2>3, <2>6
  <2> QED BY <2>5, <2>7
<1>7. PICK loc \in sym_def_loc(db, s) : \E p \in file_path(db, loc[1]) : d = <<p, loc[2]>>
  BY DEF def_loc_str
<1> QED BY <1>5, <1>6, <1>7

\* The name shown for a symbol: a ticket only if nothing else names it.
LEMMA NameShown ==
    ASSUME Typed, NEW s \in Sym,
           starts_with_kythe(display_name(s)), display_name(s) # KeyOf(s)
    PROVE  /\ starts_with_kythe(name_of(s)) /\ display_name(s) = name_of(s)
           /\ KeyOf(s) = <<>> /\ def_loc_str(s) = {}
<1> DEFINE n == name_of(s)
<1>1. display_name(s) = IF ~starts_with_kythe(n) THEN n
                        ELSE IF def_loc_str(s) # {}
                        THEN LET d == CHOOSE d \in def_loc_str(s) : TRUE IN <<1>> \o d[1] \o <<d[2]>>
                        ELSE IF TrailingSignature(n) = <<>> THEN n ELSE TrailingSignature(n)
  BY Zenon DEF display_name
<1>2. KeyOf(s) = IF starts_with_kythe(n) THEN TrailingSignature(n) ELSE n
  BY DEF KeyOf, logical_key
<1> HIDE DEF n
<1>3. starts_with_kythe(n)
  BY <1>1, <1>2
<1>4. ASSUME def_loc_str(s) # {} PROVE FALSE
  <2> DEFINE d == CHOOSE d \in def_loc_str(s) : TRUE
  <2>1. d \in def_loc_str(s)
    BY <1>4
  <2>2. display_name(s) = <<1>> \o d[1] \o <<d[2]>>
    BY <1>1, <1>3, <1>4
  <2> HIDE DEF d
  <2>3. d[1] \in Str
    BY <2>1, SiteTyped
  <2>4. PICK p \in Seq(Nat) : p = d[1]
    BY <2>3 DEF Str
  <2>5. PICK y : y = d[2]
    OBVIOUS
  <2>6. (<<1>> \o p) \in Seq(Nat) /\ Len(<<1>> \o p) = 1 + Len(p) /\ (<<1>> \o p)[1] = 1
    OBVIOUS
  <2>7. ((<<1>> \o p) \o <<y>>)[1] = 1
    <3>1. PICK q \in Seq(Nat) : q = <<1>> \o p
      BY <2>6
    <3>2. Len(q) >= 1 /\ q[1] = 1
      BY <2>6, <3>1
    <3>3. q \in Seq(Nat \cup {y}) /\ <<y>> \in Seq(Nat \cup {y})
      OBVIOUS
    <3>4. (q \o <<y>>)[1] = 1
      BY <3>2, <3>3
    <3> QED BY <3>1, <3>4
  <2>8. display_name(s)[1] = 1
    BY <2>2, <2>4, <2>5, <2>7
  <2>9. display_name(s)[1] = 75
    BY DEF starts_with_kythe, TicketByte
  <2> QED BY <2>8, <2>9
<1>5. TrailingSignature(n) = <<>> /\ display_name(s) = n
  BY <1>1, <1>2, <1>3, <1>4
<1> QED BY <1>2, <1>3, <1>4, <1>5 DEF n

\* The definition site shown for a group.
LEMMA GroupLocated ==
    ASSUME NEW c \in Seq(Sym), GroupDef(c) = {}
    PROVE  \A s \in ToSet(c) : def_loc_str(s) = {}
<1> DEFINE K == {s \in ToSet(c) : def_loc_str(s) # {}}
           L == Keep(c, K)
<1>1. GroupDef(c) = IF L = <<>> THEN {} ELSE def_loc_str(L[1])
  BY Zenon DEF GroupDef
<1>2. ToSet(c) \cap K = K /\ \A s \in K : def_loc_str(s) # {}
  OBVIOUS
<1>3. L \in Seq(Sym) /\ ToSet(L) = K
  <2> HIDE DEF K
  <2> QED BY <1>2, KeepElements
<1> HIDE DEF L
<1>4. ToSet(L) = {L[i] : i \in 1..Len(L)} /\ Len(L) \in Nat
  BY <1>3, ElementsOf DEF RowsIn
<1>5. CASE L = <<>>
  <2>1. Len(L) = 0
    BY <1>5
  <2>2. K = {}
    BY <1>3, <1>4, <2>1
  <2> QED BY <2>2
<1>6. CASE L # <<>>
  <2>1. Len(L) # 0
    BY <1>3, <1>6
  <2>2. L[1] \in K
    BY <1>3, <1>4, <2>1
  <2> QED BY <1>1, <1>2, <1>6, <2>2
<1> QED BY <1>5, <1>6

\* The name shown for a group, whose copies have one key.
LEMMA GroupNamed ==
    ASSUME Typed, NEW c \in Seq(Sym), c # <<>>, NEW k, \A s \in ToSet(c) : KeyOf(s) = k,
           starts_with_kythe(GroupName(c)), GroupName(c) # k
    PROVE  /\ k = <<>> /\ \A s \in ToSet(c) : starts_with_kythe(name_of(s))
           /\ \E s \in ToSet(c) : name_of(s) = GroupName(c) /\ def_loc_str(s) = {}
<1> DEFINE K == {s \in ToSet(c) : ~starts_with_kythe(name_of(s))}
           L == Keep(c, K)
<1>1. GroupName(c) = display_name(IF L = <<>> THEN c[1] ELSE L[1])
  BY Zenon DEF GroupName
<1>2. ToSet(c) \cap K = K /\ \A s \in K : s \in ToSet(c) /\ ~starts_with_kythe(name_of(s))
  OBVIOUS
<1>3. L \in Seq(Sym) /\ ToSet(L) = K
  <2> HIDE DEF K
  <2> QED BY <1>2, KeepElements
<1> HIDE DEF L
<1>4. ToSet(L) = {L[i] : i \in 1..Len(L)} /\ Len(L) \in Nat
  BY <1>3, ElementsOf DEF RowsIn
<1>5. ToSet(c) = {c[i] : i \in 1..Len(c)} /\ Len(c) \in Nat /\ \A i \in 1..Len(c) : c[i] \in Sym
  BY ElementsOf DEF RowsIn
<1>6. CASE L # <<>>
  <2>1. Len(L) # 0
    BY <1>3, <1>6
  <2>2. L[1] \in K /\ L[1] \in Sym
    BY <1>3, <1>4, <2>1
  <2>3. GroupName(c) = display_name(L[1]) /\ KeyOf(L[1]) = k
    BY <1>1, <1>2, <1>6, <2>2
  <2>4. starts_with_kythe(name_of(L[1]))
    BY <2>2, <2>3, NameShown
  <2> QED BY <1>2, <2>2, <2>4
<1>7. CASE L = <<>>
  <2>1. Len(L) = 0
    BY <1>7
  <2>2. K = {}
    BY <1>3, <1>4, <2>1
  <2>3. Len(c) # 0
    OBVIOUS
  <2>4. c[1] \in ToSet(c) /\ c[1] \in Sym
    BY <1>5, <2>3
  <2>5. GroupName(c) = display_name(c[1]) /\ KeyOf(c[1]) = k
    BY <1>1, <1>7, <2>4
  <2>6. GroupName(c) = name_of(c[1]) /\ k = <<>> /\ def_loc_str(c[1]) = {}
    BY <2>4, <2>5, NameShown
  <2> QED BY <2>2, <2>4, <2>6
<1> QED BY <1>6, <1>7

RelatedTo(s) == IF req.verb = "sub" THEN inherited_by(db, s) ELSE inherits_of(db, s)
RelTable     == IF req.verb = "sub" THEN db.inhrev ELSE db.inh
RelListed    == FlattenSeq([i \in DOMAIN out |-> RelatedTo(out[i])])
Itself       == [s \in ToSet(RelListed) |-> s]
Relatives    == Keep(DistinctBy(RelListed, Itself), {s \in ToSet(RelListed) : Pass(s)})
RelKey       == [s \in ToSet(Relatives) |-> KeyOf(s)]
RelFirsts    == DistinctBy(Relatives, RelKey)
RelCopies(i) == Keep(Relatives, {s \in ToSet(Relatives) : KeyOf(s) = KeyOf(RelFirsts[i])})
RelHit(i)    == [key |-> KeyOf(RelFirsts[i]), name |-> GroupName(RelCopies(i)), def |-> GroupDef(RelCopies(i))]

\* The relatives of the symbols that are gathered, by a scan of the table.
AllRelatives == {r[2] : r \in {x \in ToSet(RelTable) : x[1] \in ToSet(out) /\ Pass(x[2])}}

\* What the property says of a hit and of a reply.
RelHitOk(h) ==
    LET copies == {s \in AllRelatives : KeyOf(s) = h.key}
    IN  /\ h.def = {} => \A s \in copies : def_loc_str(s) = {}
        /\ starts_with_kythe(h.name) /\ h.name # h.key =>
              /\ h.key = <<>> /\ \A s \in copies : starts_with_kythe(name_of(s))
              /\ \E s \in copies : name_of(s) = h.name /\ def_loc_str(s) = {}

RelativesOk(r) ==
    /\ {h.key : h \in ToSet(r.items)} = {KeyOf(s) : s \in AllRelatives}
    /\ \A h \in ToSet(r.items) : RelHitOk(h)

\* The reply, in these terms.
LEMMA InhReply == DOMAIN do_inh.items = DOMAIN RelFirsts /\ \A i \in DOMAIN RelFirsts : do_inh.items[i] = RelHit(i)
<1> DEFINE cs == [i \in DOMAIN RelFirsts |-> RelCopies(i)]
<1>1. do_inh = [items |-> [i \in DOMAIN RelFirsts |-> [key |-> KeyOf(RelFirsts[i]), name |-> GroupName(cs[i]),
                                                       def |-> GroupDef(cs[i])]], truncated |-> FALSE]
  BY Zenon DEF do_inh, RelatedTo, RelListed, Itself, Relatives, RelKey, RelFirsts, RelCopies
<1>2. \A i \in DOMAIN RelFirsts : cs[i] = RelCopies(i)
  OBVIOUS
<1> HIDE DEF cs
<1>3. do_inh.items = [i \in DOMAIN RelFirsts |-> [key |-> KeyOf(RelFirsts[i]), name |-> GroupName(cs[i]),
                                                 def |-> GroupDef(cs[i])]]
  BY <1>1
<1> QED BY <1>2, <1>3 DEF RelHit

\* The relatives, each once.
LEMMA RelativesFound ==
    ASSUME Typed, GatheredOf(out)
    PROVE  Relatives \in Seq(Sym) /\ ToSet(Relatives) = AllRelatives
<1> DEFINE K  == {s \in ToSet(RelListed) : Pass(s)}
           D  == DistinctBy(RelListed, Itself)
           ss == [i \in DOMAIN out |-> RelatedTo(out[i])]
<1>1. out \in Seq(Sym) /\ \A i \in DOMAIN out : out[i] \in Sym
  BY DEF GatheredOf
<1>2. DOMAIN ss = DOMAIN out /\ ss = [i \in DOMAIN out |-> ss[i]]
  OBVIOUS
<1>3. \A i \in DOMAIN out : Leads(ss[i], RelTable, out[i])
  <2>1. \A s \in Sym : Leads(RelatedTo(s), RelTable, s)
    <3>1. CASE req.verb = "sub"
      BY <3>1, EdgesLead DEF RelatedTo, RelTable
    <3>2. CASE req.verb # "sub"
      BY <3>2, EdgesLead DEF RelatedTo, RelTable
    <3> QED BY <3>1, <3>2
  <2> QED BY <1>1, <2>1
<1>4. RelListed = FlattenSeq(ss)
  BY DEF RelListed
<1> HIDE DEF ss
<1>5. /\ RelListed \in Seq(Sym)
      /\ \A y : y \in ToSet(RelListed) <=> \E x \in ToSet(out) : y \in ToOf(RelTable, x)
  BY <1>1, <1>2, <1>3, <1>4, FlatLead
<1>6. \A s \in ToSet(RelListed) : Itself[s] = s
  BY DEF Itself
<1>7. D \in Seq(Sym) /\ ToSet(D) = ToSet(RelListed)
  <2>1. /\ D \in Seq(Sym) /\ ToSet(D) \in SUBSET ToSet(RelListed)
        /\ \A x \in ToSet(RelListed) : \E y \in ToSet(D) : Itself[y] = Itself[x]
    BY <1>5, KeyElements
  <2> HIDE DEF D
  <2>2. ASSUME NEW x \in ToSet(RelListed) PROVE x \in ToSet(D)
    <3>1. PICK y \in ToSet(D) : Itself[y] = Itself[x]
      BY <2>1
    <3>2. y = x
      BY <1>6, <2>1, <3>1
    <3> QED BY <3>1, <3>2
  <2> QED BY <2>1, <2>2
<1>8. Relatives = Keep(D, K)
  BY DEF Relatives
<1> HIDE DEF D, K
<1>9. Relatives \in Seq(Sym) /\ ToSet(Relatives) = ToSet(D) \cap K
  BY <1>7, <1>8, KeepElements
<1>10. \A y : y \in ToSet(Relatives) <=> Pass(y) /\ \E x \in ToSet(out) : y \in ToOf(RelTable, x)
  BY <1>5, <1>7, <1>9 DEF K
<1>11. \A y : (Pass(y) /\ \E x \in ToSet(out) : y \in ToOf(RelTable, x)) <=> y \in AllRelatives
  BY DEF ToOf, AllRelatives
<1> QED BY <1>9, <1>10, <1>11

\* A super or sub reply.
LEMMA RelativesRight ==
    ASSUME Typed, GatheredOf(out)
    PROVE  RelativesOk(do_inh)
<1> DEFINE R == Relatives
           F == RelFirsts
           n == Len(F)
<1>1. R \in Seq(Sym) /\ ToSet(R) = AllRelatives
  BY RelativesFound
<1>2. \A s \in ToSet(R) : RelKey[s] = KeyOf(s)
  BY DEF RelKey
<1>3. F = DistinctBy(R, RelKey)
  BY DEF RelFirsts
<1> HIDE DEF R, F
<1>4. /\ F \in Seq(Sym) /\ ToSet(F) \in SUBSET ToSet(R)
      /\ \A x \in ToSet(R) : \E y \in ToSet(F) : RelKey[y] = RelKey[x]
  BY <1>1, <1>3, KeyElements
<1>5. ToSet(F) = {F[i] : i \in 1..n} /\ n \in Nat /\ DOMAIN F = 1..n
  BY <1>4, ElementsOf DEF RowsIn
<1>6. DOMAIN do_inh.items = 1..n /\ \A i \in 1..n : do_inh.items[i] = RelHit(i)
  BY <1>5, InhReply DEF F
<1>7. ToSet(do_inh.items) = {RelHit(i) : i \in 1..n}
  <2>1. ToSet(do_inh.items) = {do_inh.items[i] : i \in 1..n}
    BY <1>6 DEF ToSet
  <2> QED BY <1>6, <2>1
<1>8. \A i \in 1..n : RelHit(i).key = KeyOf(F[i]) /\ F[i] \in ToSet(R)
  BY <1>4, <1>5 DEF RelHit, F
<1>9. {h.key : h \in ToSet(do_inh.items)} = {KeyOf(s) : s \in AllRelatives}
  <2>1. {h.key : h \in ToSet(do_inh.items)} = {KeyOf(F[i]) : i \in 1..n}
    BY <1>7, <1>8
  <2>2. {KeyOf(F[i]) : i \in 1..n} = {KeyOf(s) : s \in ToSet(F)}
    BY <1>5
  <2>3. ASSUME NEW s \in ToSet(R) PROVE KeyOf(s) \in {KeyOf(x) : x \in ToSet(F)}
    <3>1. PICK y \in ToSet(F) : RelKey[y] = RelKey[s]
      BY <1>4
    <3>2. KeyOf(y) = KeyOf(s)
      BY <1>2, <1>4, <3>1
    <3> QED BY <3>1, <3>2
  <2>4. {KeyOf(s) : s \in ToSet(F)} = {KeyOf(s) : s \in ToSet(R)}
    BY <1>4, <2>3
  <2> QED BY <1>1, <2>1, <2>2, <2>4
<1>10. ASSUME NEW i \in 1..n PROVE RelHitOk(RelHit(i))
  <2> DEFINE k == KeyOf(F[i])
             C == {s \in ToSet(R) : KeyOf(s) = k}
             c == RelCopies(i)
             h == RelHit(i)
  <2>1. c = Keep(R, C) /\ ToSet(R) \cap C = C
    BY DEF RelCopies, R, F
  <2>2. h.key = k /\ h.name = GroupName(c) /\ h.def = GroupDef(c)
    BY DEF RelHit, F
  <2>3. F[i] \in C /\ \A s \in C : KeyOf(s) = k
    BY <1>8
  <2>4. C = {s \in AllRelatives : KeyOf(s) = h.key}
    BY <1>1, <2>2
  <2> HIDE DEF k, C, c, h
  <2>5. c \in Seq(Sym) /\ ToSet(c) = C
    BY <1>1, <2>1, KeepElements
  <2>6. c # <<>>
    <3> SUFFICES ASSUME c = <<>> PROVE FALSE
      OBVIOUS
    <3>1. ToSet(c) = {}
      BY DEF ToSet
    <3> QED BY <2>3, <2>5, <3>1
  <2>7. h.def = {} => \A s \in C : def_loc_str(s) = {}
    BY <2>2, <2>5, GroupLocated
  <2>8. ASSUME starts_with_kythe(h.name), h.name # h.key
        PROVE  /\ h.key = <<>> /\ \A s \in C : starts_with_kythe(name_of(s))
               /\ \E s \in C : name_of(s) = h.name /\ def_loc_str(s) = {}
    BY <2>2, <2>3, <2>5, <2>6, <2>8, GroupNamed
  <2>9. RelHitOk(h)
    BY <2>4, <2>7, <2>8, Zenon DEF RelHitOk
  <2> QED BY <2>9 DEF h
<1> QED BY <1>7, <1>9, <1>10 DEF RelativesOk

\* What the tables say of a symbol.
LEMMA SameSymbols ==
    ASSUME db' = db, req' = req, names' = names
    PROVE  /\ \A s : Meta(s)' = Meta(s) /\ name_of(s)' = name_of(s) /\ KeyOf(s)' = KeyOf(s)
           /\ \A s : (Pass(s)' <=> Pass(s)) /\ (DefIn(s)' <=> DefIn(s))
           /\ \A s : def_loc_str(s)' = def_loc_str(s)
<1>1. \A s : Meta(s)' = Meta(s)
  BY DEF Meta
<1>2. \A s : name_of(s)' = name_of(s)
  BY <1>1 DEF name_of
<1>3. \A s : KeyOf(s)' = KeyOf(s)
  BY <1>2 DEF KeyOf
<1>4. \A s : (Pass(s)' <=> Pass(s)) /\ (DefIn(s)' <=> DefIn(s))
  BY DEF Pass, DefIn, passes, has_in_out
<1>5. \A s : def_loc_str(s)' = def_loc_str(s)
  BY DEF def_loc_str
<1> QED BY <1>1, <1>2, <1>3, <1>4, <1>5

\* What the tables say of relatives does not change.
LEMMA SameRelatives ==
    ASSUME Kept
    PROVE  \A r : RelativesOk(r)' <=> RelativesOk(r)
<1>1. db' = db /\ req' = req /\ out' = out /\ names' = names
  BY DEF Kept
<1>2. /\ \A s : name_of(s)' = name_of(s) /\ KeyOf(s)' = KeyOf(s)
      /\ \A s : Pass(s)' <=> Pass(s)
      /\ \A s : def_loc_str(s)' = def_loc_str(s)
  BY <1>1, SameSymbols
<1>3. AllRelatives' = AllRelatives
  <2>1. \A x : Pass(x[2])' <=> Pass(x[2])
    BY <1>2
  <2> QED BY <1>1, <2>1 DEF AllRelatives, RelTable
<1>4. \A h : RelHitOk(h)' <=> RelHitOk(h)
  BY <1>2, <1>3 DEF RelHitOk
<1>5. {KeyOf(s) : s \in AllRelatives}' = {KeyOf(s) : s \in AllRelatives}
  BY <1>2, <1>3
<1> QED BY <1>4, <1>5 DEF RelativesOk

\* The property, as what it says of a reply.
LEMMA RelativesMean ==
    RelativesLocated <=> (Replied({"super", "sub"}) => RelativesOk(reply))
<1>1. CASE req.verb = "sub"
  BY <1>1 DEF RelativesLocated, RelativesOk, RelHitOk, AllRelatives, RelTable
<1>2. CASE req.verb # "sub"
  BY <1>2 DEF RelativesLocated, RelativesOk, RelHitOk, AllRelatives, RelTable
<1> QED BY <1>1, <1>2

\* For every index and every request, a super or sub reply (do_inh in
\* server.rs) has one hit for each logical relative that passes the filter;
\* the hit lacks a definition site only if every copy of the relative does,
\* and shows a ticket only if no copy has anything better.
THEOREM RelativesAreLocated == Spec => []RelativesLocated
<1>1. Init => RelativesLocated
  BY DEF Init, RelativesLocated, Replied
<1>2. Searched /\ RelativesLocated /\ [Next]_vars => RelativesLocated'
  <2> SUFFICES ASSUME Searched, RelativesLocated, [Next]_vars, Replied({"super", "sub"})'
               PROVE  RelativesOk(reply)'
    <3>1. (RelativesLocated <=> (Replied({"super", "sub"}) => RelativesOk(reply)))'
      BY RelativesMean, PTL
    <3> QED BY <3>1
  <2>0. reply' # NoReply /\ req'.verb \in {"super", "sub"}
    BY DEF Replied, NoReply
  <2>1. Typed /\ ScanWalk /\ TrigramWalk /\ Gathering /\ Answering
    BY DEF Searched
  <2>2. {"super", "sub"} \cap WalkVerbs = {}
    BY DEF WalkVerbs
  <2>3. PICK r : r = reply'
    OBVIOUS
  <2>4. CASE UNCHANGED vars
    <3>1. Kept /\ reply' = reply /\ req' = req
      BY <2>4 DEF vars, searchVars, Kept
    <3>2. Replied({"super", "sub"})
      BY <2>0, <3>1 DEF Replied
    <3>3. RelativesOk(reply)
      BY <3>2, RelativesMean
    <3>4. RelativesOk(r)
      BY <2>3, <3>1, <3>3
    <3>5. RelativesOk(r)'
      BY <3>1, <3>4, SameRelatives
    <3> QED BY <2>3, <3>5 DEF RelativesOk
  <2>5. CASE pc' = "replied" /\ Kept /\ GatheredOf(out) /\ dispatch
    <3>1. req' = req
      BY <2>5 DEF Kept
    <3>2. reply' = do_inh
      BY <2>0, <2>5, <3>1 DEF dispatch, SendReply, XrefVerbs
    <3>3. RelativesOk(r)
      BY <2>1, <2>3, <2>5, <3>2, RelativesRight
    <3>5. RelativesOk(r)'
      BY <2>5, <3>3, SameRelatives
    <3> QED BY <2>3, <3>5 DEF RelativesOk
  <2> QED BY <2>0, <2>1, <2>2, <2>4, <2>5, ReplySteps
<1> QED BY <1>1, <1>2, SearchedAlways, PTL DEF Spec

-----------------------------------------------------------------------------
(* Symbols, their names and their copies.                                  *)

\* The row of a symbol, if it has one.
LEMMA MetaFound ==
    ASSUME Typed, NEW s \in Sym
    PROVE  /\ sym_meta(db, s) = {r \in ToSet(db.syms) : r[1] = s}
           /\ \A r \in ToSet(db.syms) : r[1] = s => name_of(s) = r[4] /\ r[4] \in Str
           /\ (\A r \in ToSet(db.syms) : r[1] # s) => name_of(s) = <<0, s>>
<1> DEFINE T == db.syms
           W == Sym \X Nat \X Nat \X Str
<1>1. T \in Seq(W) /\ KeyUp(T)
  BY DEF Typed, IsIndex, NamesReady
<1> HIDE DEF W
<1>2. ToSet(T) = {T[i] : i \in 1..Len(T)} /\ Len(T) \in Nat
  BY <1>1, ElementsOf DEF RowsIn
<1>3. \A i \in 1..Len(T) : T[i] \in W
  BY <1>1
<1>4. s \in Nat /\ Sym \in SUBSET Nat
  BY SymNext
<1>5. \A r \in W : r[1] \in Nat /\ r[4] \in Str
  BY <1>4 DEF W
<1>6. \A i \in 1..Len(T) : T[i][1] \in Nat /\ T[i][4] \in Str
  BY <1>3, <1>5
<1>7. Keyed(T)
  BY <1>1, <1>2, <1>6 DEF Keyed
<1>8. sym_meta(db, s) = {r \in ToSet(T) : r[1] = s}
  BY <1>4, <1>7, KeyFound DEF sym_meta
<1>9. ASSUME NEW r \in ToSet(T), NEW q \in ToSet(T), r[1] = s, q[1] = s
      PROVE  r = q
  <2>1. PICK i \in 1..Len(T) : r = T[i]
    BY <1>2
  <2>2. PICK j \in 1..Len(T) : q = T[j]
    BY <1>2
  <2>3. ~ (i < j) /\ ~ (j < i)
    BY <1>1, <1>6, <1>4, <1>9, <2>1, <2>2 DEF KeyUp
  <2>4. i = j
    BY <2>3
  <2> QED BY <2>1, <2>2, <2>4
<1>10. ASSUME NEW r \in ToSet(T), r[1] = s
       PROVE  name_of(s) = r[4] /\ r[4] \in Str
  <2>1. sym_meta(db, s) = {r}
    BY <1>8, <1>9, <1>10
  <2>2. Meta(s) = r
    BY <2>1 DEF Meta
  <2>3. r[4] \in Str
    BY <1>2, <1>6, <1>10
  <2> QED BY <2>1, <2>2, <2>3 DEF name_of
<1>11. ASSUME \A r \in ToSet(T) : r[1] # s
       PROVE  name_of(s) = <<0, s>>
  <2>1. sym_meta(db, s) = {}
    BY <1>8, <1>11
  <2> QED BY <2>1 DEF name_of
<1> QED BY <1>8, <1>10, <1>11

\* A name is a text.
LEMMA NameText ==
    ASSUME Typed, NEW s \in Sym
    PROVE  name_of(s) \in Text
<1>1. CASE \E r \in ToSet(db.syms) : r[1] = s
  <2>1. name_of(s) \in Str
    BY <1>1, MetaFound
  <2> QED BY <2>1 DEF Str, Text
<1>2. CASE \A r \in ToSet(db.syms) : r[1] # s
  <2>1. name_of(s) = <<0, s>> /\ s \in Nat
    BY <1>2, MetaFound, SymNext
  <2> QED BY <2>1 DEF Text
<1> QED BY <1>1, <1>2

\* The copies a node is expanded by: all that have its name, and none
\* without its key.
LEMMA DupsFound ==
    ASSUME Typed, GatheredOf(out), NEW s \in Sym
    PROVE  /\ s \in dup_syms(s) /\ dup_syms(s) \subseteq Sym
           /\ dup_syms(s) \subseteq Copies(s)
           /\ SameName(s) \subseteq dup_syms(s)
<1> DEFINE G == ToSet(syms_for_name(names, name_of(s)))
<1>1. NameTable(names)
  BY NamesTyped
<1>2. G = SymsNamed(names, name_of(s)) /\ G \subseteq Sym
  <2>1. /\ syms_for_name(names, name_of(s)) \in Seq(Sym)
        /\ ToSet(syms_for_name(names, name_of(s))) = SymsNamed(names, name_of(s))
    BY <1>1, NameText, NameFound
  <2> QED BY <2>1, ElementsOf
<1>3. dup_syms(s) = {s} \cup {t \in G : KeyOf(t) = KeyOf(s)}
  BY Zenon DEF dup_syms
<1> HIDE DEF G
<1>4. s \in dup_syms(s) /\ dup_syms(s) \subseteq Sym
  BY <1>2, <1>3
<1>5. dup_syms(s) \subseteq Copies(s)
  BY <1>2, <1>3 DEF Copies, SymsNamed
<1>6. ASSUME NEW t \in SameName(s) PROVE t \in dup_syms(s)
  <2>1. name_of(t) = name_of(s) /\ KeyOf(t) = KeyOf(s)
    BY <1>6 DEF SameName, KeyOf
  <2>2. t \in ToSet(out) \/ t = s \/ \E r \in ToSet(db.syms) : r[1] = t
    BY <1>6 DEF SameName
  <2>3. db.syms \in Seq(Sym \X Nat \X Nat \X Str)
    BY DEF Typed, IsIndex, NamesReady
  <2>4. \A r \in ToSet(db.syms) : r[1] \in Sym
    <3>1. ToSet(db.syms) \in SUBSET (Sym \X Nat \X Nat \X Str)
      BY <2>3, ElementsOf
    <3> QED BY <3>1
  <2>5. t \in Sym
    <3>1. ToSet(out) \in SUBSET Sym
      BY ElementsOf DEF GatheredOf
    <3> QED BY <2>2, <2>4, <3>1
  <2>6. \A r \in ToSet(db.syms) : <<r[4], r[1]>> \in ToSet(names) /\ (r[4] # <<>> => r[4][1] # 0)
    BY DEF Typed, IsIndex, NamesReady
  <2>7. CASE \E r \in ToSet(db.syms) : r[1] = t
    <3>1. PICK r \in ToSet(db.syms) : r[1] = t
      BY <2>7
    <3>2. name_of(t) = r[4]
      BY <2>5, <3>1, MetaFound
    <3>3. <<name_of(s), t>> \in ToSet(names)
      BY <2>1, <2>6, <3>1, <3>2
    <3>4. <<name_of(s), t>>[1] = name_of(s) /\ <<name_of(s), t>>[2] = t
      OBVIOUS
    <3>5. t \in SymsNamed(names, name_of(s))
      BY <3>3, <3>4 DEF SymsNamed
    <3> QED BY <1>2, <1>3, <2>1, <3>5
  <2>8. CASE \A r \in ToSet(db.syms) : r[1] # t
    <3>1. name_of(t) = <<0, t>>
      BY <2>5, <2>8, MetaFound
    <3>2. CASE \E r \in ToSet(db.syms) : r[1] = s
      <4>1. PICK r \in ToSet(db.syms) : r[1] = s
        BY <3>2
      <4>2. name_of(s) = r[4]
        BY <4>1, MetaFound
      <4>3. r[4] = <<0, t>>
        BY <2>1, <3>1, <4>2
      <4>4. <<0, t>> # <<>> /\ <<0, t>>[1] = 0
        OBVIOUS
      <4> QED BY <2>6, <4>3, <4>4
    <3>3. CASE \A r \in ToSet(db.syms) : r[1] # s
      <4>1. name_of(s) = <<0, s>>
        BY <3>3, MetaFound
      <4>2. <<0, s>> = <<0, t>>
        BY <2>1, <3>1, <4>1
      <4>3. s = t
        BY <4>2
      <4> QED BY <1>4, <4>3
    <3> QED BY <3>2, <3>3
  <2> QED BY <2>7, <2>8
<1> QED BY <1>4, <1>5, <1>6

-----------------------------------------------------------------------------
(* The edges of a node.                                                    *)

\* The edges of a symbol, as the edge table has them.
LEMMA EdgesOfLead ==
    ASSUME Typed, req.verb \in WalkVerbs, NEW s \in Sym, NEW dir \in {"up", "down"}
    PROVE  Leads(EdgesOf(s, dir), EdgeTable(dir), s)
<1>1. CASE req.verb = "callgraph" /\ dir = "up"
  <2>1. EdgesOf(s, dir) = called_by(db, s)
    BY <1>1 DEF EdgesOf
  <2>2. EdgeTable(dir) = db.crev
    BY <1>1 DEF EdgeTable
  <2> QED BY <2>1, <2>2, EdgesLead
<1>2. CASE req.verb = "callgraph" /\ dir = "down"
  <2>1. EdgesOf(s, dir) = calls_from(db, s)
    BY <1>2 DEF EdgesOf
  <2>2. EdgeTable(dir) = db.calls
    BY <1>2 DEF EdgeTable
  <2> QED BY <2>1, <2>2, EdgesLead
<1>3. CASE req.verb = "inheritance" /\ dir = "up"
  <2>1. EdgesOf(s, dir) = inherits_of(db, s)
    BY <1>3 DEF EdgesOf
  <2>2. EdgeTable(dir) = db.inh
    BY <1>3 DEF EdgeTable
  <2> QED BY <2>1, <2>2, EdgesLead
<1>4. CASE req.verb = "inheritance" /\ dir = "down"
  <2>1. EdgesOf(s, dir) = inherited_by(db, s)
    BY <1>4 DEF EdgesOf
  <2>2. EdgeTable(dir) = db.inhrev
    BY <1>4 DEF EdgeTable
  <2> QED BY <2>1, <2>2, EdgesLead
<1> QED BY <1>1, <1>2, <1>3, <1>4 DEF WalkVerbs

\* What the copies of a symbol reach.
LEMMA ReachFound ==
    ASSUME Typed, GatheredOf(out), req.verb \in WalkVerbs, NEW s \in Sym, NEW dir \in {"up", "down"}
    PROVE  /\ UNION {ToSet(EdgesOf(t, dir)) : t \in dup_syms(s)} = Targets(dup_syms(s), dir)
           /\ Targets(dup_syms(s), dir) \subseteq Sym
           /\ Targets(dup_syms(s), dir) \subseteq Targets(Copies(s), dir)
           /\ Targets(SameName(s), dir) \subseteq Targets(dup_syms(s), dir)
<1>1. dup_syms(s) \subseteq Sym /\ dup_syms(s) \subseteq Copies(s) /\ SameName(s) \subseteq dup_syms(s)
  BY DupsFound
<1>2. \A t \in dup_syms(s) : /\ ToSet(EdgesOf(t, dir)) = ToOf(EdgeTable(dir), t)
                             /\ ToSet(EdgesOf(t, dir)) \subseteq Sym
  <2>1. \A t \in dup_syms(s) : Leads(EdgesOf(t, dir), EdgeTable(dir), t)
    BY <1>1, EdgesOfLead
  <2> QED BY <2>1, ElementsOf DEF Leads
<1>3. \A y : y \in Targets(dup_syms(s), dir) <=> \E t \in dup_syms(s) : y \in ToOf(EdgeTable(dir), t)
  BY DEF Targets, ToOf
<1>4. UNION {ToSet(EdgesOf(t, dir)) : t \in dup_syms(s)} = Targets(dup_syms(s), dir)
  <2>1. \A y : y \in UNION {ToSet(EdgesOf(t, dir)) : t \in dup_syms(s)}
               <=> \E t \in dup_syms(s) : y \in ToOf(EdgeTable(dir), t)
    BY <1>2
  <2> QED BY <1>3, <2>1
<1>5. Targets(dup_syms(s), dir) \subseteq Sym
  BY <1>2, <1>3
<1>6. /\ Targets(dup_syms(s), dir) \subseteq Targets(Copies(s), dir)
      /\ Targets(SameName(s), dir) \subseteq Targets(dup_syms(s), dir)
  BY <1>1 DEF Targets
<1> QED BY <1>4, <1>5, <1>6

\* A list of some elements.
AList(s) == \E V : s \in Seq(V)

\* The edges that Neighbours lists.
EdgeList(q, id, dir, S) ==
    /\ AList(q) /\ Len(q) \in Nat
    /\ \A i \in 1..Len(q) : q[i].sym \in S /\ q[i].dir = dir /\ q[i].parent = id /\ dir \in Directions
    /\ dir \in Directions => \A t \in S : \E i \in 1..Len(q) : q[i].sym = t

\* The neighbours of a node in one direction.
LEMMA NeighboursFound ==
    ASSUME Typed, GatheredOf(out), req.verb \in WalkVerbs, NEW dir \in {"up", "down"},
           NEW id, walk.nodes[id].sym \in Sym
    PROVE  EdgeList(Neighbours(id, dir), id, dir, Targets(dup_syms(walk.nodes[id].sym), dir))
<1> DEFINE s  == walk.nodes[id].sym
           S  == Targets(dup_syms(s), dir)
           to == InOrder(S, <)
           q  == Neighbours(id, dir)
<1>1. UNION {ToSet(EdgesOf(t, dir)) : t \in dup_syms(s)} = S /\ S \subseteq Sym
  <2> HIDE DEF s
  <2> QED BY ReachFound DEF s
<1>2. q = IF req.direction \in {dir, "both"}
          THEN [i \in DOMAIN to |-> [sym |-> to[i], dir |-> dir, parent |-> id]] ELSE <<>>
  <2> DEFINE tu == InOrder(UNION {ToSet(EdgesOf(t, dir)) : t \in dup_syms(s)}, <)
  <2>1. q = IF req.direction \in {dir, "both"}
            THEN [i \in DOMAIN tu |-> [sym |-> tu[i], dir |-> dir, parent |-> id]] ELSE <<>>
    BY Zenon DEF Neighbours
  <2>2. tu = to
    <3> HIDE DEF S
    <3> QED BY <1>1, Zenon
  <2> HIDE DEF tu, to
  <2> QED BY <2>1, <2>2, Zenon
<1>3. dir \in Directions <=> req.direction \in {dir, "both"}
  BY DEF Directions
<1>4. IsFiniteSet(S) /\ S \in SUBSET Int
  <2>1. IsFiniteSet(Sym)
    <3>1. 0 \in Int /\ MaxSym - 1 \in Int
      BY ReaderAssumption
    <3> QED BY <3>1, FS_Interval DEF Sym
  <2>2. Sym \in SUBSET Nat
    BY SymNext
  <2> HIDE DEF S
  <2>3. IsFiniteSet(S)
    BY <1>1, <2>1, FS_Subset
  <2>4. S \in SUBSET Int
    BY <1>1, <2>2
  <2> QED BY <2>3, <2>4
<1>5. Listed(to, S, NumberOrder)
  <2> HIDE DEF S
  <2> QED BY <1>4, NumbersListed
<1> HIDE DEF to, S, q
<1>6. to \in Seq(S) /\ Len(to) \in Nat /\ RowsIn(to) = S /\ DOMAIN to = 1..Len(to)
  BY <1>5 DEF Listed
<1>7. CASE dir \in Directions
  <2>1. q = [i \in 1..Len(to) |-> [sym |-> to[i], dir |-> dir, parent |-> id]]
    BY <1>2, <1>3, <1>6, <1>7
  <2> DEFINE V == {[sym |-> t, dir |-> dir, parent |-> id] : t \in S}
  <2>2. q \in Seq(V)
    <3>1. \A i \in 1..Len(to) : [sym |-> to[i], dir |-> dir, parent |-> id] \in V
      BY <1>6
    <3> HIDE DEF V
    <3> QED BY <1>6, <2>1, <3>1
  <2>3. Len(q) = Len(to)
    BY <1>6, <2>1
  <2>4. \A i \in 1..Len(to) : q[i].sym = to[i] /\ q[i].dir = dir /\ q[i].parent = id
    BY <2>1
  <2>5. \A i \in 1..Len(to) : to[i] \in S
    BY <1>6
  <2>6. \A t \in S : \E i \in 1..Len(to) : to[i] = t
    BY <1>6 DEF RowsIn
  <2>7. AList(q)
    BY <2>2 DEF AList
  <2>8. EdgeList(q, id, dir, S)
    BY <1>6, <1>7, <2>3, <2>4, <2>5, <2>6, <2>7 DEF EdgeList
  <2> QED BY <2>8 DEF q, S, s
<1>8. CASE dir \notin Directions
  <2>1. q = <<>>
    BY <1>2, <1>3, <1>8
  <2>2. AList(q) /\ Len(q) = 0
    BY <2>1 DEF AList
  <2>3. EdgeList(q, id, dir, S)
    BY <1>8, <2>2 DEF EdgeList
  <2> QED BY <2>3 DEF q, S, s
<1> QED BY <1>7, <1>8

-----------------------------------------------------------------------------
(* The walk.                                                               *)

\* A list with one more element.
LEMMA OneMore ==
    ASSUME NEW s, AList(s), NEW x
    PROVE  /\ AList(Append(s, x)) /\ Len(s) \in Nat /\ Len(Append(s, x)) = Len(s) + 1
           /\ \A i \in 1..Len(s) : Append(s, x)[i] = s[i]
           /\ Append(s, x)[Len(s) + 1] = x
<1>1. PICK V : s \in Seq(V)
  BY DEF AList
<1>2. PICK U : U = V \cup {x}
  OBVIOUS
<1>3. s \in Seq(U) /\ x \in U
  BY <1>1, <1>2
<1>4. Append(s, x) \in Seq(U)
  BY <1>3
<1> QED BY <1>3, <1>4 DEF AList

\* The elements of a list.
LEMMA ListSet ==
    ASSUME NEW s, AList(s)
    PROVE  ToSet(s) = {s[i] : i \in 1..Len(s)} /\ Len(s) \in Nat /\ DOMAIN s = 1..Len(s)
<1>1. PICK V : s \in Seq(V)
  BY DEF AList
<1> QED BY <1>1, ElementsOf DEF RowsIn

IsWalk(w) == w = [nodes |-> w.nodes, seen |-> w.seen, frontier |-> w.frontier,
                  edges |-> w.edges, next |-> w.next, hop |-> w.hop]

RootOk(n) == n.hop = 0 /\ n.sym \in ToSet(out) /\ DefIn(n.sym)

HangsOk(n, p) == n.hop = p.hop + 1 /\ n.dir \in Directions /\ n.sym \in Targets(Copies(p.sym), n.dir)

NodeOk(n) == n.sym \in Sym /\ n.key = KeyOf(n.sym) /\ Pass(n.sym) /\ n.hop \in Nat /\ n.parent \in Nat

\* The nodes: one for each key, and each hangs under an earlier one.
NodesOk(w) ==
    /\ AList(w.nodes) /\ w.hop \in Nat /\ w.hop <= req.depth
    /\ \A i \in 1..Len(w.nodes) : NodeOk(w.nodes[i]) /\ w.nodes[i].hop <= w.hop
    /\ \A i, j \in 1..Len(w.nodes) : w.nodes[i].key = w.nodes[j].key => i = j
    /\ \A i \in 1..Len(w.nodes) :
          IF w.nodes[i].parent = 0 THEN RootOk(w.nodes[i])
          ELSE w.nodes[i].parent < i /\ HangsOk(w.nodes[i], w.nodes[w.nodes[i].parent])

\* The frontier is of the hop before this one, and next of this one.
PlacesOk(w) ==
    /\ w.frontier \in Seq(Nat) /\ w.next \in Seq(Nat)
    /\ \A id \in ToSet(w.frontier) : id \in 1..Len(w.nodes) /\ w.nodes[id].hop + 1 = w.hop
    /\ \A id \in ToSet(w.next) : id \in 1..Len(w.nodes) /\ w.nodes[id].hop = w.hop
    /\ \A i \in 1..Len(w.nodes) : w.nodes[i].hop = w.hop => i \in ToSet(w.next)

\* A symbol has a node for its key, at most h hops from a root.
Covered(w, t, h) == \E j \in 1..Len(w.nodes) : w.nodes[j].key = KeyOf(t) /\ w.nodes[j].hop <= h

SeenOk(w) == \A s \in w.seen : Covered(w, s, w.hop)

Steady(w) == IsWalk(w) /\ NodesOk(w) /\ PlacesOk(w) /\ SeenOk(w)

\* What admit is called for.
MayHang(w, e) ==
    /\ e.sym \in Sym /\ Pass(e.sym) /\ e.parent \in Nat
    /\ IF e.parent = 0 THEN w.hop = 0 /\ e.sym \in ToSet(out) /\ DefIn(e.sym)
       ELSE /\ e.parent \in 1..Len(w.nodes) /\ w.hop = w.nodes[e.parent].hop + 1 /\ e.dir \in Directions
            /\ e.sym \in Targets(Copies(w.nodes[e.parent].sym), e.dir)

\* What admit leaves as it was.
Grown(w, v) ==
    /\ v.frontier = w.frontier /\ v.edges = w.edges /\ v.hop = w.hop
    /\ Len(v.nodes) \in {Len(w.nodes), Len(w.nodes) + 1}
    /\ \A i \in 1..Len(w.nodes) : v.nodes[i] = w.nodes[i]
    /\ Len(v.nodes) = Len(w.nodes) + 1 => v.nodes[Len(w.nodes) + 1].hop = w.hop

\* A symbol that is admitted is covered, and the walk stays as it must be.
LEMMA AdmitOk ==
    ASSUME NEW w, NEW e, Steady(w), MayHang(w, e)
    PROVE  Steady(admit(w, e)) /\ Grown(w, admit(w, e)) /\ Covered(admit(w, e), e.sym, w.hop)
<1> DEFINE N == w.nodes
           L == Len(w.nodes)
           v == admit(w, e)
           x == NodeFor(e, w.hop)
<1>0. IsWalk(w) /\ NodesOk(w) /\ PlacesOk(w) /\ SeenOk(w)
  BY DEF Steady
<1>1. AList(N) /\ L \in Nat /\ DOMAIN N = 1..L /\ ToSet(N) = {N[i] : i \in 1..L} /\ w.hop \in Nat
  BY <1>0, ListSet DEF NodesOk
<1>2. CASE e.sym \in w.seen
  <2>1. v = w
    BY <1>2 DEF admit
  <2>2. Covered(w, e.sym, w.hop)
    BY <1>0, <1>2 DEF SeenOk
  <2>3. Grown(w, w)
    BY <1>1 DEF Grown
  <2> QED BY <1>0, <2>1, <2>2, <2>3 DEF Steady
<1>3. CASE e.sym \notin w.seen /\ \E n \in ToSet(N) : n.key = KeyOf(e.sym)
  <2>1. v = [w EXCEPT !.seen = @ \cup {e.sym}]
    BY <1>3 DEF admit
  <2>2. /\ v.nodes = w.nodes /\ v.seen = w.seen \cup {e.sym} /\ v.frontier = w.frontier /\ v.edges = w.edges
        /\ v.next = w.next /\ v.hop = w.hop
        /\ v = [nodes |-> w.nodes, seen |-> w.seen \cup {e.sym}, frontier |-> w.frontier,
                edges |-> w.edges, next |-> w.next, hop |-> w.hop]
    BY <1>0, <2>1 DEF IsWalk
  <2> HIDE DEF v
  <2>3. Covered(v, e.sym, w.hop)
    <3>1. PICK j \in 1..L : N[j].key = KeyOf(e.sym)
      BY <1>1, <1>3
    <3>2. N[j].hop <= w.hop
      BY <1>0, <3>1 DEF NodesOk
    <3> QED BY <2>2, <3>1, <3>2 DEF Covered
  <2>4. SeenOk(v)
    <3>1. \A s \in w.seen : Covered(v, s, w.hop)
      BY <1>0, <2>2 DEF SeenOk, Covered
    <3> QED BY <2>2, <2>3, <3>1 DEF SeenOk
  <2>5. NodesOk(v)
    BY <1>0, <2>2 DEF NodesOk
  <2>6. PlacesOk(v)
    BY <1>0, <2>2 DEF PlacesOk
  <2>7. IsWalk(v)
    BY <2>2 DEF IsWalk
  <2>8. Grown(w, v)
    BY <1>1, <2>2 DEF Grown
  <2> QED BY <2>3, <2>4, <2>5, <2>6, <2>7, <2>8 DEF Steady, v
<1>4. CASE e.sym \notin w.seen /\ \A n \in ToSet(N) : n.key # KeyOf(e.sym)
  <2>1. v = [nodes |-> Append(N, x), seen |-> w.seen \cup {e.sym}, frontier |-> w.frontier,
             edges |-> w.edges, next |-> Append(w.next, L + 1), hop |-> w.hop]
    BY <1>4 DEF admit
  <2> DEFINE M == Append(N, x)
  <2>2. /\ AList(M) /\ Len(M) = L + 1 /\ \A i \in 1..L : M[i] = N[i]
        /\ M[L + 1] = x
    <3> HIDE DEF x
    <3> QED BY <1>1, OneMore
  <2>3. /\ x.sym = e.sym /\ x.key = KeyOf(e.sym) /\ x.parent = e.parent /\ x.dir = e.dir /\ x.hop = w.hop
    BY DEF NodeFor
  <2>4. /\ v.nodes = M /\ v.seen = w.seen \cup {e.sym} /\ v.frontier = w.frontier /\ v.edges = w.edges
        /\ v.next = Append(w.next, L + 1) /\ v.hop = w.hop
    BY <2>1
  <2> HIDE DEF v, x, M
  <2>5. IsWalk(v)
    BY <2>1, <2>4 DEF IsWalk, M
  <2>6. Grown(w, v)
    BY <1>1, <2>2, <2>3, <2>4 DEF Grown
  <2>7. L + 1 \in 1..(L + 1) /\ \A i \in 1..(L + 1) : i \in 1..L \/ i = L + 1
    BY <1>1
  <2>8. \A i \in 1..L : N[i].key # KeyOf(e.sym)
    BY <1>1, <1>4
  <2>9. NodesOk(v)
    <3>1. AList(v.nodes) /\ v.hop \in Nat /\ v.hop <= req.depth
      BY <1>0, <1>1, <2>2, <2>4 DEF NodesOk
    <3>2. \A i \in 1..L : NodeOk(N[i]) /\ N[i].hop <= w.hop
      BY <1>0 DEF NodesOk
    <3>3. NodeOk(x) /\ x.hop <= w.hop
      BY <1>1, <2>3 DEF NodeOk, MayHang
    <3>4. \A i \in 1..(L + 1) : NodeOk(M[i]) /\ M[i].hop <= w.hop
      BY <2>2, <2>7, <3>2, <3>3
    <3>5. ASSUME NEW i \in 1..(L + 1), NEW j \in 1..(L + 1), M[i].key = M[j].key PROVE i = j
      <4>1. CASE i \in 1..L /\ j \in 1..L
        BY <1>0, <2>2, <3>5, <4>1 DEF NodesOk
      <4>2. CASE i \in 1..L /\ j = L + 1
        BY <2>2, <2>3, <2>8, <3>5, <4>2
      <4>3. CASE i = L + 1 /\ j \in 1..L
        BY <2>2, <2>3, <2>8, <3>5, <4>3
      <4> QED BY <2>7, <4>1, <4>2, <4>3
    <3>6. ASSUME NEW i \in 1..L
          PROVE  IF M[i].parent = 0 THEN RootOk(M[i]) ELSE M[i].parent < i /\ HangsOk(M[i], M[M[i].parent])
      <4>1. M[i] = N[i] /\ N[i].parent \in Nat
        BY <2>2, <3>2 DEF NodeOk
      <4>2. IF N[i].parent = 0 THEN RootOk(N[i]) ELSE N[i].parent < i /\ HangsOk(N[i], N[N[i].parent])
        BY <1>0 DEF NodesOk
      <4>3. CASE N[i].parent = 0
        BY <4>1, <4>2, <4>3
      <4>4. CASE N[i].parent # 0
        <5>1. N[i].parent \in 1..L
          BY <1>1, <4>1, <4>2, <4>4
        <5>2. M[N[i].parent] = N[N[i].parent]
          BY <2>2, <5>1
        <5> QED BY <4>1, <4>2, <4>4, <5>2
      <4> QED BY <4>3, <4>4
    <3>7. IF x.parent = 0 THEN RootOk(x) ELSE x.parent < L + 1 /\ HangsOk(x, M[x.parent])
      <4>1. CASE e.parent = 0
        BY <2>3, <4>1 DEF MayHang, RootOk
      <4>2. CASE e.parent # 0
        <5>1. e.parent \in 1..L /\ M[e.parent] = N[e.parent]
          BY <2>2, <4>2 DEF MayHang
        <5>2. e.parent < L + 1
          BY <1>1, <5>1
        <5> QED BY <2>3, <4>2, <5>1, <5>2 DEF MayHang, HangsOk
      <4> QED BY <4>1, <4>2
    <3>8. \A i \in 1..(L + 1) : IF M[i].parent = 0 THEN RootOk(M[i]) ELSE M[i].parent < i /\ HangsOk(M[i], M[M[i].parent])
      BY <2>2, <2>7, <3>6, <3>7
    <3> QED BY <2>2, <2>4, <3>1, <3>4, <3>5, <3>8 DEF NodesOk
  <2>10. Covered(v, e.sym, w.hop)
    <3>1. M[L + 1].key = KeyOf(e.sym) /\ M[L + 1].hop <= w.hop
      BY <1>1, <2>2, <2>3
    <3> QED BY <2>2, <2>4, <2>7, <3>1 DEF Covered
  <2>11. SeenOk(v)
    <3>1. \A s \in w.seen : Covered(v, s, w.hop)
      <4> SUFFICES ASSUME NEW s \in w.seen PROVE Covered(v, s, w.hop)
        OBVIOUS
      <4>1. PICK j \in 1..L : N[j].key = KeyOf(s) /\ N[j].hop <= w.hop
        BY <1>0 DEF SeenOk, Covered
      <4>2. j \in 1..(L + 1) /\ M[j] = N[j]
        BY <1>1, <2>2
      <4> QED BY <2>2, <2>4, <4>1, <4>2 DEF Covered
    <3> QED BY <2>4, <2>10, <3>1 DEF SeenOk
  <2>12. PlacesOk(v)
    <3>1. w.next \in Seq(Nat) /\ L + 1 \in Nat
      BY <1>0, <1>1 DEF PlacesOk
    <3>2. v.next \in Seq(Nat) /\ ToSet(v.next) = ToSet(w.next) \cup {L + 1}
      BY <2>4, <3>1, ElementsOf
    <3>3. \A id \in ToSet(w.frontier) : id \in 1..L /\ N[id].hop + 1 = w.hop
      BY <1>0 DEF PlacesOk
    <3>4. \A id \in ToSet(w.next) : id \in 1..L /\ N[id].hop = w.hop
      BY <1>0 DEF PlacesOk
    <3>5. \A i \in 1..L : N[i].hop = w.hop => i \in ToSet(w.next)
      BY <1>0 DEF PlacesOk
    <3>6. w.frontier \in Seq(Nat)
      BY <1>0 DEF PlacesOk
    <3>7. \A i \in 1..L : i \in 1..(L + 1) /\ M[i] = N[i]
      BY <1>1, <2>2
    <3>8. \A id \in ToSet(w.frontier) : id \in 1..(L + 1) /\ M[id].hop + 1 = w.hop
      BY <3>3, <3>7
    <3>9. \A id \in ToSet(v.next) : id \in 1..(L + 1) /\ M[id].hop = w.hop
      BY <2>2, <2>3, <2>7, <3>2, <3>4, <3>7
    <3>10. \A i \in 1..(L + 1) : M[i].hop = w.hop => i \in ToSet(v.next)
      BY <2>7, <3>2, <3>5, <3>7
    <3> QED BY <2>2, <2>4, <3>2, <3>6, <3>8, <3>9, <3>10 DEF PlacesOk
  <2> QED BY <2>5, <2>6, <2>9, <2>10, <2>11, <2>12 DEF Steady, v
<1> QED BY <1>2, <1>3, <1>4

RootRuns(h, n, q, z) ==
    /\ h[0] = z
    /\ \A k \in 1..n : h[k] = AdmitRoot(h[k - 1], q[k])
    /\ FoldLeft(AdmitRoot, z, q) = h[n]

\* The roots are admitted one by one; h[k] is the walk after k of them.
LEMMA RootRun ==
    ASSUME NEW n \in Nat, NEW q, DOMAIN q = 1..n, NEW z
    PROVE  \E h : RootRuns(h, n, q, z)
<1> DEFINE Body(f, s) == IF s = {} THEN z ELSE AdmitRoot(f[s \ {Max(s)}], q[Max(s)])
           E(f) == f = [s \in SUBSET (DOMAIN q) |-> Body(f, s)]
           it == CHOOSE f : E(f)
           Ok(f, k) == /\ f = [s \in SUBSET (1..k) |-> f[s]] /\ f[{}] = z
                       /\ \A s \in SUBSET (1..k) : s # {} => f[s] = AdmitRoot(f[s \ {Max(s)}], q[Max(s)])
           Q == {k \in Nat : \E f : Ok(f, k)}
<1>1. FoldLeft(AdmitRoot, z, q) = it[DOMAIN q]
  BY Zenon DEF FoldLeft, MapThenFoldSet
<1>2. 0 \in Q
  <2> DEFINE f == [s \in SUBSET (1..0) |-> z]
  <2>1. {} \in SUBSET (1..0) /\ \A s \in SUBSET (1..0) : s = {}
    OBVIOUS
  <2>2. Ok(f, 0)
    <3>1. f[{}] = z
      BY <2>1
    <3>2. f = [s \in SUBSET (1..0) |-> f[s]]
      OBVIOUS
    <3> HIDE DEF f
    <3> QED BY <2>1, <3>1, <3>2, Zenon
  <2> HIDE DEF Ok, f
  <2> QED BY <2>2
<1>3. ASSUME NEW k \in Nat, k \in Q
      PROVE  k + 1 \in Q
  <2>1. PICK f : Ok(f, k)
    <3> HIDE DEF Ok
    <3> QED BY <1>3
  <2> DEFINE D == SUBSET (1..(k + 1))
             x == k + 1
             g == [s \in D |-> IF x \in s THEN AdmitRoot(f[s \ {x}], q[x]) ELSE f[s]]
  <2>2. /\ {} \in D /\ x \notin {}
        /\ \A s \in D : x \notin s => s \in SUBSET (1..k)
        /\ \A s \in D : s \ {x} \in SUBSET (1..k) /\ s \ {x} \in D /\ x \notin s \ {x}
        /\ \A s \in SUBSET (1..k) : s \in D /\ x \notin s
        /\ \A s \in SUBSET (1..k) : \A y : s \ {y} \in SUBSET (1..k)
    <3>1. 1..x = (1..k) \cup {x} /\ x \notin 1..k
      OBVIOUS
    <3>2. D = SUBSET ((1..k) \cup {x})
      BY <3>1
    <3> HIDE DEF x, D
    <3> QED BY <3>1, <3>2, Zenon
  <2>3. \A s \in D : x \in s => Max(s) = x
    <3>1. \A s \in D : x \in s => s \in SUBSET (1..x) /\ x \in s
      OBVIOUS
    <3>2. x \in Nat
      OBVIOUS
    <3> HIDE DEF D, x
    <3> QED BY <3>1, <3>2, MaxTop
  <2> HIDE DEF D, x
  <2>4. /\ \A s \in D : x \in s => g[s] = AdmitRoot(f[s \ {x}], q[x])
        /\ \A s \in D : x \notin s => g[s] = f[s]
    OBVIOUS
  <2>5. g = [s \in D |-> g[s]]
    OBVIOUS
  <2> HIDE DEF g
  <2>6. ASSUME NEW s \in D, s # {}
        PROVE  g[s] = AdmitRoot(g[s \ {Max(s)}], q[Max(s)])
    <3>1. CASE x \in s
      <4>1. Max(s) = x
        BY <2>3, <3>1
      <4>2. g[s \ {x}] = f[s \ {x}]
        BY <2>2, <2>4
      <4>3. g[s] = AdmitRoot(f[s \ {x}], q[x])
        BY <2>4, <3>1
      <4> QED BY <4>1, <4>2, <4>3, Zenon
    <3>2. CASE x \notin s
      <4>1. s \in SUBSET (1..k) /\ s \ {Max(s)} \in SUBSET (1..k)
        BY <2>2, <3>2
      <4>2. f[s] = AdmitRoot(f[s \ {Max(s)}], q[Max(s)])
        BY <2>1, <2>6, <4>1
      <4>3. g[s] = f[s] /\ g[s \ {Max(s)}] = f[s \ {Max(s)}]
        BY <2>2, <2>4, <3>2, <4>1
      <4> QED BY <4>2, <4>3, Zenon
    <3> QED BY <3>1, <3>2
  <2>7. g[{}] = z
    <3>1. g[{}] = f[{}]
      BY <2>2, <2>4
    <3> QED BY <2>1, <3>1
  <2>8. Ok(g, k + 1)
    BY <2>5, <2>6, <2>7, Zenon DEF D
  <2> HIDE DEF Ok
  <2> QED BY <2>8
<1>4. PICK f : Ok(f, n)
  <2> HIDE DEF Ok
  <2>1. n \in Q
    <3> HIDE DEF Q
    <3> QED BY <1>2, <1>3, NatSetInduction
  <2> QED BY <2>1
<1>5. E(f)
  <2>1. \A s \in SUBSET (1..n) : f[s] = Body(f, s)
    BY <1>4, Zenon
  <2>2. f = [s \in SUBSET (1..n) |-> f[s]]
    BY <1>4
  <2> HIDE DEF Body
  <2> QED BY <2>1, <2>2
<1>6. E(it)
  <2> HIDE DEF E
  <2> QED BY <1>5
<1> HIDE DEF it
<1>7. \A s \in SUBSET (1..n) : it[s] = Body(it, s)
  <2> HIDE DEF Body
  <2> QED BY <1>6
<1> DEFINE h == [k \in 0..n |-> it[1..k]]
<1>8. \A k \in 0..n : h[k] = it[1..k] /\ 1..k \in SUBSET (1..n)
  OBVIOUS
<1>9. h[0] = z
  <2>1. 0 \in 0..n /\ 1..0 = {} /\ {} \in SUBSET (1..n)
    OBVIOUS
  <2>2. h[0] = it[{}]
    <3> HIDE DEF h
    <3> QED BY <1>8, <2>1
  <2>3. it[{}] = Body(it, {})
    BY <1>7, <2>1
  <2> QED BY <2>2, <2>3, Zenon
<1>10. ASSUME NEW k \in 1..n
       PROVE  h[k] = AdmitRoot(h[k - 1], q[k])
  <2>1. k \in 0..n /\ k - 1 \in 0..n
    OBVIOUS
  <2>2. 1..k \in SUBSET (1..n) /\ 1..k # {} /\ Max(1..k) = k /\ (1..k) \ {k} = 1..(k - 1)
    BY MaxIndex
  <2>3. it[1..k] = Body(it, 1..k)
    BY <1>7, <2>2
  <2>4. h[k] = it[1..k] /\ h[k - 1] = it[1..(k - 1)]
    <3> HIDE DEF h
    <3> QED BY <1>8, <2>1
  <2> HIDE DEF h
  <2> QED BY <2>2, <2>3, <2>4, Zenon
<1>11. h[n] = it[DOMAIN q]
  <2>1. n \in 0..n
    OBVIOUS
  <2> HIDE DEF h
  <2> QED BY <1>8, <2>1
<1> HIDE DEF h
<1>12. RootRuns(h, n, q, z)
  BY <1>1, <1>9, <1>10, <1>11, Zenon DEF RootRuns
<1> QED BY <1>12

\* A walk that has only roots.
Rooted(w) == Steady(w) /\ w.hop = 0 /\ w.frontier = <<>> /\ w.edges = <<>>

\* The walk that Seed starts.
LEMMA SeedOk ==
    ASSUME Typed, GatheredOf(out)
    PROVE  Rooted(FoldLeft(AdmitRoot, FreshWalk, Keep(out, {s \in ToSet(out) : DefIn(s) /\ Pass(s)})))
<1> DEFINE K == {s \in ToSet(out) : DefIn(s) /\ Pass(s)}
           q == Keep(out, K)
           n == Len(q)
<1>1. ToSet(out) \cap K = K /\ out \in Seq(Sym)
  BY DEF GatheredOf
<1>2. q \in Seq(Sym) /\ ToSet(q) = K
  <2> HIDE DEF K
  <2> QED BY <1>1, KeepElements
<1> HIDE DEF q
<1>3. n \in Nat /\ DOMAIN q = 1..n /\ \A i \in 1..n : q[i] \in Sym /\ q[i] \in K
  <2>1. ToSet(q) = {q[i] : i \in 1..n} /\ n \in Nat /\ DOMAIN q = 1..n
    BY <1>2, ElementsOf DEF RowsIn
  <2> QED BY <1>2, <2>1
<1>4. PICK h : RootRuns(h, n, q, FreshWalk)
  BY <1>3, RootRun
<1>5. /\ h[0] = FreshWalk /\ FoldLeft(AdmitRoot, FreshWalk, q) = h[n]
      /\ \A k \in 1..n : h[k] = AdmitRoot(h[k - 1], q[k])
  BY <1>4, Zenon DEF RootRuns
<1> DEFINE P == {k \in Nat : k <= n => Rooted(h[k])}
<1>6. 0 \in P
  <2>1. /\ h[0].nodes = <<>> /\ h[0].seen = {} /\ h[0].frontier = <<>> /\ h[0].edges = <<>>
        /\ h[0].next = <<>> /\ h[0].hop = 0 /\ IsWalk(h[0])
    BY <1>5 DEF FreshWalk, IsWalk
  <2>2. AList(h[0].nodes) /\ Len(h[0].nodes) = 0 /\ h[0].frontier \in Seq(Nat) /\ h[0].next \in Seq(Nat)
    BY <2>1 DEF AList
  <2>3. req.depth \in Nat
    BY DEF Typed, IsRequest
  <2>4. NodesOk(h[0])
    BY <2>1, <2>2, <2>3 DEF NodesOk
  <2>5. ToSet(h[0].frontier) = {} /\ ToSet(h[0].next) = {}
    BY <2>1, ElementsOf
  <2>6. PlacesOk(h[0])
    BY <2>2, <2>5 DEF PlacesOk
  <2>7. SeenOk(h[0])
    BY <2>1 DEF SeenOk
  <2> QED BY <2>1, <2>4, <2>6, <2>7 DEF Steady, Rooted
<1>7. ASSUME NEW k \in Nat, k \in P
      PROVE  k + 1 \in P
  <2> SUFFICES ASSUME k + 1 <= n PROVE Rooted(h[k + 1])
    OBVIOUS
  <2>1. k + 1 \in 1..n /\ (k + 1) - 1 = k /\ k <= n
    BY <1>3
  <2>2. Rooted(h[k])
    BY <1>7, <2>1
  <2> DEFINE w == h[k]
             s == q[k + 1]
             e == [sym |-> s, dir |-> "root", parent |-> 0]
  <2>3. h[k + 1] = admit(w, e)
    <3>1. h[k + 1] = AdmitRoot(h[(k + 1) - 1], q[k + 1])
      BY <1>5, <2>1
    <3>2. h[k + 1] = AdmitRoot(w, s)
      BY <2>1, <3>1
    <3> QED BY <3>2 DEF AdmitRoot
  <2>4. s \in Sym /\ s \in ToSet(out) /\ DefIn(s) /\ Pass(s)
    BY <1>3, <2>1
  <2>5. e.sym = s /\ e.parent = 0
    OBVIOUS
  <2> HIDE DEF w, s, e
  <2>6. Steady(w) /\ w.hop = 0 /\ w.frontier = <<>> /\ w.edges = <<>>
    BY <2>2 DEF w, Rooted
  <2>7. MayHang(w, e)
    BY <2>4, <2>5, <2>6 DEF MayHang
  <2>8. Steady(admit(w, e)) /\ Grown(w, admit(w, e))
    BY <2>6, <2>7, AdmitOk
  <2> QED BY <2>3, <2>6, <2>8 DEF Rooted, Grown
<1>8. n \in P
  <2> HIDE DEF P
  <2> QED BY <1>3, <1>6, <1>7, NatSetInduction
<1>9. Rooted(h[n])
  BY <1>3, <1>8
<1> QED BY <1>5, <1>9, Zenon DEF q, K

\* An edge still to follow: it leaves a node of the hop before.
EdgeOk(w, e) ==
    /\ e.sym \in Sym /\ e.dir \in Directions /\ e.parent \in 1..Len(w.nodes)
    /\ w.hop = w.nodes[e.parent].hop + 1
    /\ e.sym \in Targets(Copies(w.nodes[e.parent].sym), e.dir)

EdgesOk(w) == AList(w.edges) /\ \A k \in 1..Len(w.edges) : EdgeOk(w, w.edges[k])

Pending(w, i, t) == \E k \in 1..Len(w.edges) : w.edges[k].sym = t /\ w.edges[k].parent = i

\* What a node reaches is covered or pending, unless it waits itself.
ClosedAt(w, i) ==
    \/ i \in ToSet(w.frontier)
    \/ \A dir \in Directions : \A t \in Targets(dup_syms(w.nodes[i].sym), dir) :
          Pass(t) => Covered(w, t, w.nodes[i].hop + 1) \/ Pending(w, i, t)

ClosedOk(w) == \A i \in 1..Len(w.nodes) : w.nodes[i].hop < w.hop => ClosedAt(w, i)

\* Only the roots may use up the budget.
BudgetOk(w) == (\A i \in 1..Len(w.nodes) : w.nodes[i].hop = 0) \/ Len(w.nodes) < req.max_syms

WalkOk(w) == Steady(w) /\ EdgesOk(w) /\ ClosedOk(w) /\ BudgetOk(w)

\* Steady is not about the edges.
LEMMA SteadySame ==
    ASSUME NEW u, Steady(u), NEW v, IsWalk(v), v.nodes = u.nodes, v.seen = u.seen,
           v.frontier = u.frontier, v.next = u.next, v.hop = u.hop
    PROVE  Steady(v)
<1>1. NodesOk(u) /\ PlacesOk(u) /\ SeenOk(u)
  BY DEF Steady
<1>2. NodesOk(v)
  BY <1>1 DEF NodesOk
<1>3. PlacesOk(v)
  BY <1>1 DEF PlacesOk
<1>4. SeenOk(v)
  BY <1>1 DEF SeenOk, Covered
<1> QED BY <1>2, <1>3, <1>4 DEF Steady

\* A list without its first element.
LEMMA OneLess ==
    ASSUME NEW s, AList(s), s # <<>>
    PROVE  /\ AList(Tail(s)) /\ Len(s) \in Nat /\ Len(s) >= 1 /\ Len(Tail(s)) = Len(s) - 1
           /\ \A k \in 1..(Len(s) - 1) : Tail(s)[k] = s[k + 1]
           /\ Head(s) = s[1]
<1>1. PICK V : s \in Seq(V)
  BY DEF AList
<1>2. Tail(s) \in Seq(V)
  BY <1>1
<1> QED BY <1>1, <1>2 DEF AList

\* The first edge is followed.
Followed(w) == IF Pass(Head(w.edges).sym) THEN admit(w, Head(w.edges)) ELSE w

LEMMA FollowOk ==
    ASSUME NEW w, WalkOk(w), w.edges # <<>>, NEW u, u = Followed(w),
           NEW v, v = [u EXCEPT !.edges = Tail(@)]
    PROVE  /\ Steady(u) /\ Grown(w, u) /\ v.nodes = u.nodes
           /\ Steady(v) /\ EdgesOk(v) /\ ClosedOk(v)
<1> DEFINE N == w.nodes
           L == Len(w.nodes)
           E == w.edges
           m == Len(w.edges)
           e == Head(w.edges)
<1>0. Steady(w) /\ EdgesOk(w) /\ ClosedOk(w)
  BY DEF WalkOk
<1>1. /\ AList(Tail(E)) /\ m \in Nat /\ m >= 1 /\ Len(Tail(E)) = m - 1
      /\ \A k \in 1..(m - 1) : Tail(E)[k] = E[k + 1]
      /\ e = E[1]
  BY <1>0, OneLess DEF EdgesOk
<1>2. AList(N) /\ L \in Nat /\ w.hop \in Nat /\ \A i \in 1..L : N[i].hop \in Nat
  BY <1>0, ListSet DEF Steady, NodesOk, NodeOk
<1> HIDE DEF e
<1>3. EdgeOk(w, e)
  <2>1. 1 \in 1..m
    BY <1>1
  <2> QED BY <1>0, <1>1, <2>1 DEF EdgesOk
<1>4. /\ Steady(u) /\ Grown(w, u)
      /\ Pass(e.sym) => Covered(u, e.sym, w.hop)
  <2>1. CASE Pass(e.sym)
    <3>1. u = admit(w, e)
      BY <2>1 DEF Followed, e
    <3>2. MayHang(w, e)
      <4>1. e.parent \in Nat /\ e.parent # 0
        BY <1>2, <1>3 DEF EdgeOk
      <4> QED BY <1>3, <2>1, <4>1 DEF MayHang, EdgeOk
    <3> QED BY <1>0, <3>1, <3>2, AdmitOk
  <2>2. CASE ~Pass(e.sym)
    <3>1. u = w
      BY <2>2 DEF Followed, e
    <3>2. Grown(w, w)
      BY <1>2 DEF Grown
    <3> QED BY <1>0, <2>2, <3>1, <3>2
  <2> QED BY <2>1, <2>2
<1>5. /\ u.frontier = w.frontier /\ u.edges = E /\ u.hop = w.hop
      /\ Len(u.nodes) \in {L, L + 1} /\ \A i \in 1..L : u.nodes[i] = N[i]
      /\ Len(u.nodes) = L + 1 => u.nodes[L + 1].hop = w.hop
  BY <1>4 DEF Grown
<1>6. /\ v.nodes = u.nodes /\ v.seen = u.seen /\ v.frontier = u.frontier /\ v.next = u.next /\ v.hop = u.hop
      /\ v.edges = Tail(E) /\ IsWalk(v)
  <2>1. IsWalk(u)
    BY <1>4 DEF Steady
  <2>2. PICK t : t = Tail(E)
    OBVIOUS
  <2>3. v = [u EXCEPT !.edges = t]
    BY <1>5, <2>2
  <2>4. v = [nodes |-> u.nodes, seen |-> u.seen, frontier |-> u.frontier, edges |-> t, next |-> u.next, hop |-> u.hop]
    BY <2>1, <2>3 DEF IsWalk
  <2>5. v.nodes = u.nodes /\ v.seen = u.seen /\ v.frontier = u.frontier /\ v.edges = t /\ v.next = u.next /\ v.hop = u.hop
    BY <2>4
  <2>6. IsWalk(v)
    BY <2>4, <2>5, Zenon DEF IsWalk
  <2> QED BY <2>2, <2>5, <2>6
<1>7. Steady(v)
  BY <1>4, <1>6, SteadySame
<1>8. \A i \in 1..L : i \in 1..Len(v.nodes) /\ v.nodes[i] = N[i]
  BY <1>2, <1>5, <1>6
<1>9. EdgesOk(v)
  <2>1. ASSUME NEW k \in 1..(m - 1) PROVE EdgeOk(v, Tail(E)[k])
    <3>1. k + 1 \in 1..m /\ Tail(E)[k] = E[k + 1]
      BY <1>1
    <3>2. PICK f : f = E[k + 1]
      OBVIOUS
    <3>3. EdgeOk(w, f)
      BY <1>0, <3>1, <3>2 DEF EdgesOk
    <3>4. EdgeOk(v, f)
      BY <1>5, <1>6, <1>8, <3>3 DEF EdgeOk
    <3> QED BY <3>1, <3>2, <3>4
  <2> QED BY <1>1, <1>6, <2>1 DEF EdgesOk
<1>10. \A t, h : Covered(w, t, h) => Covered(v, t, h)
  BY <1>8 DEF Covered
<1>11. ASSUME NEW i \in 1..L, NEW t, Pass(t), N[i].hop < w.hop, Pending(w, i, t)
       PROVE  Covered(v, t, N[i].hop + 1) \/ Pending(v, i, t)
  <2>1. PICK k \in 1..m : E[k].sym = t /\ E[k].parent = i
    BY <1>11 DEF Pending
  <2>2. CASE k = 1
    <3>1. e.sym = t /\ e.parent = i
      BY <1>1, <2>1, <2>2
    <3>2. Covered(u, t, w.hop) /\ w.hop = N[i].hop + 1
      BY <1>3, <1>4, <1>11, <3>1 DEF EdgeOk
    <3> QED BY <1>6, <3>2 DEF Covered
  <2>3. CASE k # 1
    <3>1. k - 1 \in 1..(m - 1) /\ (k - 1) + 1 = k
      BY <1>1, <2>3
    <3>2. Tail(E)[k - 1] = E[k]
      BY <1>1, <3>1
    <3> QED BY <1>1, <1>6, <2>1, <3>1, <3>2 DEF Pending
  <2> QED BY <2>2, <2>3
<1>12. ClosedOk(v)
  <2> SUFFICES ASSUME NEW i \in 1..Len(v.nodes), v.nodes[i].hop < v.hop PROVE ClosedAt(v, i)
    BY DEF ClosedOk
  <2>1. i \in 1..L
    <3>1. CASE i = L + 1 /\ Len(u.nodes) = L + 1
      <4>1. v.nodes[i].hop = w.hop /\ v.hop = w.hop
        BY <1>5, <1>6, <3>1
      <4> QED BY <1>2, <4>1
    <3> QED BY <1>2, <1>5, <1>6, <3>1
  <2>2. v.nodes[i] = N[i] /\ N[i].hop < w.hop
    BY <1>5, <1>6, <1>8, <2>1
  <2>3. ClosedAt(w, i)
    BY <1>0, <2>1, <2>2 DEF ClosedOk
  <2>4. CASE i \in ToSet(w.frontier)
    BY <1>5, <1>6, <2>4 DEF ClosedAt
  <2>5. CASE i \notin ToSet(w.frontier)
    <3>1. \A dir \in Directions : \A t \in Targets(dup_syms(N[i].sym), dir) :
             Pass(t) => Covered(w, t, N[i].hop + 1) \/ Pending(w, i, t)
      BY <2>3, <2>5 DEF ClosedAt
    <3>2. \A dir \in Directions : \A t \in Targets(dup_syms(N[i].sym), dir) :
             Pass(t) => Covered(v, t, N[i].hop + 1) \/ Pending(v, i, t)
      BY <1>10, <1>11, <2>1, <2>2, <3>1
    <3> QED BY <2>2, <3>2 DEF ClosedAt
  <2> QED BY <2>4, <2>5
<1> QED BY <1>4, <1>6, <1>7, <1>9, <1>12

\* Two lists one after the other.
JoinOf(c, a, b) ==
    /\ AList(c) /\ Len(a) \in Nat /\ Len(b) \in Nat /\ Len(c) = Len(a) + Len(b)
    /\ \A i \in 1..Len(a) : c[i] = a[i]
    /\ \A i \in 1..Len(b) : c[Len(a) + i] = b[i]

\* That is their concatenation.
LEMMA Joined ==
    ASSUME NEW a, AList(a), NEW b, AList(b)
    PROVE  JoinOf(a \o b, a, b)
<1>1. PICK V : a \in Seq(V)
  BY DEF AList
<1>2. PICK U : b \in Seq(U)
  BY DEF AList
<1>3. PICK W : W = V \cup U
  OBVIOUS
<1>4. a \in Seq(W) /\ b \in Seq(W)
  BY <1>1, <1>2, <1>3
<1>5. (a \o b) \in Seq(W)
  BY <1>4
<1>6. AList(a \o b)
  BY <1>5, Zenon DEF AList
<1>7. /\ Len(a) \in Nat /\ Len(b) \in Nat /\ Len(a \o b) = Len(a) + Len(b)
      /\ \A i \in 1..Len(a) : (a \o b)[i] = a[i]
      /\ \A i \in 1..Len(b) : (a \o b)[Len(a) + i] = b[i]
  BY <1>4
<1> QED BY <1>6, <1>7, Zenon DEF JoinOf

\* The frontier after its first node is taken.
LEMMA TailFacts ==
    ASSUME NEW s \in Seq(Nat), s # <<>>
    PROVE  /\ Tail(s) \in Seq(Nat) /\ Head(s) \in ToSet(s) /\ ToSet(Tail(s)) \subseteq ToSet(s)
           /\ \A x \in ToSet(s) : x = Head(s) \/ x \in ToSet(Tail(s))
<1>1. /\ Tail(s) \in Seq(Nat) /\ Len(s) \in Nat /\ Len(s) >= 1 /\ Len(Tail(s)) = Len(s) - 1
      /\ \A k \in 1..(Len(s) - 1) : Tail(s)[k] = s[k + 1]
      /\ Head(s) = s[1]
  <2>1. Tail(s) \in Seq(Nat)
    OBVIOUS
  <2>2. AList(s)
    BY DEF AList
  <2> QED BY <2>1, <2>2, OneLess
<1>2. ToSet(s) = {s[i] : i \in 1..Len(s)} /\ ToSet(Tail(s)) = {Tail(s)[i] : i \in 1..Len(Tail(s))}
  <2>1. PICK u \in Seq(Nat) : u = Tail(s)
    BY <1>1
  <2>2. ToSet(s) = {s[i] : i \in 1..Len(s)} /\ ToSet(u) = {u[i] : i \in 1..Len(u)}
    BY ElementsOf DEF RowsIn
  <2> QED BY <2>1, <2>2
<1>3. Head(s) \in ToSet(s)
  BY <1>1, <1>2
<1>4. ToSet(Tail(s)) \subseteq ToSet(s)
  <2>1. \A k \in 1..(Len(s) - 1) : k + 1 \in 1..Len(s)
    BY <1>1
  <2> QED BY <1>1, <1>2, <2>1
<1>5. ASSUME NEW x \in ToSet(s), x # Head(s) PROVE x \in ToSet(Tail(s))
  <2>1. PICK i \in 1..Len(s) : x = s[i]
    BY <1>2
  <2>2. i - 1 \in 1..(Len(s) - 1) /\ (i - 1) + 1 = i
    BY <1>1, <1>5, <2>1
  <2>3. Tail(s)[i - 1] = x
    BY <1>1, <2>1, <2>2
  <2> QED BY <1>1, <1>2, <2>2, <2>3
<1> QED BY <1>1, <1>3, <1>4, <1>5

\* The edges of the next node are read.
LEMMA ExpandOk ==
    ASSUME Typed, GatheredOf(out), req.verb \in WalkVerbs, WalkOk(walk),
           walk.edges = <<>>, walk.frontier # <<>>, NEW id, id = Head(walk.frontier), NEW v,
           v = [nodes |-> walk.nodes, seen |-> walk.seen, frontier |-> Tail(walk.frontier),
                edges |-> Neighbours(id, "up") \o Neighbours(id, "down"),
                next |-> walk.next, hop |-> walk.hop]
    PROVE  WalkOk(v)
<1> DEFINE N == walk.nodes
           L == Len(walk.nodes)
           F == walk.frontier
           s == walk.nodes[id].sym
           A == Neighbours(id, "up")
           B == Neighbours(id, "down")
           E == A \o B
<1>0. Steady(walk) /\ ClosedOk(walk) /\ BudgetOk(walk) /\ NodesOk(walk) /\ PlacesOk(walk) /\ SeenOk(walk)
  BY DEF WalkOk, Steady
<1>1. /\ v.nodes = N /\ v.seen = walk.seen /\ v.frontier = Tail(F) /\ v.edges = E /\ v.next = walk.next
      /\ v.hop = walk.hop /\ IsWalk(v)
  <2>1. v.nodes = N /\ v.seen = walk.seen /\ v.frontier = Tail(F) /\ v.edges = E /\ v.next = walk.next /\ v.hop = walk.hop
    OBVIOUS
  <2> HIDE DEF E
  <2>2. IsWalk(v)
    BY <2>1, Zenon DEF IsWalk, E
  <2> QED BY <2>1, <2>2
<1>2. /\ F \in Seq(Nat) /\ Tail(F) \in Seq(Nat) /\ id \in ToSet(F) /\ ToSet(Tail(F)) \subseteq ToSet(F)
      /\ \A x \in ToSet(F) : x = id \/ x \in ToSet(Tail(F))
  <2>1. F \in Seq(Nat)
    BY <1>0 DEF PlacesOk
  <2>2. F # <<>> /\ id = Head(F)
    OBVIOUS
  <2> HIDE DEF F
  <2> QED BY <2>1, <2>2, TailFacts
<1>3. id \in 1..L /\ N[id].hop + 1 = walk.hop /\ s \in Sym
  BY <1>0, <1>2 DEF PlacesOk, NodesOk, NodeOk
<1>4. /\ EdgeList(A, id, "up", Targets(dup_syms(s), "up"))
      /\ EdgeList(B, id, "down", Targets(dup_syms(s), "down"))
  BY <1>3, NeighboursFound
<1>5. \A dir \in {"up", "down"} : /\ Targets(dup_syms(s), dir) \subseteq Sym
                                  /\ Targets(dup_syms(s), dir) \subseteq Targets(Copies(s), dir)
  BY <1>3, ReachFound
<1> HIDE DEF A, B, F
<1>6. /\ AList(E) /\ Len(A) \in Nat /\ Len(B) \in Nat /\ Len(E) = Len(A) + Len(B)
      /\ \A i \in 1..Len(A) : E[i] = A[i]
      /\ \A i \in 1..Len(B) : E[Len(A) + i] = B[i]
  <2>1. AList(A) /\ AList(B)
    BY <1>4 DEF EdgeList
  <2>2. JoinOf(E, A, B)
    BY <2>1, Joined, Zenon
  <2> HIDE DEF E
  <2> QED BY <2>2 DEF JoinOf
<1> HIDE DEF E
<1>7. Steady(v)
  <2>1. NodesOk(v)
    BY <1>0, <1>1 DEF NodesOk
  <2>2. PlacesOk(v)
    BY <1>0, <1>1, <1>2 DEF PlacesOk, F
  <2>3. SeenOk(v)
    BY <1>0, <1>1 DEF SeenOk, Covered
  <2> QED BY <1>1, <2>1, <2>2, <2>3 DEF Steady
<1>8. ASSUME NEW e, NEW dir \in {"up", "down"}, e.sym \in Targets(dup_syms(s), dir), e.dir = dir, e.parent = id,
             dir \in Directions
      PROVE  EdgeOk(v, e)
  BY <1>1, <1>3, <1>5, <1>8 DEF EdgeOk
<1>9. EdgesOk(v)
  <2>1. ASSUME NEW k \in 1..Len(E) PROVE EdgeOk(v, E[k])
    <3>1. CASE k \in 1..Len(A)
      <4>1. PICK e : e = A[k]
        OBVIOUS
      <4>2. e.sym \in Targets(dup_syms(s), "up") /\ e.dir = "up" /\ e.parent = id /\ "up" \in Directions
        BY <1>4, <3>1, <4>1 DEF EdgeList
      <4>3. EdgeOk(v, e)
        BY <1>8, <4>2
      <4> QED BY <1>6, <3>1, <4>1, <4>3
    <3>2. CASE k \notin 1..Len(A)
      <4>1. k - Len(A) \in 1..Len(B) /\ Len(A) + (k - Len(A)) = k
        BY <1>6, <3>2
      <4>2. PICK e : e = B[k - Len(A)]
        OBVIOUS
      <4>3. e.sym \in Targets(dup_syms(s), "down") /\ e.dir = "down" /\ e.parent = id /\ "down" \in Directions
        BY <1>4, <4>1, <4>2 DEF EdgeList
      <4>4. EdgeOk(v, e)
        BY <1>8, <4>3
      <4>5. E[k] = e
        BY <1>6, <4>1, <4>2
      <4> QED BY <4>4, <4>5
    <3> QED BY <3>1, <3>2
  <2> QED BY <1>1, <1>6, <2>1 DEF EdgesOk
<1>10. \A dir \in Directions : \A t \in Targets(dup_syms(s), dir) : Pending(v, id, t)
  <2> SUFFICES ASSUME NEW dir \in Directions, NEW t \in Targets(dup_syms(s), dir) PROVE Pending(v, id, t)
    OBVIOUS
  <2>1. CASE dir = "up"
    <3>1. PICK i \in 1..Len(A) : A[i].sym = t /\ A[i].parent = id
      BY <1>4, <2>1 DEF EdgeList
    <3>2. i \in 1..Len(E) /\ E[i] = A[i]
      BY <1>6
    <3> QED BY <1>1, <3>1, <3>2 DEF Pending
  <2>2. CASE dir = "down"
    <3>1. PICK i \in 1..Len(B) : B[i].sym = t /\ B[i].parent = id
      BY <1>4, <2>2 DEF EdgeList
    <3>2. Len(A) + i \in 1..Len(E) /\ E[Len(A) + i] = B[i]
      BY <1>6
    <3> QED BY <1>1, <3>1, <3>2 DEF Pending
  <2> QED BY <2>1, <2>2 DEF Directions
<1>11. ClosedOk(v)
  <2> SUFFICES ASSUME NEW i \in 1..L, N[i].hop < walk.hop PROVE ClosedAt(v, i)
    BY <1>1 DEF ClosedOk
  <2>1. ClosedAt(walk, i)
    BY <1>0 DEF ClosedOk
  <2>2. CASE i = id
    BY <1>1, <1>10, <2>2 DEF ClosedAt
  <2>3. CASE i # id /\ i \in ToSet(F)
    BY <1>1, <1>2, <2>3 DEF ClosedAt
  <2>4. CASE i \notin ToSet(F)
    <3>1. \A t : ~Pending(walk, i, t)
      <4>1. Len(walk.edges) = 0
        OBVIOUS
      <4> QED BY <4>1 DEF Pending
    <3>2. \A dir \in Directions : \A t \in Targets(dup_syms(N[i].sym), dir) : Pass(t) => Covered(walk, t, N[i].hop + 1)
      BY <2>1, <2>4, <3>1 DEF ClosedAt, F
    <3>3. \A t, h : Covered(walk, t, h) => Covered(v, t, h)
      BY <1>1 DEF Covered
    <3> QED BY <1>1, <3>2, <3>3 DEF ClosedAt
  <2> QED BY <2>2, <2>3, <2>4
<1>12. BudgetOk(v)
  BY <1>0, <1>1 DEF BudgetOk
<1> QED BY <1>7, <1>9, <1>11, <1>12 DEF WalkOk

\* The next hop starts.
LEMMA NextHopOk ==
    ASSUME Typed, NEW w, WalkOk(w), w.edges = <<>>, w.frontier = <<>>, ~LastHop(w), NEW v,
           v = [nodes |-> w.nodes, seen |-> w.seen, frontier |-> w.next,
                edges |-> <<>>, next |-> <<>>, hop |-> w.hop + 1]
    PROVE  WalkOk(v)
<1> DEFINE N == w.nodes
           L == Len(w.nodes)
<1>0. Steady(w) /\ ClosedOk(w) /\ BudgetOk(w) /\ NodesOk(w) /\ PlacesOk(w) /\ SeenOk(w)
  BY DEF WalkOk, Steady
<1>1. /\ v.nodes = N /\ v.seen = w.seen /\ v.frontier = w.next /\ v.edges = <<>> /\ v.next = <<>>
      /\ v.hop = w.hop + 1 /\ IsWalk(v)
  BY DEF IsWalk
<1>2. req.depth \in Nat /\ w.hop < req.depth /\ w.hop \in Nat /\ \A i \in 1..L : N[i].hop \in Nat /\ N[i].hop <= w.hop
  BY <1>0 DEF Typed, IsRequest, LastHop, NodesOk, NodeOk
<1>3. AList(<<>>) /\ ToSet(<<>>) = {} /\ Len(<<>>) = 0 /\ <<>> \in Seq(Nat)
  BY ElementsOf DEF AList
<1>4. NodesOk(v)
  <2>1. v.hop \in Nat /\ v.hop <= req.depth /\ \A i \in 1..L : N[i].hop <= v.hop
    BY <1>1, <1>2
  <2> QED BY <1>0, <1>1, <2>1 DEF NodesOk
<1>5. PlacesOk(v)
  <2>1. w.next \in Seq(Nat) /\ \A id \in ToSet(w.next) : id \in 1..L /\ N[id].hop + 1 = w.hop + 1
    BY <1>0 DEF PlacesOk
  <2>2. \A i \in 1..L : N[i].hop # w.hop + 1
    BY <1>2
  <2> QED BY <1>1, <1>3, <2>1, <2>2 DEF PlacesOk
<1>6. SeenOk(v)
  <2> SUFFICES ASSUME NEW s \in w.seen PROVE Covered(v, s, v.hop)
    BY <1>1 DEF SeenOk
  <2>1. PICK j \in 1..L : N[j].key = KeyOf(s) /\ N[j].hop <= w.hop
    BY <1>0 DEF SeenOk, Covered
  <2>2. N[j].hop <= w.hop + 1
    BY <1>2, <2>1
  <2> QED BY <1>1, <2>1, <2>2 DEF Covered
<1>7. EdgesOk(v)
  BY <1>1, <1>3 DEF EdgesOk
<1>8. ClosedOk(v)
  <2> SUFFICES ASSUME NEW i \in 1..L, N[i].hop < w.hop + 1 PROVE ClosedAt(v, i)
    BY <1>1 DEF ClosedOk
  <2>1. CASE N[i].hop = w.hop
    BY <1>0, <1>1, <2>1 DEF PlacesOk, ClosedAt
  <2>2. CASE N[i].hop # w.hop
    <3>1. N[i].hop < w.hop
      BY <1>2, <2>2
    <3>2. ClosedAt(w, i) /\ i \notin ToSet(w.frontier)
      BY <1>0, <1>3, <3>1 DEF ClosedOk
    <3>3. \A t : ~Pending(w, i, t)
      BY <1>3 DEF Pending
    <3>4. \A dir \in Directions : \A t \in Targets(dup_syms(N[i].sym), dir) : Pass(t) => Covered(w, t, N[i].hop + 1)
      BY <3>2, <3>3 DEF ClosedAt
    <3>5. \A t, h : Covered(w, t, h) => Covered(v, t, h)
      BY <1>1 DEF Covered
    <3> QED BY <1>1, <3>4, <3>5 DEF ClosedAt
  <2> QED BY <2>1, <2>2
<1>9. BudgetOk(v)
  BY <1>0, <1>1 DEF BudgetOk
<1> QED BY <1>1, <1>4, <1>5, <1>6, <1>7, <1>8, <1>9 DEF WalkOk, Steady

\* The walk that Seed starts.
LEMMA RootedOk ==
    ASSUME NEW w, Rooted(w)
    PROVE  WalkOk(w)
<1>1. Steady(w) /\ w.hop = 0 /\ w.edges = <<>> /\ NodesOk(w)
  BY DEF Rooted, Steady
<1>2. \A i \in 1..Len(w.nodes) : w.nodes[i].hop = 0
  BY <1>1 DEF NodesOk, NodeOk
<1>3. AList(<<>>) /\ Len(<<>>) = 0
  BY DEF AList
<1>4. EdgesOk(w)
  BY <1>1, <1>3 DEF EdgesOk
<1>5. ClosedOk(w) /\ BudgetOk(w)
  BY <1>1, <1>2 DEF ClosedOk, BudgetOk
<1> QED BY <1>1, <1>4, <1>5 DEF WalkOk

-----------------------------------------------------------------------------
(* The reply.                                                              *)

\* What the properties say of a reply.
SoundIn(r) ==
    LET N == r.items
    IN  \A i \in DOMAIN N :
            /\ \A j \in DOMAIN N : N[i].key = N[j].key => i = j
            /\ Pass(N[i].sym)
            /\ N[i].hop <= req.depth
            /\ IF N[i].parent = 0 THEN N[i].hop = 0 /\ N[i].sym \in Asked /\ DefIn(N[i].sym)
               ELSE /\ N[i].parent < i
                    /\ N[i].hop = N[N[i].parent].hop + 1
                    /\ N[i].dir \in Directions
                    /\ N[i].sym \in Targets(Copies(N[N[i].parent].sym), N[i].dir)

ClosedIn(r) ==
    ~r.truncated =>
        LET N == r.items
        IN  \A i \in DOMAIN N : N[i].hop < req.depth =>
                \A dir \in Directions : \A t \in Targets(SameName(N[i].sym), dir) :
                    Pass(t) => \E j \in DOMAIN N : N[j].key = KeyOf(t) /\ N[j].hop <= N[i].hop + 1

BudgetIn(r) ==
    Len(r.items) <= Larger(req.max_syms, 1 + Cardinality({n \in ToSet(r.items) : n.hop = 0}))

FlagIn(r) == r.truncated <=> /\ Len(r.items) >= req.max_syms
                             /\ \E i \in DOMAIN r.items : r.items[i].hop # 0

ForestOk(r) == SoundIn(r) /\ ClosedIn(r) /\ BudgetIn(r) /\ FlagIn(r)

\* The nodes of a walk make a sound forest.
LEMMA SoundRight ==
    ASSUME Typed, GatheredOf(out), NEW w, Steady(w), NEW r, r.items = w.nodes
    PROVE  SoundIn(r)
<1> DEFINE N == w.nodes
           L == Len(w.nodes)
<1>1. NodesOk(w) /\ DOMAIN N = 1..L /\ L \in Nat
  BY ListSet DEF Steady, NodesOk
<1>2. ToSet(out) \subseteq Asked /\ req.depth \in Nat
  BY DEF GatheredOf, Typed, IsRequest
<1>3. ASSUME NEW i \in 1..L
      PROVE  /\ \A j \in 1..L : N[i].key = N[j].key => i = j
             /\ Pass(N[i].sym)
             /\ N[i].hop <= req.depth
  <2>1. N[i].hop \in Nat /\ N[i].hop <= w.hop /\ w.hop \in Nat /\ w.hop <= req.depth
    BY <1>1 DEF NodesOk, NodeOk
  <2>2. N[i].hop <= req.depth
    BY <1>2, <2>1
  <2> QED BY <1>1, <2>2 DEF NodesOk, NodeOk
<1>4. ASSUME NEW i \in 1..L
      PROVE  IF N[i].parent = 0 THEN N[i].hop = 0 /\ N[i].sym \in Asked /\ DefIn(N[i].sym)
             ELSE /\ N[i].parent < i
                  /\ N[i].hop = N[N[i].parent].hop + 1
                  /\ N[i].dir \in Directions
                  /\ N[i].sym \in Targets(Copies(N[N[i].parent].sym), N[i].dir)
  <2>1. IF N[i].parent = 0 THEN RootOk(N[i]) ELSE N[i].parent < i /\ HangsOk(N[i], N[N[i].parent])
    BY <1>1 DEF NodesOk
  <2>2. CASE N[i].parent = 0
    BY <1>2, <2>1, <2>2 DEF RootOk
  <2>3. CASE N[i].parent # 0
    BY <2>1, <2>3 DEF HangsOk
  <2> QED BY <2>2, <2>3
<1> QED BY <1>1, <1>3, <1>4 DEF SoundIn

\* The nodes of a walk that ended make a closed one.
LEMMA ClosedRight ==
    ASSUME Typed, GatheredOf(out), req.verb \in WalkVerbs, NEW w, WalkOk(w),
           w.edges = <<>>, w.frontier = <<>>, LastHop(w), NEW r, r.items = w.nodes
    PROVE  ClosedIn(r)
<1> DEFINE N == w.nodes
           L == Len(w.nodes)
<1>1. NodesOk(w) /\ PlacesOk(w) /\ ClosedOk(w) /\ DOMAIN N = 1..L /\ L \in Nat
  BY ListSet DEF WalkOk, Steady, NodesOk
<1>2. ToSet(<<>>) = {} /\ Len(<<>>) = 0
  BY ElementsOf
<1>3. \A i \in 1..L : N[i].sym \in Sym /\ N[i].hop \in Nat /\ N[i].hop <= w.hop
  BY <1>1 DEF NodesOk, NodeOk
<1>4. w.hop \in Nat /\ req.depth \in Nat
  BY <1>1 DEF NodesOk, Typed, IsRequest
<1>5. ASSUME NEW i \in 1..L, N[i].hop < req.depth, NEW dir \in Directions,
             NEW t \in Targets(SameName(N[i].sym), dir), Pass(t)
      PROVE  \E j \in 1..L : N[j].key = KeyOf(t) /\ N[j].hop <= N[i].hop + 1
  <2>1. N[i].hop < w.hop
    <3>1. CASE w.next = <<>>
      <4>1. N[i].hop # w.hop
        BY <1>1, <1>2, <3>1 DEF PlacesOk
      <4> QED BY <1>3, <1>4, <4>1
    <3>2. CASE w.hop >= req.depth
      BY <1>3, <1>4, <1>5, <3>2
    <3> QED BY <3>1, <3>2 DEF LastHop
  <2>2. ClosedAt(w, i) /\ i \notin ToSet(w.frontier)
    BY <1>1, <1>2, <2>1 DEF ClosedOk
  <2>3. \A x : ~Pending(w, i, x)
    BY <1>2 DEF Pending
  <2>4. dir \in {"up", "down"} /\ N[i].sym \in Sym
    BY <1>3 DEF Directions
  <2>5. t \in Targets(dup_syms(N[i].sym), dir)
    BY <1>5, <2>4, ReachFound
  <2>6. Covered(w, t, N[i].hop + 1)
    BY <1>5, <2>2, <2>3, <2>5 DEF ClosedAt
  <2> QED BY <2>6 DEF Covered
<1> QED BY <1>1, <1>5 DEF ClosedIn

\* Lists without a repetition.
LEMMA NodesDistinct ==
    ASSUME NEW w, NodesOk(w)
    PROVE  Cardinality(ToSet(w.nodes)) = Len(w.nodes) /\ IsFiniteSet(ToSet(w.nodes))
<1>1. PICK V : w.nodes \in Seq(V)
  BY DEF NodesOk, AList
<1>2. Distinct(w.nodes)
  BY DEF NodesOk, Distinct
<1> QED BY <1>1, <1>2, DistinctCount

\* At most one node more than the roots, or the budget.
LEMMA BudgetRight ==
    ASSUME Typed, NEW w, WalkOk(w), NEW u, Steady(u), Grown(w, u), NEW r, r.items = u.nodes
    PROVE  BudgetIn(r)
<1> DEFINE m == req.max_syms
           L == Len(w.nodes)
           R == {n \in ToSet(u.nodes) : n.hop = 0}
<1>1. NodesOk(w) /\ NodesOk(u) /\ BudgetOk(w) /\ m \in Nat
  BY DEF WalkOk, Steady, Typed, IsRequest
<1>2. L \in Nat /\ ToSet(w.nodes) = {w.nodes[i] : i \in 1..L} /\ ToSet(u.nodes) = {u.nodes[i] : i \in 1..Len(u.nodes)}
  BY <1>1, ListSet DEF NodesOk
<1>3. Len(u.nodes) \in {L, L + 1} /\ \A i \in 1..L : u.nodes[i] = w.nodes[i]
  BY DEF Grown
<1>4. IsFiniteSet(R) /\ Cardinality(R) \in Nat
  <2>1. IsFiniteSet(ToSet(u.nodes)) /\ R \in SUBSET ToSet(u.nodes)
    BY <1>1, NodesDistinct
  <2> HIDE DEF R
  <2>2. IsFiniteSet(R)
    BY <2>1, FS_Subset
  <2> QED BY <2>2, FS_CardinalityType
<1>5. CASE \A i \in 1..L : w.nodes[i].hop = 0
  <2>1. ToSet(w.nodes) \in SUBSET R
    <3>1. \A i \in 1..L : i \in 1..Len(u.nodes) /\ u.nodes[i] = w.nodes[i] /\ u.nodes[i].hop = 0
      BY <1>2, <1>3, <1>5
    <3> QED BY <1>2, <3>1
  <2>2. Cardinality(ToSet(w.nodes)) = L
    BY <1>1, NodesDistinct
  <2> HIDE DEF R
  <2>3. L <= Cardinality(R)
    BY <1>4, <2>1, <2>2, FS_Subset
  <2>4. Len(u.nodes) <= 1 + Cardinality(R)
    BY <1>2, <1>3, <1>4, <2>3
  <2>5. Len(u.nodes) <= Larger(m, 1 + Cardinality(R))
    BY <1>1, <1>2, <1>3, <1>4, <2>4 DEF Larger
  <2> QED BY <2>5 DEF BudgetIn, R
<1>6. CASE L < m
  <2> HIDE DEF R
  <2>1. Len(u.nodes) <= Larger(m, 1 + Cardinality(R))
    BY <1>1, <1>2, <1>3, <1>4, <1>6 DEF Larger
  <2> QED BY <2>1 DEF BudgetIn, R
<1> QED BY <1>1, <1>5, <1>6 DEF BudgetOk

\* A walk that stops has just admitted a node that is no root.
LEMMA StoppedFlag ==
    ASSUME Typed, NEW w, WalkOk(w), w.edges # <<>>, NEW u, Steady(u), Grown(w, u),
           Len(u.nodes) > Len(w.nodes), BudgetSpent(Len(u.nodes)),
           NEW r, r.items = u.nodes, r.truncated
    PROVE  FlagIn(r)
<1>1. NodesOk(w) /\ NodesOk(u) /\ EdgesOk(w)
  BY DEF WalkOk, Steady
<1>2. /\ Len(w.nodes) \in Nat /\ Len(u.nodes) \in Nat /\ DOMAIN u.nodes = 1..Len(u.nodes)
  BY <1>1, ListSet DEF NodesOk
<1>3. 1 \in 1..Len(w.edges)
  <2>1. AList(w.edges)
    BY <1>1 DEF EdgesOk
  <2> QED BY <2>1 DEF AList
<1>4. EdgeOk(w, w.edges[1])
  BY <1>1, <1>3 DEF EdgesOk
<1>5. PICK k \in 1..Len(w.nodes) : w.hop = w.nodes[k].hop + 1
  BY <1>4 DEF EdgeOk
<1>6. w.nodes[k].hop \in Nat
  BY <1>1, <1>5 DEF NodesOk, NodeOk
<1>7. w.hop # 0
  BY <1>5, <1>6
<1>8. Len(u.nodes) = Len(w.nodes) + 1 /\ u.nodes[Len(w.nodes) + 1].hop = w.hop
  BY <1>2 DEF Grown
<1>9. Len(w.nodes) + 1 \in DOMAIN u.nodes
  BY <1>2, <1>8
<1> QED BY <1>7, <1>8, <1>9 DEF FlagIn, BudgetSpent

\* A walk that ends has room left, or has only roots.
LEMMA EndedFlag ==
    ASSUME Typed, NEW w, WalkOk(w), NEW r, r.items = w.nodes, ~r.truncated
    PROVE  FlagIn(r)
<1>1. NodesOk(w) /\ BudgetOk(w) /\ req.max_syms \in Nat
  BY DEF WalkOk, Steady, Typed, IsRequest
<1>2. Len(w.nodes) \in Nat /\ DOMAIN w.nodes = 1..Len(w.nodes)
  BY <1>1, ListSet DEF NodesOk
<1> QED BY <1>1, <1>2 DEF FlagIn, BudgetOk

-----------------------------------------------------------------------------
(* The steps.                                                              *)

\* What the tables say of a walk does not change.
LEMMA SameTables ==
    ASSUME db' = db, req' = req, names' = names, out' = out
    PROVE  /\ \A x : Copies(x)' = Copies(x) /\ dup_syms(x)' = dup_syms(x) /\ SameName(x)' = SameName(x)
           /\ Directions' = Directions
           /\ \A x, d : Targets(Copies(x), d)' = Targets(Copies(x), d)
           /\ \A x, d : Targets(dup_syms(x), d)' = Targets(dup_syms(x), d)
           /\ \A x, d : Targets(SameName(x), d)' = Targets(SameName(x), d)
<1>1. \A x : name_of(x)' = name_of(x) /\ KeyOf(x)' = KeyOf(x)
  BY SameSymbols
<1>2. \A x : Copies(x)' = Copies(x)
  BY <1>1 DEF Copies
<1>3. \A x : syms_for_name(names, name_of(x))' = syms_for_name(names, name_of(x))
  BY <1>1, Zenon
<1>4. \A x : dup_syms(x)' = dup_syms(x)
  BY <1>1, <1>3 DEF dup_syms
<1>5. \A x : SameName(x)' = SameName(x)
  BY <1>1 DEF SameName
<1>6. Directions' = Directions
  BY DEF Directions
<1>7. \A d : EdgeTable(d)' = EdgeTable(d)
  BY DEF EdgeTable
<1>8. \A x, d : Targets(Copies(x), d)' = Targets(Copies(x), d)
  BY <1>2, <1>7 DEF Targets
<1>9. \A x, d : Targets(dup_syms(x), d)' = Targets(dup_syms(x), d)
  BY <1>4, <1>7 DEF Targets
<1>10. \A x, d : Targets(SameName(x), d)' = Targets(SameName(x), d)
  BY <1>5, <1>7 DEF Targets
<1> QED BY <1>2, <1>4, <1>5, <1>6, <1>8, <1>9, <1>10

\* So a walk that is right stays right.
LEMMA SameWalk ==
    ASSUME db' = db, req' = req, names' = names, out' = out
    PROVE  \A w : WalkOk(w)' <=> WalkOk(w)
<1>1. /\ \A x : KeyOf(x)' = KeyOf(x) /\ (Pass(x)' <=> Pass(x)) /\ (DefIn(x)' <=> DefIn(x))
  BY SameSymbols
<1>2. /\ Directions' = Directions
      /\ \A x, d : Targets(Copies(x), d)' = Targets(Copies(x), d)
      /\ \A x, d : Targets(dup_syms(x), d)' = Targets(dup_syms(x), d)
  BY SameTables
<1>3. \A n : (RootOk(n)' <=> RootOk(n)) /\ (NodeOk(n)' <=> NodeOk(n))
  BY <1>1 DEF RootOk, NodeOk
<1>4. \A n, p : HangsOk(n, p)' <=> HangsOk(n, p)
  BY <1>2 DEF HangsOk
<1>5. \A w : NodesOk(w)' <=> NodesOk(w)
  BY <1>3, <1>4 DEF NodesOk
<1>6. \A w, t, h : Covered(w, t, h)' <=> Covered(w, t, h)
  BY <1>1 DEF Covered
<1>7. \A w : SeenOk(w)' <=> SeenOk(w)
  BY <1>6 DEF SeenOk
<1>8. \A w : Steady(w)' <=> Steady(w)
  BY <1>5, <1>7 DEF Steady
<1>9. \A w, e : EdgeOk(w, e)' <=> EdgeOk(w, e)
  BY <1>2 DEF EdgeOk
<1>10. \A w : EdgesOk(w)' <=> EdgesOk(w)
  BY <1>9 DEF EdgesOk
<1>11. \A w, i : ClosedAt(w, i)' <=> ClosedAt(w, i)
  BY <1>1, <1>2, <1>6 DEF ClosedAt
<1>12. \A w : ClosedOk(w)' <=> ClosedOk(w)
  BY <1>11 DEF ClosedOk
<1>13. \A w : BudgetOk(w)' <=> BudgetOk(w)
  BY DEF BudgetOk
<1> QED BY <1>8, <1>10, <1>12, <1>13 DEF WalkOk

\* And so does a reply.
LEMMA SameForest ==
    ASSUME Kept
    PROVE  \A r : ForestOk(r)' <=> ForestOk(r)
<1>0. db' = db /\ req' = req /\ names' = names /\ out' = out
  BY DEF Kept
<1>1. /\ \A x : KeyOf(x)' = KeyOf(x) /\ (Pass(x)' <=> Pass(x)) /\ (DefIn(x)' <=> DefIn(x))
  BY <1>0, SameSymbols
<1>2. /\ Directions' = Directions
      /\ \A x, d : Targets(Copies(x), d)' = Targets(Copies(x), d)
      /\ \A x, d : Targets(SameName(x), d)' = Targets(SameName(x), d)
  BY <1>0, SameTables
<1>3. Asked' = Asked
  <2>1. UNCHANGED <<names, query, scan, req>>
    BY DEF Kept
  <2> QED BY <2>1, SameAsked
<1>4. \A r : SoundIn(r)' <=> SoundIn(r)
  BY <1>0, <1>1, <1>2, <1>3 DEF SoundIn
<1>5. \A r : ClosedIn(r)' <=> ClosedIn(r)
  BY <1>0, <1>1, <1>2 DEF ClosedIn
<1>6. \A r : BudgetIn(r)' <=> BudgetIn(r)
  BY <1>0 DEF BudgetIn
<1>7. \A r : FlagIn(r)' <=> FlagIn(r)
  BY <1>0 DEF FlagIn
<1> QED BY <1>4, <1>5, <1>6, <1>7 DEF ForestOk

\* The walk and its reply.
Foresting ==
    /\ pc = "walk" => WalkOk(walk)
    /\ Replied(WalkVerbs) => ForestOk(reply)

\* A step that starts or goes on with a walk.
LEMMA WalkGoesOn ==
    ASSUME Kept, reply' = NoReply, NEW v, v = walk', WalkOk(v)
    PROVE  Foresting'
<1>1. db' = db /\ req' = req /\ names' = names /\ out' = out
  BY DEF Kept
<1>2. WalkOk(v)'
  BY <1>1, SameWalk
<1>3. WalkOk(walk)'
  BY <1>2, Zenon
<1>4. ~Replied(WalkVerbs)'
  BY DEF Replied, NoReply
<1> QED BY <1>3, <1>4, Zenon DEF Foresting

\* A step that replies.
LEMMA WalkReplies ==
    ASSUME Kept, pc' = "replied", NEW r, r = reply', ForestOk(r)
    PROVE  Foresting'
<1>1. ForestOk(r)'
  BY SameForest
<1>2. ForestOk(reply)'
  BY <1>1, Zenon
<1> QED BY <1>2, Zenon DEF Foresting

\* Every step keeps it.
LEMMA NextForest ==
    ASSUME Searched, Foresting, [Next]_vars
    PROVE  Foresting'
<1>0. Typed /\ ScanWalk /\ TrigramWalk /\ Gathering /\ Answering
  BY DEF Searched
<1>1. ASSUME pc' # "walk", reply' = NoReply PROVE Foresting'
  BY <1>1 DEF Foresting, Replied, NoReply
<1>2. CASE Search
  <2>1. pc # "replied" /\ pc' # "walk" /\ reply' = reply
    <3>1. reply' = reply
      BY <1>2 DEF Search, queryVars
    <3>2. CASE StartTrigram
      BY <3>1, <3>2 DEF StartTrigram
    <3>3. CASE Probe
      BY <3>1, <3>3 DEF Probe
    <3>4. CASE StartLinear
      BY <3>1, <3>4 DEF StartLinear
    <3>5. ASSUME NEW t \in 1..Cores, ScanRow(t) PROVE pc # "replied" /\ pc' # "walk"
      BY <3>5 DEF ScanRow
    <3>6. CASE Join
      BY <3>1, <3>6 DEF Join
    <3>7. CASE StartEmpty
      BY <3>1, <3>7 DEF StartEmpty
    <3> QED BY <1>2, <3>1, <3>2, <3>3, <3>4, <3>5, <3>6, <3>7 DEF Search, SearchNext
  <2> QED BY <1>0, <1>1, <2>1 DEF Answering
<1>3. CASE Exact
  <2>1. pc # "replied" /\ pc' # "walk" /\ reply' = reply
    BY <1>3 DEF Exact, queryVars
  <2> QED BY <1>0, <1>1, <2>1 DEF Answering
<1>4. CASE dispatch
  <2>1. pc' = "replied" /\ req' = req /\ req.verb \notin WalkVerbs
    BY <1>4 DEF dispatch, SendReply
  <2>2. ~Replied(WalkVerbs)'
    BY <2>1 DEF Replied
  <2> QED BY <2>1, <2>2, Zenon DEF Foresting
<1>5. CASE Seed
  <2>1. Kept /\ pc \in {"done", "resolved"} /\ reply' = reply
    BY <1>5 DEF Seed, Resolved, Kept
  <2>2. GatheredOf(out)
    <3>1. CASE pc = "done"
      BY <1>0, <3>1, DoneGathered
    <3>2. CASE pc = "resolved"
      BY <1>0, <3>2 DEF Gathering
    <3> QED BY <2>1, <3>1, <3>2
  <2>3. PICK v : v = walk'
    OBVIOUS
  <2>4. v = FoldLeft(AdmitRoot, FreshWalk, Keep(out, {s \in ToSet(out) : DefIn(s) /\ Pass(s)}))
    BY <1>5, <2>3, Zenon DEF Seed
  <2>5. Rooted(v)
    BY <1>0, <2>2, <2>4, SeedOk, Zenon
  <2>6. WalkOk(v)
    BY <2>5, RootedOk
  <2>7. reply' = NoReply
    BY <1>0, <2>1 DEF Answering
  <2> QED BY <2>1, <2>3, <2>6, <2>7, WalkGoesOn
<1>6. ASSUME pc = "walk"
      PROVE  WalkOk(walk) /\ GatheredOf(out) /\ req.verb \in WalkVerbs /\ reply = NoReply
  BY <1>0, <1>6 DEF Foresting, Gathering, Answering
<1>7. CASE Expand
  <2>1. Kept /\ pc = "walk" /\ reply' = reply
    BY <1>7 DEF Expand, WalkStep, searchVars, Kept
  <2>2. PICK v : v = walk'
    OBVIOUS
  <2>3. PICK id : id = Head(walk.frontier)
    OBVIOUS
  <2>4. /\ walk.edges = <<>> /\ walk.frontier # <<>>
        /\ v = [nodes |-> walk.nodes, seen |-> walk.seen, frontier |-> Tail(walk.frontier),
                edges |-> Neighbours(id, "up") \o Neighbours(id, "down"),
                next |-> walk.next, hop |-> walk.hop]
    BY <1>7, <2>2, <2>3, Zenon DEF Expand
  <2>5. WalkOk(v)
    BY <1>0, <1>6, <2>1, <2>3, <2>4, ExpandOk
  <2> QED BY <1>6, <2>1, <2>2, <2>5, WalkGoesOn
<1>8. CASE NextHop
  <2>1. Kept /\ pc = "walk" /\ reply' = reply
    BY <1>8 DEF NextHop, WalkStep, searchVars, Kept
  <2>2. PICK v : v = walk'
    OBVIOUS
  <2>3. PICK w : w = walk
    OBVIOUS
  <2>4. /\ w.edges = <<>> /\ w.frontier = <<>> /\ ~LastHop(w)
        /\ v = [nodes |-> w.nodes, seen |-> w.seen, frontier |-> w.next,
                edges |-> <<>>, next |-> <<>>, hop |-> w.hop + 1]
    BY <1>8, <2>2, <2>3 DEF NextHop, HopDone
  <2>5. WalkOk(v)
    BY <1>0, <1>6, <2>1, <2>3, <2>4, NextHopOk
  <2> QED BY <1>6, <2>1, <2>2, <2>5, WalkGoesOn
<1>9. CASE Follow
  <2>1. PICK w : w = walk
    OBVIOUS
  <2>2. PICK u : u = Followed(w)
    OBVIOUS
  <2>3. PICK v : v = walk'
    OBVIOUS
  <2>4. /\ pc = "walk" /\ w.edges # <<>> /\ v = [u EXCEPT !.edges = Tail(@)]
        /\ IF Len(u.nodes) > Len(w.nodes) /\ BudgetSpent(Len(u.nodes))
           THEN SendReply([items |-> u.nodes, truncated |-> TRUE])
           ELSE UNCHANGED <<searchVars, db, req, reply>>
    BY <1>9, <2>1, <2>2, <2>3, Zenon DEF Follow, Followed
  <2>5. WalkOk(w) /\ WalkOk(walk)
    BY <1>6, <2>1, <2>4
  <2>6. /\ Steady(u) /\ Grown(w, u) /\ v.nodes = u.nodes
        /\ Steady(v) /\ EdgesOk(v) /\ ClosedOk(v)
    BY <2>2, <2>4, <2>5, FollowOk
  <2>7. CASE Len(u.nodes) > Len(w.nodes) /\ BudgetSpent(Len(u.nodes))
    <3>1. PICK r : r = [items |-> u.nodes, truncated |-> TRUE]
      OBVIOUS
    <3>2. r.items = u.nodes /\ r.truncated
      BY <3>1
    <3>3. SendReply(r)
      BY <2>4, <2>7, <3>1
    <3>4. Kept /\ pc' = "replied" /\ reply' = r
      BY <3>3 DEF SendReply, Kept
    <3>5. SoundIn(r)
      BY <1>0, <1>6, <2>4, <2>6, <3>2, SoundRight
    <3>6. ClosedIn(r)
      BY <3>2 DEF ClosedIn
    <3>7. BudgetIn(r)
      BY <1>0, <2>5, <2>6, <3>2, BudgetRight
    <3>8. FlagIn(r)
      BY <1>0, <2>4, <2>5, <2>6, <2>7, <3>2, StoppedFlag
    <3> QED BY <3>4, <3>5, <3>6, <3>7, <3>8, WalkReplies DEF ForestOk
  <2>8. CASE ~(Len(u.nodes) > Len(w.nodes) /\ BudgetSpent(Len(u.nodes)))
    <3>1. UNCHANGED <<searchVars, db, req, reply>>
      BY <2>4, <2>8
    <3>2. Kept /\ reply' = reply
      BY <3>1 DEF searchVars, Kept
    <3>3. BudgetOk(v)
      <4>1. /\ Len(u.nodes) \in {Len(w.nodes), Len(w.nodes) + 1}
            /\ \A i \in 1..Len(w.nodes) : u.nodes[i] = w.nodes[i]
        BY <2>6 DEF Grown
      <4>2. Len(w.nodes) \in Nat /\ req.max_syms \in Nat
        BY <1>0, <2>5, ListSet DEF WalkOk, Steady, NodesOk, Typed, IsRequest
      <4>3. BudgetOk(w)
        BY <2>5 DEF WalkOk
      <4>4. CASE Len(u.nodes) = Len(w.nodes)
        BY <2>6, <4>1, <4>3, <4>4 DEF BudgetOk
      <4>5. CASE Len(u.nodes) = Len(w.nodes) + 1
        <5>1. Len(u.nodes) < req.max_syms
          BY <2>8, <4>2, <4>5 DEF BudgetSpent
        <5> QED BY <2>6, <5>1 DEF BudgetOk
      <4> QED BY <4>1, <4>4, <4>5
    <3>4. WalkOk(v)
      BY <2>6, <3>3 DEF WalkOk
    <3>5. reply' = NoReply
      BY <1>6, <2>4, <3>2
    <3> QED BY <2>3, <3>2, <3>4, <3>5, WalkGoesOn
  <2> QED BY <2>7, <2>8
<1>10. CASE EndWalk
  <2>1. PICK w : w = walk
    OBVIOUS
  <2>2. PICK r : r = [items |-> w.nodes, truncated |-> FALSE]
    OBVIOUS
  <2>3. r.items = w.nodes
    BY <2>2
  <2>4. pc = "walk" /\ w.edges = <<>> /\ w.frontier = <<>> /\ LastHop(w) /\ SendReply(r)
    BY <1>10, <2>1, <2>2 DEF EndWalk, HopDone
  <2>5. Kept /\ pc' = "replied" /\ reply' = r
    BY <2>4 DEF SendReply, Kept
  <2>6. WalkOk(w) /\ Steady(w) /\ GatheredOf(out) /\ req.verb \in WalkVerbs
    BY <1>6, <2>1, <2>4 DEF WalkOk
  <2>7. Grown(w, w)
    <3>1. Len(w.nodes) \in Nat
      BY <2>6, ListSet DEF Steady, NodesOk
    <3> QED BY <3>1 DEF Grown
  <2>8. SoundIn(r)
    BY <1>0, <2>3, <2>6, SoundRight
  <2>9. ClosedIn(r)
    BY <1>0, <2>3, <2>4, <2>6, ClosedRight
  <2>10. BudgetIn(r)
    BY <1>0, <2>3, <2>6, <2>7, BudgetRight
  <2>11. ~r.truncated
    BY <2>2
  <2>12. FlagIn(r)
    BY <1>0, <2>3, <2>6, <2>11, EndedFlag
  <2> QED BY <2>5, <2>8, <2>9, <2>10, <2>12, WalkReplies DEF ForestOk
<1>11. CASE UNCHANGED vars
  <2>1. Kept /\ pc' = pc /\ reply' = reply /\ walk' = walk /\ req' = req
    BY <1>11 DEF vars, searchVars, Kept
  <2>2. PICK r : r = reply
    OBVIOUS
  <2>3. PICK v : v = walk
    OBVIOUS
  <2>4. CASE Replied(WalkVerbs)
    <3>1. ForestOk(r) /\ reply # NoReply
      BY <2>2, <2>4 DEF Foresting, Replied
    <3>2. pc = "replied"
      BY <1>0, <3>1 DEF Answering
    <3> QED BY <2>1, <2>2, <3>1, <3>2, WalkReplies
  <2>5. CASE ~Replied(WalkVerbs)
    <3>1. ~Replied(WalkVerbs)'
      BY <2>1, <2>5 DEF Replied
    <3>2. CASE pc = "walk"
      <4>1. WalkOk(v) /\ reply' = NoReply
        BY <1>6, <2>1, <2>3, <3>2
      <4> QED BY <2>1, <2>3, <4>1, WalkGoesOn
    <3>3. CASE pc # "walk"
      BY <2>1, <3>1, <3>3, Zenon DEF Foresting
    <3> QED BY <3>2, <3>3
  <2> QED BY <2>4, <2>5
<1> QED BY <1>2, <1>3, <1>4, <1>5, <1>7, <1>8, <1>9, <1>10, <1>11 DEF Next

\* It holds always.
LEMMA ForestAlways == Spec => []Foresting
<1>1. Init => Foresting
  <2> SUFFICES ASSUME Init PROVE Foresting
    OBVIOUS
  <2>1. reply = NoReply /\ pc # "walk"
    BY DEF Init
  <2> QED BY <2>1 DEF Foresting, Replied
<1>2. Searched /\ Foresting /\ [Next]_vars => Foresting'
  BY NextForest
<1> QED BY <1>1, <1>2, SearchedAlways, PTL DEF Spec

\* For every index and every request, the forest of a callgraph or an
\* inheritance reply (server.rs) has one node for each logical element; a
\* root is a symbol asked for, every other node hangs under an earlier one
\* that is one hop nearer and has the edge on some copy, and all pass the
\* filters and lie within the depth.
THEOREM ForestIsSound == Spec => []ForestSound
<1>1. Foresting => ForestSound
  BY Zenon DEF Foresting, ForestOk, SoundIn, ForestSound
<1> QED BY <1>1, ForestAlways, PTL

\* For every index and every request, a forest that is not flagged as
\* truncated is closed up to the depth asked: whatever a node of a lower hop
\* reaches on any copy with its name is a node, at most one hop further.
THEOREM ForestIsClosed == Spec => []ForestClosed
<1>1. Foresting => ForestClosed
  BY Zenon DEF Foresting, ForestOk, ClosedIn, ForestClosed
<1> QED BY <1>1, ForestAlways, PTL

\* server.rs do_callgraph, do_inheritance: for every index and every request, a
\* forest has at most max_syms nodes or one more than its roots, and is called
\* truncated exactly when a node that is no root has filled the budget.
THEOREM BudgetIsKept == Spec => []BudgetKept
<1>1. Foresting => BudgetKept
  BY Zenon DEF Foresting, ForestOk, BudgetIn, FlagIn, BudgetKept
<1> QED BY <1>1, ForestAlways, PTL
=============================================================================
