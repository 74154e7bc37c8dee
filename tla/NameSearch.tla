----------------------------- MODULE NameSearch -----------------------------
(***************************************************************************)
(* Substring search over the name table (reader.rs) and the trigram index  *)
(* it uses (build_trigram_index in writer.rs).                             *)
(*                                                                         *)
(* The builder splits the ascending row ids of a trigram into blocks,      *)
(* stores each block as variable-length gaps and puts a skip table in      *)
(* front.  A query decodes the shortest list and, for each id in it,       *)
(* probes the other lists through their skip tables with cursors that only *)
(* move forward.  Short needles are searched by a scan that several        *)
(* threads share.  The module is the part of Query that resolves a name    *)
(* given as a substring.                                                   *)
(*                                                                         *)
(* Strings are sequences of byte values.  Row ids, block numbers and       *)
(* offsets start at 0, as in the code; a skip entry takes SKIP_ENTRY cells *)
(* of the postings, and a byte of a gap one cell.                          *)
(***************************************************************************)
EXTENDS SortedRows, Lists

CONSTANTS
    TRIGRAM_BLOCK,  \* ids per block (128)
    VARINT_BASE,    \* values per byte of a gap (128)
    Cores           \* available_parallelism

ASSUME SearchAssumption ==
    /\ TRIGRAM_BLOCK \in Nat \ {0} /\ Cores \in Nat \ {0}
    /\ VARINT_BASE \in Nat /\ VARINT_BASE >= 2

VARIABLES
    names,          \* the name table in file order
    ix,             \* [dict, post]: the trigram index over it
    query,          \* [needle, limit, ignore_case]
    pc,             \* "start", "probe", "scan" or "done", and Query's own
    todo,           \* probe: driver ids not tried yet
    others,         \* probe: descriptors of the other lists
    cursor,         \* probe: per other list, the block to resume from
    scan,           \* scan: per thread [at, hi, local]
    out             \* the symbols found

searchVars == <<names, ix, query, pc, todo, others, cursor, scan, out>>

SKIP_ENTRY == 2

-----------------------------------------------------------------------------
(* Strings.                                                                *)

NameLess(r, q) == StrLess(r[1], q[1]) \/ (r[1] = q[1] /\ r[2] < q[2])

Lower(s) == [i \in DOMAIN s |-> IF s[i] \in 65..90 THEN s[i] + 32 ELSE s[i]]

HasSubstring(s, t) == \E i \in 0..(Len(s) - Len(t)) : SubSeq(s, i + 1, i + Len(t)) = t

Windows(s) == [i \in 1..(Len(s) - 2) |-> SubSeq(s, i, i + 2)]

DropRepeats(s) ==
    FoldLeft(LAMBDA acc, x : IF acc # <<>> /\ Last(acc) = x THEN acc ELSE Append(acc, x),
             <<>>, s)

div_ceil(a, b) == (a + b - 1) \div b

-----------------------------------------------------------------------------
(* The builder: a pass that sizes the region of every trigram, then a pass *)
(* that writes skip tables and blocks into the regions.                    *)

(* The (trigram, row id) pairs in the order both passes see them.          *)
visit(table) ==
    FlattenSeq([r \in DOMAIN table |->
        LET w == DropRepeats(Windows(Lower(table[r][1])))
        IN  [i \in DOMAIN w |-> <<w[i], r - 1>>]])

varint_len(v) ==
    LET n[x \in 0..v] == IF x < VARINT_BASE THEN 1 ELSE 1 + n[x \div VARINT_BASE]
    IN  n[v]

(* A byte is the digit, plus VARINT_BASE when more bytes follow.           *)
write_varint(v) ==
    LET e[x \in 0..v] ==
            IF x < VARINT_BASE THEN <<x>>
            ELSE <<VARINT_BASE + (x % VARINT_BASE)>> \o e[x \div VARINT_BASE]
    IN  e[v]

(* Mutant: the sizing does not restart the gaps at a block boundary.       *)
SizedGapNoReset(a, id) == IF a.count = 0 THEN id ELSE id - a.last

SizedGap(a, id) == IF a.count % TRIGRAM_BLOCK = 0 THEN id ELSE id - a.last

(* Pass 1, one pair: count, bytes of the packed blocks, last id.           *)
SizeOne(acc, e) ==
    LET t == e[1]
        a == IF t \in DOMAIN acc THEN acc[t] ELSE [count |-> 0, bytes |-> 0, last |-> -1]
    IN  IF a.count # 0 /\ a.last = e[2] THEN acc
        ELSE [x \in DOMAIN acc \cup {t} |->
                IF x # t THEN acc[x]
                ELSE [count |-> a.count + 1, last |-> e[2],
                      bytes |-> a.bytes + varint_len(SizedGap(a, e[2]))]]

(* The dictionary: regions laid out in trigram order.                      *)
EmitOne(acc, d, t) ==
    LET off == IF d = <<>> THEN 0 ELSE Last(d).off + Last(d).len
    IN  Append(d, [tri |-> t, off |-> off, count |-> acc[t].count,
                   len |-> div_ceil(acc[t].count, TRIGRAM_BLOCK) * SKIP_ENTRY + acc[t].bytes])

EmitDict(acc) == FoldLeft(LAMBDA d, t : EmitOne(acc, d, t), <<>>, InOrder(DOMAIN acc, StrLess))

(* Put the cells of s at offset at.                                        *)
Put(post, at, s) == [k \in DOMAIN post \cup (at + 1)..(at + Len(s)) |->
                        IF k \in (at + 1)..(at + Len(s)) THEN s[k - at] ELSE post[k]]

(* Pass 2, one pair; st is [post, w], w the write state per trigram.       *)
WriteOne(dict, st, e) ==
    LET p     == dict[CHOOSE i \in DOMAIN dict : dict[i].tri = e[1]]
        w     == IF e[1] \in DOMAIN st.w THEN st.w[e[1]]
                 ELSE [written |-> 0, last |-> -1,
                       at |-> p.off + div_ceil(p.count, TRIGRAM_BLOCK) * SKIP_ENTRY]
        start == w.written % TRIGRAM_BLOCK = 0
        entry == p.off + (w.written \div TRIGRAM_BLOCK) * SKIP_ENTRY
        bytes == write_varint(IF start THEN e[2] ELSE e[2] - w.last)
        post1 == IF start THEN Put(st.post, entry + 1, <<w.at - p.off>>) ELSE st.post
        post2 == Put(Put(post1, w.at, bytes), entry, <<e[2]>>)
        next  == [written |-> w.written + 1, last |-> e[2], at |-> w.at + Len(bytes)]
    IN  IF w.written # 0 /\ w.last = e[2] THEN st
        ELSE [post |-> post2,
              w |-> [t \in DOMAIN st.w \cup {e[1]} |-> IF t = e[1] THEN next ELSE st.w[t]]]

build_trigram_index(table) ==
    LET events == visit(table)
        dict   == EmitDict(FoldLeft(SizeOne, <<>>, events))
        st     == FoldLeft(LAMBDA s, e : WriteOne(dict, s, e), [post |-> <<>>, w |-> <<>>], events)
    IN  [dict |-> dict, post |-> st.post]

-----------------------------------------------------------------------------
(* The reader's side of the index.                                         *)

(* Binary search of the dictionary: the descriptors found, none or one.    *)
trigram_lookup(dict, tri) ==
    LET n == Len(dict)
        f[p \in (0..n) \X (0..n)] ==
            IF p[1] >= p[2] THEN {}
            ELSE LET mid == (p[1] + p[2]) \div 2
                     key == dict[mid + 1].tri
                 IN  IF StrLess(key, tri) THEN f[<<mid + 1, p[2]>>]
                     ELSE IF StrLess(tri, key) THEN f[<<p[1], mid>>] ELSE {dict[mid + 1]}
    IN  f[<<0, n>>]

(* The value and the size of the gap stored at offset pos.                 *)
read_varint(post, pos) ==
    LET n == CHOOSE k \in 1..(Len(post) - pos) :
                 post[pos + k] < VARINT_BASE
                     /\ \A j \in 1..(k - 1) : post[pos + j] >= VARINT_BASE
        v[k \in 0..n] == IF k = n THEN 0
                         ELSE (post[pos + k + 1] % VARINT_BASE) + VARINT_BASE * v[k + 1]
    IN  <<v[0], n>>

(* Ids decoded from offset pos on, at most n of them, none at end or past. *)
DecodeBlock(post, pos, end, n) ==
    LET d[k \in 0..n] ==        \* k ids decoded: <<ids, next offset>>
            IF k = 0 THEN <<<<>>, pos>>
            ELSE LET prev == d[k - 1]
                     g    == read_varint(post, prev[2])
                 IN  IF prev[2] >= end THEN prev
                     ELSE <<Append(prev[1], IF k = 1 THEN g[1] ELSE Last(prev[1]) + g[1]),
                            prev[2] + g[2]>>
    IN  d[n]

(* Every id of a list, block after block.                                  *)
trigram_postings(post, p) ==
    LET n == div_ceil(p.count, TRIGRAM_BLOCK)
        d[b \in 0..n] ==
            IF b = 0 THEN <<<<>>, p.off + n * SKIP_ENTRY>>
            ELSE LET blk == DecodeBlock(post, d[b - 1][2], p.off + p.len,
                                        Smaller(TRIGRAM_BLOCK, p.count - (b - 1) * TRIGRAM_BLOCK))
                 IN  <<d[b - 1][1] \o blk[1], blk[2]>>
    IN  d[n][1]

MaxId(post, p, b)    == post[p.off + b * SKIP_ENTRY + 1]
BlockOff(post, p, b) == post[p.off + b * SKIP_ENTRY + 2]

(* The gallop of trigram_contains: from a block below cand, the last block *)
(* known to be below it and the first one that may not be.                 *)
Bracket(post, p, cand, n, from) ==
    LET g[q \in (0..n) \X (1..(2 * n + 2))] ==      \* <<lo, step>>
            LET hi == q[1] + q[2]
            IN  IF hi < n /\ MaxId(post, p, hi) < cand THEN g[<<hi, 2 * q[2]>>]
                ELSE <<q[1], Smaller(hi, n)>>
    IN  g[<<from, 1>>]

(* Mutant: a block whose largest id is cand is passed over.                *)
NarrowPast(post, p, cand, from, to) ==
    LET s[q \in (0..to) \X (0..to)] ==
            IF q[1] >= q[2] THEN q[1]
            ELSE LET mid == (q[1] + q[2]) \div 2
                 IN  IF MaxId(post, p, mid) <= cand THEN s[<<mid + 1, q[2]>>] ELSE s[<<q[1], mid>>]
    IN  s[<<from, to>>]

(* Binary search between two blocks for the first not below cand.          *)
Narrow(post, p, cand, from, to) ==
    LET s[q \in (0..to) \X (0..to)] ==
            IF q[1] >= q[2] THEN q[1]
            ELSE LET mid == (q[1] + q[2]) \div 2
                 IN  IF MaxId(post, p, mid) < cand THEN s[<<mid + 1, q[2]>>] ELSE s[<<q[1], mid>>]
    IN  s[<<from, to>>]

(* The first block at or after hint whose largest id is not below cand.    *)
FirstBlock(post, p, cand, hint) ==
    LET n == div_ceil(p.count, TRIGRAM_BLOCK)
        k == Smaller(hint, n)
        r == Bracket(post, p, cand, n, k)
    IN  IF k < n /\ MaxId(post, p, k) < cand
        THEN Narrow(post, p, cand, r[1] + 1, r[2]) ELSE k

(* <<found, the block the next probe may start from>>.                     *)
trigram_contains(post, p, cand, hint) ==
    LET n   == div_ceil(p.count, TRIGRAM_BLOCK)
        b   == FirstBlock(post, p, cand, hint)
        end == IF b + 1 < n THEN p.off + BlockOff(post, p, b + 1) ELSE p.off + p.len
        ids == DecodeBlock(post, p.off + BlockOff(post, p, b), end, TRIGRAM_BLOCK)[1]
    IN  IF n = 0 THEN <<FALSE, 0>>
        ELSE IF b >= n THEN <<FALSE, n>>
        ELSE <<cand \in ToSet(ids), b>>

Matches(name) ==
    IF query.ignore_case THEN HasSubstring(Lower(name), Lower(query.needle))
    ELSE HasSubstring(name, query.needle)

-----------------------------------------------------------------------------
SearchInit(table, q) ==
    /\ names = table
    /\ ix = build_trigram_index(table)
    /\ query = q
    /\ todo = <<>> /\ others = <<>> /\ cursor = <<>> /\ scan = <<>> /\ out = <<>>

Grams == ToSet(Windows(Lower(query.needle)))

(* The driver is the first shortest list in trigram order.                 *)
StartTrigram ==
    LET tris  == InOrder(Grams, StrLess)
        posts == [i \in DOMAIN tris |-> trigram_lookup(ix.dict, tris[i])]
        list  == [i \in DOMAIN tris |-> CHOOSE p \in posts[i] : TRUE]
        drv   == CHOOSE i \in DOMAIN tris :
                     /\ \A j \in DOMAIN tris : list[i].count <= list[j].count
                     /\ \A j \in 1..(i - 1) : list[i].count < list[j].count
    IN  /\ pc = "start"
        /\ names # <<>> /\ query.limit # 0
        /\ Len(query.needle) >= 3 /\ ix.dict # <<>>
        /\ IF \E i \in DOMAIN tris : posts[i] = {}
           THEN pc' = "done" /\ UNCHANGED <<todo, others, cursor>>
           ELSE /\ pc' = "probe"
                /\ todo' = trigram_postings(ix.post, list[drv])
                /\ others' = RemoveAt(list, drv)
                /\ cursor' = [i \in 1..(Len(list) - 1) |-> 0]
        /\ UNCHANGED <<names, ix, query, scan, out>>

(* Probe the other lists in turn until one misses: <<in all, cursors>>.    *)
ProbeAll(cand) ==
    LET p[k \in 0..Len(others)] ==
            IF k = 0 THEN <<TRUE, cursor>>
            ELSE LET before == p[k - 1]
                     r == trigram_contains(ix.post, others[k], cand, cursor[k])
                 IN  IF ~before[1] THEN before
                     ELSE <<r[1], [before[2] EXCEPT ![k] = r[2]]>>
    IN  p[Len(others)]

(* One driver candidate.                                                   *)
Probe ==
    /\ pc = "probe"
    /\ todo # <<>>
    /\ LET cand == Head(todo)
           r    == ProbeAll(cand)
           sym  == names[cand + 1][2]
       IN  /\ cursor' = r[2]
           /\ out' = IF r[1] /\ Matches(names[cand + 1][1]) /\ sym \notin ToSet(out)
                     THEN Append(out, sym) ELSE out
    /\ todo' = Tail(todo)
    /\ pc' = IF Len(out') >= query.limit \/ todo' = <<>> THEN "done" ELSE "probe"
    /\ UNCHANGED <<names, ix, query, others, scan>>

(* Mutant: the rows are divided rounding down.                             *)
ChunkRoundedDown(n, threads) == n \div threads

ChunkRows(n, threads) == div_ceil(n, threads)

(* The needle is too short for a trigram, or no name has one: the table is *)
(* split into chunks, one per thread.                                      *)
StartLinear ==
    LET n       == Len(names)
        threads == Smaller(Cores, n)
        chunk   == ChunkRows(n, threads)
    IN  /\ pc = "start"
        /\ query.needle # <<>> /\ names # <<>> /\ query.limit # 0
        /\ Len(query.needle) < 3 \/ ix.dict = <<>>
        /\ scan' = [t \in 1..threads |->
                       [at |-> Smaller((t - 1) * chunk, n), hi |-> Smaller(t * chunk, n),
                        local |-> <<>>]]
        /\ pc' = "scan"
        /\ UNCHANGED <<names, ix, query, todo, others, cursor, out>>

Finished(th) == th.at >= th.hi \/ Len(th.local) >= query.limit

(* One row of one thread's chunk.                                          *)
ScanRow(t) ==
    /\ pc = "scan"
    /\ t \in DOMAIN scan
    /\ ~Finished(scan[t])
    /\ LET row == names[scan[t].at + 1]
       IN  scan' = [scan EXCEPT ![t] = [at |-> @.at + 1, hi |-> @.hi,
                                        local |-> IF Matches(row[1]) THEN Append(@.local, row[2])
                                                  ELSE @.local]]
    /\ UNCHANGED <<names, ix, query, pc, todo, others, cursor, out>>

(* All threads joined: the parts are put together in row order.            *)
Join ==
    /\ pc = "scan"
    /\ \A t \in DOMAIN scan : Finished(scan[t])
    /\ out' = FirstDistinct(FlattenSeq([t \in DOMAIN scan |-> scan[t].local]), query.limit)
    /\ pc' = "done"
    /\ UNCHANGED <<names, ix, query, todo, others, cursor, scan>>

(* An empty needle, an empty table or a limit of 0.                        *)
StartEmpty ==
    /\ pc = "start"
    /\ query.needle = <<>> \/ names = <<>> \/ query.limit = 0
    /\ pc' = "done"
    /\ UNCHANGED <<names, ix, query, todo, others, cursor, scan, out>>

SearchNext ==
    StartTrigram \/ Probe \/ StartLinear \/ (\E t \in 1..Cores : ScanRow(t))
        \/ Join \/ StartEmpty

-----------------------------------------------------------------------------
MatchingRows == Keep(names, {r \in ToSet(names) : Matches(r[1])})

(* The distinct symbols of the matching rows in row order, up to limit:    *)
(* what a serial scan returns.                                             *)
SerialScan ==
    FirstDistinct([i \in DOMAIN MatchingRows |-> MatchingRows[i][2]], query.limit)

(* The trigram path returns exactly what a serial scan of the name table   *)
(* would, in the same order and under the same limit, for both kinds of    *)
(* case handling: the skip tables, the cursors and the case-folded index   *)
(* lose no match and the verification admits no other.                     *)
TrigramIsSerial ==
    pc = "done" /\ scan = <<>> /\ query.needle # <<>> => out = SerialScan

(* The threads' scan returns no symbol twice and none that does not match, *)
(* and, when the limit is at least the number of matching rows, all of     *)
(* them in row order.                                                      *)
ScanSound ==
    pc = "done" /\ scan # <<>> =>
        /\ ToSet(out) \subseteq {r[2] : r \in ToSet(MatchingRows)}
        /\ Cardinality(ToSet(out)) = Len(out)
        /\ Len(MatchingRows) <= query.limit => out = SerialScan

(* The bytes of the index: the second pass fills the regions the first one *)
(* sized, every cell of them and none outside, and each list decodes to    *)
(* the ids of the rows whose lowercased name has the trigram.              *)
RegionsFilled ==
    pc = "start" =>
        /\ DOMAIN ix.post = 1..(IF ix.dict = <<>> THEN 0 ELSE Last(ix.dict).off + Last(ix.dict).len)
        /\ \A p \in ToSet(ix.dict) :
              LET rows == {r \in DOMAIN names : HasSubstring(Lower(names[r][1]), p.tri)}
              IN  /\ p.count = Cardinality(rows)
                  /\ trigram_postings(ix.post, p) = InOrder({r - 1 : r \in rows}, <)
=============================================================================
