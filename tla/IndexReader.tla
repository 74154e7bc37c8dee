---------------------------- MODULE IndexReader ----------------------------
(***************************************************************************)
(* The lookups of an open index (reader.rs).  An index db is the record of *)
(* its sections, each a sequence of rows in file order; every lookup is a  *)
(* binary search of one section.  A row that ends in a string holds it in  *)
(* its last column.                                                        *)
(***************************************************************************)
EXTENDS SortedRows, Lists

CONSTANTS
    MaxSym,         \* the largest symbol id (2^64 - 1)
    MaxRole         \* the largest role byte (255)

RoleDecl == 0
RoleDef  == 1
RoleCall == 3

ASSUME ReaderAssumption == MaxSym \in Nat /\ MaxRole \in Nat /\ MaxRole > RoleCall

-----------------------------------------------------------------------------
(* What the builder writes and the reader relies on.  Symbols are hashes;  *)
(* the largest u64 is none of them, because the range that ends at the     *)
(* next symbol would be empty for it.                                      *)

Str == Seq(Nat)
Sym == 0..(MaxSym - 1)

(* Ascending rows, and rows with ascending keys in the first column.       *)
Ascends(rows) == \A i, j \in 1..Len(rows) : i < j => LexLess(rows[i], rows[j])
KeyUp(rows)   == \A i, j \in 1..Len(rows) : i < j => rows[i][1] < rows[j][1]

(* Names are sorted, every symbol row has its name among them, and none    *)
(* begins with the byte that stands for "<sym".                            *)
NamesReady(db) ==
    /\ db.names \in Seq(Str \X Sym)
    /\ \A i, j \in 1..Len(db.names) : i < j => ~StrLess(db.names[j][1], db.names[i][1])
    /\ db.syms \in Seq(Sym \X Nat \X Nat \X Str) /\ KeyUp(db.syms)
    /\ \A r \in ToSet(db.syms) : /\ <<r[4], r[1]>> \in ToSet(db.names)
                                 /\ r[4] # <<>> => r[4][1] # 0

TablesReady(db) ==
    /\ db.xrefs \in Seq(Sym \X (0..MaxRole) \X Nat \X Nat) /\ Ascends(db.xrefs)
    /\ \A rows \in {db.inh, db.inhrev, db.childrev} : rows \in Seq(Sym \X Sym) /\ Ascends(rows)
    /\ \A rows \in {db.calls, db.crev} : rows \in Seq(Sym \X Sym \X Nat) /\ Ascends(rows)
    /\ \A rows \in {db.typed, db.sig} : rows \in Seq(Sym \X Nat) /\ KeyUp(rows)
    /\ db.files \in Seq(Nat \X Str) /\ KeyUp(db.files)

IsIndex(db) == NamesReady(db) /\ TablesReady(db)

-----------------------------------------------------------------------------

LowerBoundBy(n, Below(_)) ==
    LET f[p \in (0..n) \X (0..n)] ==
            IF p[1] >= p[2] THEN p[1]
            ELSE LET mid == (p[1] + p[2]) \div 2
                 IN  IF Below(mid + 1) THEN f[<<mid + 1, p[2]>>] ELSE f[<<p[1], mid>>]
    IN  f[<<0, n>>]

(* Number of rows below needle.                                            *)
lower_bound(table, needle) ==
    LowerBoundBy(Len(table), LAMBDA i : LexLess(table[i], needle))

(* Three-way binary search on the first column: the rows found, none or    *)
(* one.                                                                    *)
FindKey(table, key) ==
    LET n == Len(table)
        f[p \in (0..n) \X (0..n)] ==
            IF p[1] >= p[2] THEN {}
            ELSE LET mid == (p[1] + p[2]) \div 2
                     row == table[mid + 1]
                 IN  IF row[1] < key THEN f[<<mid + 1, p[2]>>]
                     ELSE IF row[1] > key THEN f[<<p[1], mid>>] ELSE {row}
    IN  f[<<0, n>>]

(* u64::wrapping_add(1).                                                   *)
NextSym(s) == IF s = MaxSym THEN 0 ELSE s + 1

Zeros(n) == [i \in 1..n |-> 0]

(* The rows whose first column is s: from (s, 0, ..) to (s + 1, 0, ..).    *)
RowsOf(table, s, columns) ==
    SubSeq(table, lower_bound(table, <<s>> \o Zeros(columns - 1)) + 1,
                  lower_bound(table, <<NextSym(s)>> \o Zeros(columns - 1)))

SecondCol(rows) == [i \in DOMAIN rows |-> rows[i][2]]

sym_meta(db, s)     == FindKey(db.syms, s)
type_of(db, s)      == {r[2] : r \in FindKey(db.typed, s)}
sig_of(db, s)       == {r[2] : r \in FindKey(db.sig, s)}
file_path(db, f)    == {r[2] : r \in FindKey(db.files, f)}
inherits_of(db, s)  == SecondCol(RowsOf(db.inh, s, 2))
inherited_by(db, s) == SecondCol(RowsOf(db.inhrev, s, 2))
members(db, s)      == SecondCol(RowsOf(db.childrev, s, 2))
calls_from(db, s)   == SecondCol(RowsOf(db.calls, s, 3))
called_by(db, s)    == SecondCol(RowsOf(db.crev, s, 3))

(* The xref rows of s with a role in lo..hi; hi = MaxRole ends the range   *)
(* at the next symbol, because the role byte cannot be incremented.        *)
xrefs(db, s, lo, hi) ==
    SubSeq(db.xrefs, lower_bound(db.xrefs, <<s, lo, 0, 0>>) + 1,
           lower_bound(db.xrefs, IF hi = MaxRole THEN <<NextSym(s), 0, 0, 0>>
                                 ELSE <<s, hi + 1, 0, 0>>))

(* The path of the first declaration or definition with a known file.      *)
sym_def_path(db, s) ==
    LET rows  == xrefs(db, s, RoleDecl, RoleDef)
        known == Keep(rows, {r \in ToSet(rows) : file_path(db, r[3]) # {}})
    IN  IF known = <<>> THEN {} ELSE file_path(db, known[1][3])

(* The first definition, else the first declaration, as <<file, offset>>.  *)
sym_def_loc(db, s) ==
    LET rows == xrefs(db, s, RoleDecl, RoleDef)
        defs == Keep(rows, {r \in ToSet(rows) : r[2] = RoleDef})
    IN  IF defs # <<>> THEN {<<defs[1][3], defs[1][4]>>}
        ELSE IF rows # <<>> THEN {<<rows[1][3], rows[1][4]>>} ELSE {}

(* Every symbol with exactly this name, canonical or alias: the run of     *)
(* equal rows from the lower bound on.                                     *)
syms_for_name(names, query) ==
    LET n   == Len(names)
        lo  == LowerBoundBy(n, LAMBDA i : StrLess(names[i][1], query))
        run[i \in (lo + 1)..(n + 1)] ==
            IF i > n THEN {} ELSE IF names[i][1] # query THEN {} ELSE {names[i][2]} \cup run[i + 1]
    IN  InOrder(run[lo + 1], <)
=============================================================================
