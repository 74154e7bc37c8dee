---------------------------- MODULE IndexTables ----------------------------
(***************************************************************************)
(* The index builder and the k-way merge (writer.rs): compilation units    *)
(* are ingested into builders, builders are folded into sinks, sinks are   *)
(* written as shards, shards are coalesced in groups and merged into the   *)
(* output.  Which unit reaches which sink, when a sink is written and      *)
(* which shards form a group depends on scheduling and on the group size;  *)
(* the output must not.                                                    *)
(*                                                                         *)
(* A row is a tuple of numbers, ordered as its big-endian bytes are: by    *)
(* its columns from left to right.  An index is the record of its          *)
(* sections, each a sequence of rows in file order.                        *)
(***************************************************************************)
EXTENDS SymRefine, SortedRows, SequencesExt

CONSTANTS
    CUs,            \* compilation units
    Facts,          \* [CUs -> set of facts the ingest of the unit emits]
    Sinks,          \* builders that live at the same time
    MaxShards       \* bound: shards at a time

VARIABLES
    todo,           \* units not ingested yet
    sink,           \* [Sinks -> builder]
    shards,         \* the shards to merge, some coalesced, in merge order
    out             \* the output index, or <<>>

vars == <<todo, sink, shards, out>>

(* The calls the ingest makes, by the table they reach.                    *)
Fact ==
    ({"sym"} \X Int \X (Int \X Int \X Strings))
        \cup ({"name", "aliases", "typed", "sig"} \X Int \X Strings)
        \cup ({"field"} \X Int) \cup ({"file"} \X Int \X Int)
        \cup ({"xrefs"} \X Tuple(4)) \cup ({"calls"} \X Tuple(3))
        \cup ({"inherits", "childof"} \X Tuple(2))

(* A file id stands for one path: FileIds shows it of the ids of a build.  *)
ASSUME FactsAssumption ==
    /\ \A c \in CUs : IsFiniteSet(Facts[c]) /\ Facts[c] \subseteq Fact
    /\ \A c, d \in CUs : \A f \in Facts[c], g \in Facts[d] :
          f[1] = "file" /\ g[1] = "file" /\ f[2] = g[2] => f[3] = g[3]

(* Strings are the numbers of their places in the lexicographic order.     *)
ASSUME StringsAssumption ==
    /\ Strings \subseteq Nat /\ NoName = 0
    /\ \A m, n \in Strings : Before(m, n) <=> m < n

ASSUME ShardsAssumption == MaxShards \in Nat

-----------------------------------------------------------------------------
(* Rows and sorted streams.                                                *)

Flip(r)       == [r EXCEPT ![1] = r[2], ![2] = r[1]]
Whole(r)      == r
FirstCol(r)   == <<r[1]>>

(* A pass over two streams sorted by Key that calls Pick on a tie.         *)
MergeBy(a, b, Key(_), Pick(_, _)) ==
    LET m[p \in (1..(Len(a) + 1)) \X (1..(Len(b) + 1))] ==
            LET i == p[1]
                j == p[2]
            IN  IF i > Len(a) THEN SubSeq(b, j, Len(b))
                ELSE IF j > Len(b) THEN SubSeq(a, i, Len(a))
                ELSE IF LexLess(Key(a[i]), Key(b[j])) THEN <<a[i]>> \o m[<<i + 1, j>>]
                ELSE IF LexLess(Key(b[j]), Key(a[i])) THEN <<b[j]>> \o m[<<i, j + 1>>]
                ELSE <<Pick(a[i], b[j])>> \o m[<<i + 1, j + 1>>]
    IN  m[<<1, 1>>]

First(x, y) == x

merge_sorted_dedup(a, b)     == MergeBy(a, b, Whole, First)
merge_aliases_dedup(a, b)    == MergeBy(a, b, Whole, First)
merge_files_first_wins(a, b) == MergeBy(a, b, FirstCol, First)

(* Mutant: the first stream's row wins, as for files.                      *)
FirstRowWins(a, b) == MergeBy(a, b, FirstCol, First)

merge_syms_refine(a, b) ==
    MergeBy(a, b, FirstCol,
            LAMBDA x, y : <<x[1]>> \o Refine(Tail(x), Tail(y)))

merge_typed_by_sym(a, b) ==
    MergeBy(a, b, FirstCol, LAMBDA x, y : <<x[1], PickString(x[2], y[2])>>)

fold_sources(sources, section, Merge(_, _)) ==
    FoldLeft(Merge, <<>>, [i \in DOMAIN sources |-> sources[i][section]])

-----------------------------------------------------------------------------
(* The builder.  Its vectors are sorted and deduplicated whenever they are *)
(* written, so they are sets here; its maps are functions.                 *)

NewBuilder ==
    [xrefs |-> {}, inherits |-> {}, calls |-> {}, childof |-> {}, aliases |-> {},
     typed |-> {}, sig |-> {}, syms |-> <<>>, files |-> <<>>]

(* HashMap::entry(s).and_modify(Modify).or_insert(fresh).                  *)
Entry(f, s, Modify(_), fresh) ==
    [x \in DOMAIN f \cup {s} |->
        IF x # s THEN f[x] ELSE IF s \in DOMAIN f THEN Modify(f[s]) ELSE fresh]

upsert_sym(b, s, row) ==
    [b EXCEPT !.syms = Entry(@, s, LAMBDA e : Refine(e, row), row)]

set_sym_name(b, s, name) ==
    IF name = NoName THEN b
    ELSE [b EXCEPT !.syms =
            Entry(@, s, LAMBDA e : [e EXCEPT ![3] = BetterName(@, name)],
                  <<UNK, UNK, name>>)]

mark_field(b, s) ==
    [b EXCEPT !.syms = Entry(@, s, LAMBDA e : [e EXCEPT ![1] = KindField],
                             <<KindField, UNK, NoName>>)]

upsert_file(b, id, path) ==
    [b EXCEPT !.files = Entry(@, id, LAMBDA p : p, path)]

(* add_xref, add_inherit, add_call, add_childof.  A childof edge is kept   *)
(* reversed, as (parent, child).                                           *)
AddRow(b, table, row) ==
    [b EXCEPT ![table] = @ \cup {IF table = "childof" THEN Flip(row) ELSE row}]

(* add_alias, add_type, add_sig: an empty string is dropped.               *)
AddString(b, table, s, string) ==
    IF string = NoName THEN b ELSE [b EXCEPT ![table] = @ \cup {<<s, string>>}]

(* One call of the ingest on the unit's builder.                           *)
Apply(b, f) ==
    CASE f[1] = "sym"   -> upsert_sym(b, f[2], f[3])
      [] f[1] = "name"  -> set_sym_name(b, f[2], f[3])
      [] f[1] = "field" -> mark_field(b, f[2])
      [] f[1] = "file"  -> upsert_file(b, f[2], f[3])
      [] f[1] \in {"aliases", "typed", "sig"} -> AddString(b, f[1], f[2], f[3])
      [] OTHER          -> AddRow(b, f[1], f[2])

(* The builders a unit may leave: its facts arrive in any order.           *)
Ingested ==
    [c \in CUs |-> {FoldLeft(Apply, NewBuilder, q) : q \in SetToSeqs(Facts[c])}]

MergeSyms(f, g) ==
    [s \in DOMAIN f \cup DOMAIN g |->
        IF s \notin DOMAIN g THEN f[s]
        ELSE IF s \notin DOMAIN f THEN g[s] ELSE Refine(f[s], g[s])]

MergeFiles(f, g) ==
    [i \in DOMAIN f \cup DOMAIN g |-> IF i \in DOMAIN f THEN f[i] ELSE g[i]]

merge_from(b, other) ==
    [xrefs |-> b.xrefs \cup other.xrefs, inherits |-> b.inherits \cup other.inherits,
     calls |-> b.calls \cup other.calls, childof |-> b.childof \cup other.childof,
     aliases |-> b.aliases \cup other.aliases, typed |-> b.typed \cup other.typed,
     sig |-> b.sig \cup other.sig, syms |-> MergeSyms(b.syms, other.syms),
     files |-> MergeFiles(b.files, other.files)]

-----------------------------------------------------------------------------
(* The two writers.                                                        *)

SymRows(syms)   == Sorted({<<s>> \o syms[s] : s \in DOMAIN syms})
FileRows(files) == Sorted({<<f, files[f]>> : f \in DOMAIN files})

(* One row per symbol, the smallest string, as after dedup_by_key.         *)
OnePerSym(S) == Sorted({r \in S : \A q \in S : q[1] = r[1] => r[2] <= q[2]})

(* The name index: <<name, sym, 0>> for a canonical name and <<name, sym,  *)
(* 1>> for an alias; a variable's aliases are suppressed.                  *)
NameRows(syms, aliases) ==
    LET var_syms == {r[1] : r \in {x \in ToSet(syms) : x[2] = KindVariable}}
    IN  Sorted({<<r[4], r[1], 0>> : r \in ToSet(syms)}
               \cup {<<a[2], a[1], 1>> : a \in {x \in aliases : x[1] \notin var_syms}})

(* Mutant: the reversed rows are left in the order of the forward table.   *)
FlippedInPlace(rows) == [i \in DOMAIN rows |-> Flip(rows[i])]

Reversed(rows) == Sorted({Flip(r) : r \in ToSet(rows)})

(* Names that are not their symbol's canonical row.                        *)
iter_aliases(ix) == {<<r[2], r[1]>> : r \in {x \in ToSet(ix.names) : x[3] = 1}}

finish(b) ==
    LET syms  == SymRows(b.syms)
        inh   == Sorted(b.inherits)
        calls == Sorted(b.calls)
    IN  [xrefs |-> Sorted(b.xrefs), syms |-> syms,
         names |-> NameRows(syms, b.aliases), files |-> FileRows(b.files),
         inh |-> inh, inhrev |-> Reversed(inh),
         calls |-> calls, crev |-> Reversed(calls),
         typed |-> OnePerSym(b.typed), childrev |-> Sorted(b.childof),
         sig |-> OnePerSym(b.sig)]

MergedRows(sources, section, delta) ==
    merge_sorted_dedup(fold_sources(sources, section, merge_sorted_dedup), Sorted(delta))

MergedSyms(sources, syms) ==
    merge_syms_refine(fold_sources(sources, "syms", merge_syms_refine), SymRows(syms))

MergedNames(sources, syms, aliases) ==
    LET prior == Sorted(UNION {iter_aliases(s) : s \in ToSet(sources)})
    IN  NameRows(syms, ToSet(merge_aliases_dedup(prior, Sorted(aliases))))

MergedFiles(sources, files) ==
    merge_files_first_wins(fold_sources(sources, "files", merge_files_first_wins),
                           FileRows(files))

(* A row without a string is not written.                                  *)
WithString(rows) ==
    FoldLeft(LAMBDA acc, r : IF r[2] = NoName THEN acc ELSE Append(acc, r), <<>>, rows)

MergedStrings(sources, section, delta) ==
    WithString(merge_typed_by_sym(fold_sources(sources, section, merge_typed_by_sym),
                                  OnePerSym(delta)))

write_merged_snapshot(b, sources) ==
    LET syms  == MergedSyms(sources, b.syms)
        inh   == MergedRows(sources, "inh", b.inherits)
        calls == MergedRows(sources, "calls", b.calls)
    IN  [xrefs |-> MergedRows(sources, "xrefs", b.xrefs), syms |-> syms,
         names |-> MergedNames(sources, syms, b.aliases),
         files |-> MergedFiles(sources, b.files),
         inh |-> inh, inhrev |-> Reversed(inh),
         calls |-> calls, crev |-> Reversed(calls),
         typed |-> MergedStrings(sources, "typed", b.typed),
         childrev |-> MergedRows(sources, "childrev", b.childof),
         sig |-> MergedStrings(sources, "sig", b.sig)]

(* Replay of a written index into a builder.  File ids are the build's own *)
(* here, so the remapping variant for cache shards is the same replay.     *)
populate_from_index(b, ix) ==
    LET symbols == FoldLeft(LAMBDA acc, r : upsert_sym(acc, r[1], Tail(r)), b, ix.syms)
        all     == FoldLeft(LAMBDA acc, r : upsert_file(acc, r[1], r[2]), symbols, ix.files)
    IN  [xrefs |-> b.xrefs \cup ToSet(ix.xrefs), inherits |-> b.inherits \cup ToSet(ix.inh),
         calls |-> b.calls \cup ToSet(ix.calls), childof |-> b.childof \cup ToSet(ix.childrev),
         aliases |-> b.aliases \cup iter_aliases(ix), typed |-> b.typed \cup ToSet(ix.typed),
         sig |-> b.sig \cup ToSet(ix.sig), syms |-> all.syms, files |-> all.files]

coalesce_shards(group) ==
    write_merged_snapshot(FoldLeft(populate_from_index, NewBuilder, group), <<>>)

merge_group_global(group) == write_merged_snapshot(NewBuilder, group)

-----------------------------------------------------------------------------
Init ==
    /\ todo = CUs
    /\ sink = [w \in Sinks |-> NewBuilder]
    /\ shards = <<>>
    /\ out = <<>>

(* A unit is ingested into a builder of its own and folded into a sink.    *)
Ingest(c, w) ==
    /\ out = <<>>
    /\ c \in todo
    /\ todo' = todo \ {c}
    /\ \E b \in Ingested[c] : sink' = [sink EXCEPT ![w] = merge_from(@, b)]
    /\ UNCHANGED <<shards, out>>

(* One sink is drained into another.                                       *)
Drain(v, w) ==
    /\ out = <<>>
    /\ v # w
    /\ sink[v] # NewBuilder
    /\ sink' = [sink EXCEPT ![w] = merge_from(@, sink[v]), ![v] = NewBuilder]
    /\ UNCHANGED <<todo, shards, out>>

(* A sink is written as the next shard.                                    *)
WriteShard(w) ==
    /\ out = <<>>
    /\ sink[w] # NewBuilder
    /\ Len(shards) < MaxShards
    /\ shards' = Append(shards, finish(sink[w]))
    /\ sink' = [sink EXCEPT ![w] = NewBuilder]
    /\ UNCHANGED <<todo, out>>

(* A group of neighbouring shards is replaced by one, by replay (the first *)
(* level) or by a merge (the levels above).                                *)
Coalesce(i, j) ==
    /\ out = <<>>
    /\ i < j
    /\ j <= Len(shards)
    /\ \E s \in {coalesce_shards(SubSeq(shards, i, j)),
                 merge_group_global(SubSeq(shards, i, j))} :
          shards' = SubSeq(shards, 1, i - 1) \o <<s>>
                        \o SubSeq(shards, j + 1, Len(shards))
    /\ UNCHANGED <<todo, sink, out>>

(* The legacy snapshot is replayed into a builder that goes on ingesting.  *)
Resume(w) ==
    /\ out = <<>>
    /\ Len(shards) = 1
    /\ \A v \in Sinks : sink[v] = NewBuilder
    /\ sink' = [sink EXCEPT ![w] = populate_from_index(@, shards[1])]
    /\ shards' = <<>>
    /\ UNCHANGED <<todo, out>>

(* The output: the k-way merge of the rest and the shards, or finish for   *)
(* an ingest into one builder.  Units that failed stay in todo.            *)
Finalise(w) ==
    /\ out = <<>>
    /\ \A v \in Sinks \ {w} : sink[v] = NewBuilder
    /\ todo # CUs
    /\ \/ out' = write_merged_snapshot(sink[w], shards)
       \/ shards = <<>> /\ out' = finish(sink[w])
    /\ UNCHANGED <<todo, sink, shards>>

Next ==
    \/ \E c \in CUs, w \in Sinks : Ingest(c, w)
    \/ \E v, w \in Sinks : Drain(v, w)
    \/ \E w \in Sinks : WriteShard(w) \/ Resume(w) \/ Finalise(w)
    \/ \E i, j \in 1..MaxShards : Coalesce(i, j)

Spec == Init /\ [][Next]_vars

-----------------------------------------------------------------------------
(* What the output should be, from the facts alone.                        *)

AllFacts(S) == UNION {Facts[c] : c \in S}

KnownOf(F, s, col) == {f[3][col] : f \in {x \in F : x[1] = "sym" /\ x[2] = s}} \ {UNK}

Kinds(F, s) == IF <<"field", s>> \in F THEN {KindField} ELSE KnownOf(F, s, 1)

NamesOf(F, s) ==
    {f[3][3] : f \in {x \in F : x[1] = "sym" /\ x[2] = s}}
        \cup {f[3] : f \in {x \in F : x[1] = "name" /\ x[2] = s}}

AtMostOne(S) == \A x, y \in S : x = y

(* The inputs on which the merge rules agree: no symbol has two known      *)
(* kinds or languages in different units, or two degenerate names.         *)
Consistent(S) ==
    \A s \in {f[2] : f \in {x \in AllFacts(S) : x[1] \in {"sym", "name", "field"}}} :
        /\ AtMostOne(UNION {Kinds(Facts[c], s) : c \in S})
        /\ AtMostOne(KnownOf(AllFacts(S), s, 2))
        /\ AtMostOne({n \in NamesOf(AllFacts(S), s) : Degenerate(n)})

One(S) == IF S = {} THEN 0 ELSE CHOOSE x \in S : TRUE

Reference(S) ==
    LET F       == AllFacts(S)
        Rows(t) == {f[2] : f \in {x \in F : x[1] = t}}
        Strs(t) == {<<f[2], f[3]>> : f \in {x \in F : x[1] = t /\ x[3] # NoName}}
        symbols == {f[2] : f \in {x \in F : \/ x[1] \in {"sym", "field"}
                                            \/ x[1] = "name" /\ x[3] # NoName}}
        Best(s) == LET N == NamesOf(F, s)
                   IN  One({n \in N : \A m \in N : ~prefers_name(n, m)})
        syms    == Sorted({<<s, One(Kinds(F, s)), One(KnownOf(F, s, 2)), Best(s)>> :
                              s \in symbols})
    IN  [xrefs |-> Sorted(Rows("xrefs")), syms |-> syms,
         names |-> NameRows(syms, Strs("aliases")),
         files |-> Sorted({<<f[2], f[3]>> : f \in {x \in F : x[1] = "file"}}),
         inh |-> Sorted(Rows("inherits")),
         inhrev |-> Sorted({Flip(r) : r \in Rows("inherits")}),
         calls |-> Sorted(Rows("calls")),
         crev |-> Sorted({Flip(r) : r \in Rows("calls")}),
         typed |-> OnePerSym(Strs("typed")),
         childrev |-> Sorted({Flip(r) : r \in Rows("childof")}),
         sig |-> OnePerSym(Strs("sig"))]

(* On consistent inputs the output is a function of the facts of the units *)
(* that were ingested: not of the order of the facts, of the sinks they    *)
(* went through, of the shards or of how these were grouped.  The builder  *)
(* and the merge are claimed to agree in merge_from, write_merged_snapshot *)
(* and coalesce_shards_remapped.                                           *)
OutputIsReference ==
    out # <<>> /\ Consistent(CUs \ todo) => out = Reference(CUs \ todo)

StrictlyAscending(rows, key) ==
    \A i \in 1..(Len(rows) - 1) :
        LexLess(SubSeq(rows[i], 1, key), SubSeq(rows[i + 1], 1, key))

(* Every section of every file is in the order the reader's binary search  *)
(* needs, one row per key, and each reverse table holds exactly the edges  *)
(* of its forward table, also when units disagree about a symbol.          *)
SearchReady ==
    \A ix \in ToSet(shards) \cup (IF out = <<>> THEN {} ELSE {out}) :
        /\ \A t \in {"syms", "files", "typed", "sig"} : StrictlyAscending(ix[t], 1)
        /\ \A t \in {"inh", "inhrev", "childrev"} : StrictlyAscending(ix[t], 2)
        /\ \A t \in {"names", "calls", "crev"} : StrictlyAscending(ix[t], 3)
        /\ StrictlyAscending(ix.xrefs, 4)
        /\ {Flip(r) : r \in ToSet(ix.inh)} = ToSet(ix.inhrev)
        /\ {Flip(r) : r \in ToSet(ix.calls)} = ToSet(ix.crev)
=============================================================================
