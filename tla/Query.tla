------------------------------- MODULE Query -------------------------------
(***************************************************************************)
(* The query verbs (server.rs) over one open index: a request names        *)
(* symbols, exactly or by a substring (NameSearch), and a handler gathers  *)
(* the rows, types, signatures, members, relatives or the call or          *)
(* inheritance forest of these symbols under its limits.  One behaviour is *)
(* one request: the daemon answers them one after the other and the index  *)
(* never changes.                                                          *)
(*                                                                         *)
(* Names and paths are sequences of bytes; a filter that is absent or      *)
(* empty is <<>>.  Type strings and signatures are numbers.  A reply is    *)
(* the sequence of its items and the truncated flag; totals are the        *)
(* lengths, and the header of a members reply is left out.                 *)
(***************************************************************************)
EXTENDS NameSearch, IndexReader

CONSTANTS
    Cases,          \* set of <<index, requests on it>>
    SUBSTR_AGG_CAP  \* symbols gathered for a substring (64)

VARIABLES
    db,             \* the open index
    req,            \* the request
    walk,           \* the forest walk, NoWalk before it starts
    reply           \* the reply, NoReply before it is made

vars == <<searchVars, db, req, walk, reply>>

TicketByte  == 75           \* stands for the prefix "kythe:"
Hash        == 35
Unknown     == <<63>>       \* "?"
KindType    == 2
KindPackage == 5
NoReply     == <<>>
NoWalk      == <<>>

(* A request as the protocol types it.                                     *)
IsRequest(r) ==
    /\ r.verb \in {"def", "ref", "callers", "type", "sig", "members", "super", "sub",
                   "callgraph", "inheritance"}
    /\ r.name \in Str /\ r.in_ \in Str /\ r.not_in \in Str /\ r.def_in \in Str
    /\ r.substr \in BOOLEAN /\ r.ignore_case \in BOOLEAN
    /\ r.limit \in Nat /\ r.max_hits \in Nat /\ r.depth \in Nat /\ r.max_syms \in Nat
    /\ r.direction \in {"up", "down", "both"}

ASSUME CasesAssumption ==
    /\ SUBSTR_AGG_CAP \in Nat
    /\ \A c \in Cases : IsIndex(c[1]) /\ \A r \in c[2] : IsRequest(r)

Larger(a, b) == IF a >= b THEN a ELSE b

XrefVerbs == {"def", "ref", "callers"}
WalkVerbs == {"callgraph", "inheritance"}

-----------------------------------------------------------------------------
(* Symbols.                                                                *)

starts_with_kythe(n) == n # <<>> /\ n[1] = TicketByte

TrailingSignature(n) ==
    LET i == CHOOSE k \in 0..Len(n) : /\ k = 0 \/ n[k] = Hash
                                      /\ \A j \in (k + 1)..Len(n) : n[j] # Hash
    IN  SubSeq(n, i + 1, Len(n))

logical_key(n) == IF starts_with_kythe(n) THEN TrailingSignature(n) ELSE n

Meta(s) == IF sym_meta(db, s) = {} THEN <<s, 0, 0, Unknown>>
           ELSE CHOOSE r \in sym_meta(db, s) : TRUE

(* A symbol without a row is shown as "<sym ...>", which is no name.       *)
name_of(s) == IF sym_meta(db, s) = {} THEN <<0, s>> ELSE Meta(s)[4]

KeyOf(s) == logical_key(name_of(s))

PathOf(f) == IF file_path(db, f) = {} THEN Unknown ELSE CHOOSE p \in file_path(db, f) : TRUE

(* {<<path, offset>>}, or {} without a definition site in a known file.    *)
def_loc_str(s) ==
    UNION {{<<p, loc[2]>> : p \in file_path(db, loc[1])} : loc \in sym_def_loc(db, s)}

(* A ticket is shown as "anon@path@off", else as its signature.            *)
display_name(s) ==
    LET n   == name_of(s)
        def == def_loc_str(s)
    IN  IF ~starts_with_kythe(n) THEN n
        ELSE IF def # {} THEN LET d == CHOOSE d \in def : TRUE IN <<1>> \o d[1] \o <<d[2]>>
        ELSE IF TrailingSignature(n) = <<>> THEN n ELSE TrailingSignature(n)

-----------------------------------------------------------------------------
(* Path filters.                                                           *)

passes(path) ==
    /\ req.in_ # <<>> => HasSubstring(path, req.in_)
    /\ req.not_in # <<>> => ~HasSubstring(path, req.not_in)

has_in_out == req.in_ # <<>> \/ req.not_in # <<>>

(* --in and --not-in on the file that defines a symbol; "" if none does.   *)
Pass(s) ==
    has_in_out => passes(IF sym_def_path(db, s) = {} THEN <<>>
                         ELSE CHOOSE p \in sym_def_path(db, s) : TRUE)

DefIn(s) ==
    req.def_in # <<>> => \E p \in sym_def_path(db, s) : HasSubstring(p, req.def_in)

-----------------------------------------------------------------------------
(* The handlers that reply at once; out holds the symbols named.           *)

SymCap(r) == IF r.verb \in {"ref", "callers", "type", "sig", "members"}
             THEN Larger(r.limit, SUBSTR_AGG_CAP) ELSE r.limit

(* Mutant: only the verbs that aggregate are flagged.                      *)
FlaggedForRefOnly == req.substr /\ req.verb # "def" /\ Len(out) >= SymCap(req)

CapReached == req.substr /\ Len(out) >= SymCap(req)

Roles(verb) == CASE verb = "def"     -> <<RoleDecl, RoleDef>>
                 [] verb = "callers" -> <<RoleCall, RoleCall>>
                 [] OTHER            -> <<0, MaxRole>>

(* The first n elements; a limit is tested after an element was added, so  *)
(* a limit of 0 lets one through.                                          *)
Upto(seq, n) == SubSeq(seq, 1, Smaller(Larger(n, 1), Len(seq)))

do_xrefs ==
    LET role == Roles(req.verb)
        syms == Keep(out, {s \in ToSet(out) : DefIn(s)})
        found(s) == xrefs(db, s, role[1], role[2])
        rows == FlattenSeq([i \in DOMAIN syms |->
                    Keep(found(syms[i]), {r \in ToSet(found(syms[i])) : passes(PathOf(r[3]))})])
        kept == IF req.verb = "def" THEN rows ELSE Upto(rows, req.max_hits)
        hit(r) == [row |-> r, name |-> Meta(r[1])[4], path |-> PathOf(r[3]),
                   typed |-> IF req.verb = "def" THEN type_of(db, r[1]) ELSE {},
                   sig |-> IF req.verb = "def" THEN sig_of(db, r[1]) ELSE {}]
    IN  [items |-> [i \in DOMAIN kept |-> hit(kept[i])],
         truncated |-> \/ CapReached
                       \/ req.verb # "def" /\ rows # <<>> /\ Len(rows) >= req.max_hits]

(* do_type and do_sig differ in the section they read.                     *)
Rendered(Of(_)) ==
    LET syms == Keep(out, {s \in ToSet(out) : Of(s) # {}})
        key  == [s \in ToSet(syms) |-> <<logical_key(Meta(s)[4]), Of(s)>>]
        hits == Upto(DistinctBy(syms, key), req.limit)
    IN  [items |-> [i \in DOMAIN hits |-> [name |-> Meta(hits[i])[4], string |-> Of(hits[i])]],
         truncated |-> Len(hits) >= req.limit]

do_type == Rendered(LAMBDA s : type_of(db, s))
do_sig  == Rendered(LAMBDA s : sig_of(db, s))

MemberKey(c) == <<logical_key(Meta(c)[4]), Meta(c)[2], sig_of(db, c)>>

(* Mutant: whatever has children is listed.                                *)
AnyKind(k) == TRUE

is_container(k) == k \in {KindType, KindPackage}

do_members ==
    LET containers == Keep(out, {s \in ToSet(out) : is_container(Meta(s)[2])})
        children   == FlattenSeq([i \in DOMAIN containers |-> members(db, containers[i])])
        distinct   == DistinctBy(children, [c \in ToSet(children) |-> MemberKey(c)])
        hits       == Upto(distinct, req.limit)
    IN  [items |-> [i \in DOMAIN hits |-> [child |-> hits[i], key |-> MemberKey(hits[i])]],
         truncated |-> distinct # <<>> /\ Len(distinct) >= req.limit]

(* Mutant: the definition site of the first copy stands for the group.     *)
FirstCopy(copies) == def_loc_str(copies[1])

(* The definition site of the first copy that has one.                     *)
GroupDef(copies) ==
    LET located == Keep(copies, {s \in ToSet(copies) : def_loc_str(s) # {}})
    IN  IF located = <<>> THEN {} ELSE def_loc_str(located[1])

(* The copy whose name is shown: the first with a readable name.           *)
GroupName(copies) ==
    LET readable == Keep(copies, {s \in ToSet(copies) : ~starts_with_kythe(name_of(s))})
    IN  display_name(IF readable = <<>> THEN copies[1] ELSE readable[1])

(* Relatives grouped by logical key, in the order the keys first occur.    *)
do_inh ==
    LET Related(s) == IF req.verb = "sub" THEN inherited_by(db, s) ELSE inherits_of(db, s)
        listed  == FlattenSeq([i \in DOMAIN out |-> Related(out[i])])
        related == Keep(DistinctBy(listed, [s \in ToSet(listed) |-> s]),
                        {s \in ToSet(listed) : Pass(s)})
        firsts  == DistinctBy(related, [s \in ToSet(related) |-> KeyOf(s)])
        copies  == [i \in DOMAIN firsts |->
                       Keep(related, {s \in ToSet(related) : KeyOf(s) = KeyOf(firsts[i])})]
    IN  [items |-> [i \in DOMAIN firsts |-> [key |-> KeyOf(firsts[i]),
                                             name |-> GroupName(copies[i]),
                                             def |-> GroupDef(copies[i])]],
         truncated |-> FALSE]

-----------------------------------------------------------------------------
(* The walk of do_callgraph and do_inheritance.  Nodes are numbered from 1 *)
(* and a root has parent 0.                                                *)

(* Mutant: the edges of the one symbol that was admitted.                  *)
OwnSym(rep) == {rep}

dup_syms(rep) ==
    {rep} \cup {s \in ToSet(syms_for_name(names, name_of(rep))) :
                   KeyOf(s) = KeyOf(rep)}

EdgesOf(s, dir) ==
    CASE req.verb = "callgraph" /\ dir = "up"     -> called_by(db, s)
      [] req.verb = "callgraph" /\ dir = "down"   -> calls_from(db, s)
      [] req.verb = "inheritance" /\ dir = "up"   -> inherits_of(db, s)
      [] req.verb = "inheritance" /\ dir = "down" -> inherited_by(db, s)

(* The neighbours of a node in one direction, united over its copies.      *)
Neighbours(id, dir) ==
    LET rep == walk.nodes[id].sym
        to  == InOrder(UNION {ToSet(EdgesOf(s, dir)) : s \in dup_syms(rep)}, <)
    IN  IF req.direction \in {dir, "both"}
        THEN [i \in DOMAIN to |-> [sym |-> to[i], dir |-> dir, parent |-> id]] ELSE <<>>

(* The node a symbol is shown as.                                          *)
NodeFor(e, hop) ==
    [sym |-> e.sym, key |-> KeyOf(e.sym),
     name |-> IF req.verb = "callgraph" THEN name_of(e.sym) ELSE display_name(e.sym),
     def |-> def_loc_str(e.sym), parent |-> e.parent, dir |-> e.dir, hop |-> hop]

(* A symbol becomes a node unless it was seen or its logical key has one.  *)
admit(w, e) ==
    IF e.sym \in w.seen THEN w
    ELSE IF \E n \in ToSet(w.nodes) : n.key = KeyOf(e.sym)
    THEN [w EXCEPT !.seen = @ \cup {e.sym}]
    ELSE [nodes |-> Append(w.nodes, NodeFor(e, w.hop)), seen |-> w.seen \cup {e.sym},
          frontier |-> w.frontier, edges |-> w.edges,
          next |-> Append(w.next, Len(w.nodes) + 1), hop |-> w.hop]

AdmitRoot(w, s) == admit(w, [sym |-> s, dir |-> "root", parent |-> 0])

FreshWalk == [nodes |-> <<>>, seen |-> {}, frontier |-> <<>>, edges |-> <<>>, next |-> <<>>,
              hop |-> 0]

(* Mutant: the next hop starts although the last one allowed is done.      *)
OneHopMore(w) == w.next = <<>> \/ w.hop > req.depth

LastHop(w) == w.next = <<>> \/ w.hop >= req.depth

(* Mutant: the budget may be passed by one.                                *)
BudgetPassed(n) == n > req.max_syms

BudgetSpent(n) == n >= req.max_syms

-----------------------------------------------------------------------------
Init ==
    \E c \in Cases :
        /\ db = c[1]
        /\ req \in c[2]
        /\ SearchInit(db.names, [needle |-> req.name, limit |-> SymCap(req),
                                 ignore_case |-> req.ignore_case])
        /\ pc = IF req.substr THEN "start" ELSE "exact"
        /\ walk = NoWalk
        /\ reply = NoReply

queryVars == <<db, req, walk, reply>>

(* The symbols a substring names.                                          *)
Search == SearchNext /\ UNCHANGED queryVars

(* The symbols an exact name names.                                        *)
Exact ==
    /\ pc = "exact"
    /\ out' = syms_for_name(names, req.name)
    /\ pc' = "resolved"
    /\ UNCHANGED <<names, ix, query, todo, others, cursor, scan, queryVars>>

Resolved == pc \in {"done", "resolved"}

SendReply(r) ==
    /\ reply' = r
    /\ pc' = "replied"
    /\ UNCHANGED <<names, ix, query, todo, others, cursor, scan, out, db, req>>

(* The part of dispatch whose handlers reply at once.                      *)
dispatch ==
    /\ Resolved
    /\ req.verb \notin WalkVerbs
    /\ SendReply(CASE req.verb \in XrefVerbs -> do_xrefs
                   [] req.verb = "type"      -> do_type
                   [] req.verb = "sig"       -> do_sig
                   [] req.verb = "members"   -> do_members
                   [] req.verb \in {"super", "sub"} -> do_inh)
    /\ UNCHANGED walk

(* The roots that pass the filters are admitted.                           *)
Seed ==
    /\ Resolved
    /\ req.verb \in WalkVerbs
    /\ LET roots == Keep(out, {s \in ToSet(out) : DefIn(s) /\ Pass(s)})
       IN  walk' = FoldLeft(AdmitRoot, FreshWalk, roots)
    /\ pc' = "walk"
    /\ UNCHANGED <<names, ix, query, todo, others, cursor, scan, out, db, req, reply>>

WalkStep == pc = "walk" /\ UNCHANGED <<searchVars, db, req, reply>>

(* The edges of the next node of the frontier are read.                    *)
Expand ==
    /\ walk # NoWalk /\ walk.edges = <<>> /\ walk.frontier # <<>>
    /\ LET id == Head(walk.frontier)
       IN  walk' = [nodes |-> walk.nodes, seen |-> walk.seen, frontier |-> Tail(walk.frontier),
                    edges |-> Neighbours(id, "up") \o Neighbours(id, "down"),
                    next |-> walk.next, hop |-> walk.hop]
    /\ WalkStep

(* One edge is followed, within the budget.                                *)
Follow ==
    LET w == IF Pass(Head(walk.edges).sym) THEN admit(walk, Head(walk.edges)) ELSE walk
        grew == Len(w.nodes) > Len(walk.nodes)
    IN  /\ pc = "walk" /\ walk.edges # <<>>
        /\ walk' = [w EXCEPT !.edges = Tail(@)]
        /\ IF grew /\ BudgetSpent(Len(w.nodes))
           THEN SendReply([items |-> w.nodes, truncated |-> TRUE])
           ELSE UNCHANGED <<searchVars, db, req, reply>>

HopDone == pc = "walk" /\ walk.edges = <<>> /\ walk.frontier = <<>>

NextHop ==
    /\ HopDone
    /\ ~LastHop(walk)
    /\ walk' = [nodes |-> walk.nodes, seen |-> walk.seen, frontier |-> walk.next,
                edges |-> <<>>, next |-> <<>>, hop |-> walk.hop + 1]
    /\ WalkStep

EndWalk ==
    /\ HopDone
    /\ LastHop(walk)
    /\ SendReply([items |-> walk.nodes, truncated |-> FALSE])
    /\ UNCHANGED walk

Next == Search \/ Exact \/ dispatch \/ Seed \/ Expand \/ Follow \/ NextHop \/ EndWalk

Spec == Init /\ [][Next]_vars

-----------------------------------------------------------------------------
Replied(verbs) == reply # NoReply /\ req.verb \in verbs

(* The symbols the request names, by a scan of the name table; the empty   *)
(* substring names none.                                                   *)
Asked == IF req.substr THEN {r[2] : r \in {x \in ToSet(MatchingRows) : req.name # <<>>}}
         ELSE {r[2] : r \in {x \in ToSet(names) : x[1] = req.name}}

(* The rows a complete xref reply holds, by a scan of the table.           *)
AllRows ==
    {r \in ToSet(db.xrefs) : /\ r[1] \in Asked /\ DefIn(r[1])
                             /\ r[2] \in Roles(req.verb)[1]..Roles(req.verb)[2]
                             /\ passes(PathOf(r[3]))}

(* The threads' scan counts rows, so its result is the serial one only up  *)
(* to this many.                                                           *)
WithinScan == scan = <<>> \/ Len(MatchingRows) <= query.limit

(* A def, ref or callers reply holds no row twice and none outside what    *)
(* the tables say, respects max_hits, and is complete unless it is flagged *)
(* truncated, which do_xrefs promises for a substring that names more      *)
(* symbols than it gathers.                                                *)
XrefsHonest ==
    Replied(XrefVerbs) =>
        LET got == {reply.items[i].row : i \in DOMAIN reply.items}
        IN  /\ got \subseteq AllRows
            /\ Cardinality(got) = Len(reply.items)
            /\ req.verb # "def" => Len(reply.items) <= Larger(1, req.max_hits)
            /\ ~reply.truncated /\ WithinScan => got = AllRows

(* A type or sig reply shows each rendering once, at most limit of them,   *)
(* and unless flagged every one the gathered symbols have; a members reply *)
(* likewise, with members of types and packages only: no parameter or      *)
(* local of a function.                                                    *)
ListingsHonest ==
    /\ Replied({"type", "sig", "members"}) => Len(reply.items) <= Larger(1, req.limit)
    /\ Replied({"type", "sig"}) =>
          LET table == IF req.verb = "type" THEN db.typed ELSE db.sig
              all == {<<logical_key(Meta(r[1])[4]), {r[2]}>> :
                        r \in {x \in ToSet(table) : x[1] \in ToSet(out)}}
              got == {<<logical_key(h.name), h.string>> : h \in ToSet(reply.items)}
          IN  /\ got \subseteq all
              /\ Cardinality(got) = Len(reply.items)
              /\ ~reply.truncated => got = all
    /\ Replied({"members"}) =>
          LET all == {r[2] : r \in {x \in ToSet(db.childrev) :
                                       x[1] \in ToSet(out) /\ Meta(x[1])[2] \in {KindType, KindPackage}}}
              got == {h.key : h \in ToSet(reply.items)}
          IN  /\ {h.child : h \in ToSet(reply.items)} \subseteq all
              /\ Cardinality(got) = Len(reply.items)
              /\ ~reply.truncated => got = {MemberKey(c) : c \in all}

(* A super or sub reply has one hit per logical relative that passes the   *)
(* filter, a hit lacks a definition site only if every copy does, and a    *)
(* ticket is shown only if all copies are tickets without a signature and  *)
(* the one shown has no site.                                              *)
RelativesLocated ==
    Replied({"super", "sub"}) =>
        LET table == IF req.verb = "sub" THEN db.inhrev ELSE db.inh
            all == {r[2] : r \in {x \in ToSet(table) : x[1] \in ToSet(out) /\ Pass(x[2])}}
        IN  /\ {h.key : h \in ToSet(reply.items)} = {KeyOf(s) : s \in all}
            /\ \A h \in ToSet(reply.items) :
                  LET copies == {s \in all : KeyOf(s) = h.key}
                  IN  /\ h.def = {} => \A s \in copies : def_loc_str(s) = {}
                      /\ starts_with_kythe(h.name) /\ h.name # h.key =>
                            /\ h.key = <<>> /\ \A s \in copies : starts_with_kythe(name_of(s))
                            /\ \E s \in copies : name_of(s) = h.name /\ def_loc_str(s) = {}

EdgeTable(dir) ==
    IF req.verb = "callgraph" THEN IF dir = "up" THEN db.crev ELSE db.calls
    ELSE IF dir = "up" THEN db.inh ELSE db.inhrev

(* The symbols that have the stored name of s.                             *)
SameName(s) == {t \in ToSet(out) \cup {r[1] : r \in ToSet(db.syms)} \cup {s} :
                   name_of(t) = name_of(s)}

(* The symbols that have the logical key of s.                             *)
Copies(s) == {t \in {r[2] : r \in ToSet(names)} \cup {s} : KeyOf(t) = KeyOf(s)}

Targets(S, dir) == {r[2] : r \in {x \in ToSet(EdgeTable(dir)) : x[1] \in S}}

Directions == {dir \in {"up", "down"} : req.direction \in {dir, "both"}}

(* Forest: every logical element is one node, a node hangs under an        *)
(* earlier one that is one hop nearer and has the edge on some copy, and   *)
(* all pass the filters.                                                   *)
ForestSound ==
    Replied(WalkVerbs) =>
        LET N == reply.items
        IN  \A i \in DOMAIN N :
                /\ \A j \in DOMAIN N : N[i].key = N[j].key => i = j
                /\ Pass(N[i].sym)
                /\ N[i].hop <= req.depth
                /\ IF N[i].parent = 0 THEN N[i].hop = 0 /\ N[i].sym \in Asked /\ DefIn(N[i].sym)
                   ELSE /\ N[i].parent < i
                        /\ N[i].hop = N[N[i].parent].hop + 1
                        /\ N[i].dir \in Directions
                        /\ N[i].sym \in Targets(Copies(N[N[i].parent].sym), N[i].dir)

(* Unless truncated, the forest is closed up to the depth asked: whatever  *)
(* a node of a lower hop reaches on any copy with its name is a node too,  *)
(* at most one hop further.  Copies that carry no edges of their own hide  *)
(* nothing.                                                                *)
ForestClosed ==
    Replied(WalkVerbs) /\ ~reply.truncated =>
        LET N == reply.items
        IN  \A i \in DOMAIN N : N[i].hop < req.depth =>
                \A dir \in Directions : \A t \in Targets(SameName(N[i].sym), dir) :
                    Pass(t) => \E j \in DOMAIN N : N[j].key = KeyOf(t) /\ N[j].hop <= N[i].hop + 1

(* docs/USAGE.md says that --max-syms "caps total nodes", the option's help *)
(* that it is a "Cap on total nodes in the forest".  That is false of the   *)
(* code, which admits every root before it counts:                         *)
NodesCapped == Replied(WalkVerbs) => Len(reply.items) <= req.max_syms

(* What it does keep: past the roots the walk stops at max_syms, or one    *)
(* node after roots that reach it alone, and it says so exactly when it    *)
(* stopped; a forest of roots alone is never called truncated.             *)
BudgetKept ==
    Replied(WalkVerbs) =>
        /\ Len(reply.items) <= Larger(req.max_syms,
                                      1 + Cardinality({n \in ToSet(reply.items) : n.hop = 0}))
        /\ reply.truncated <=> /\ Len(reply.items) >= req.max_syms
                               /\ \E i \in DOMAIN reply.items : reply.items[i].hop # 0
=============================================================================
