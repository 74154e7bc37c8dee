------------------------------- MODULE Ingest -------------------------------
(***************************************************************************)
(* The ingest of one compilation unit's entry stream (kythe.rs).  Entries  *)
(* arrive in whatever order the indexer writes them, and the stream may    *)
(* break off; anchors are accumulated until their position is known, rows  *)
(* are buffered until the end of the stream, where the completes bridges   *)
(* are applied, calls are attributed to the functions around them and      *)
(* types and signatures are rendered.                                      *)
(*                                                                         *)
(* A node is a key, a number, and stands for its VName, its ticket and its *)
(* symbol; 0 is the empty VName.  An entry is [src, label, tgt, val]: an   *)
(* edge has a target and a fact the empty one.  What the unit leaves is    *)
(* the set of the calls it makes on its builder, in the form IndexTables   *)
(* takes them in.                                                          *)
(***************************************************************************)
EXTENDS Rendering, SymRefine

CONSTANTS
    Streams,        \* the entry streams, as sets of entries
    PathOf(_),      \* the path of a key's VName; a path is its own file id
    LangOf(_),      \* its language byte
    Builtin(_)      \* the builtin operator in its signature, or ""

VARIABLES
    stream,         \* entries not read yet
    read,           \* history: entries read
    st,             \* the IngestState
    builder,        \* calls made on the builder
    pc              \* "read", "done" or "failed"

vars == <<stream, read, st, builder, pc>>

RoleDecl == 0
RoleDef  == 1
RoleRef  == 2
RoleCall == 3

KindFunction == 1
TicketTok    == 75

TicketName(k) == <<TicketTok, k>>
Unset         == -1

EmptyAnchor ==
    [is_anchor |-> FALSE, path |-> "", start |-> Unset, end |-> Unset, pending |-> <<>>,
     body_def |-> Unset]

Anchor(k) == IF k \in DOMAIN st.anchors THEN st.anchors[k] ELSE EmptyAnchor

With(f, k, v) == [x \in DOMAIN f \cup {k} |-> IF x = k THEN v ELSE f[x]]

(* entry(k).or_insert(v)                                                   *)
OrInsert(f, k, v) == IF k \in DOMAIN f THEN f ELSE With(f, k, v)

-----------------------------------------------------------------------------
Init ==
    /\ stream \in Streams
    /\ read = {}
    /\ st = [anchors |-> <<>>, bridges |-> <<>>, bodies |-> {}, sites |-> {}, xrefs |-> {},
             aliases |-> <<>>, inherits |-> {}, parents |-> {}, childof |-> {},
             edges |-> <<>>, kind |-> <<>>, code |-> <<>>, params |-> <<>>, op |-> <<>>,
             functions |-> {}]
    /\ builder = {}
    /\ pc = "read"

(* The next entry of the stream, with the label given.                     *)
Take(e, label) ==
    /\ pc = "read"
    /\ e \in stream
    /\ e.label = label
    /\ stream' = stream \ {e}
    /\ read' = read \cup {e}
    /\ UNCHANGED pc

-----------------------------------------------------------------------------
(* Edges.                                                                  *)

Completes(e) ==
    /\ Take(e, "completes")
    /\ st' = [st EXCEPT !.bridges = With(@, e.src, e.tgt)]
    /\ UNCHANGED builder

(* The name is stored as it is and without a method descriptor.            *)
Named(e) ==
    LET stripped == strip_jvm_method_descriptor(e.val)
    IN  /\ Take(e, "named")
        /\ st' = [st EXCEPT !.aliases = @ \o <<<<e.src, e.val>>>>
                      \o IF stripped = None THEN <<>> ELSE <<<<e.src, stripped>>>>]
        /\ UNCHANGED builder

Inherit(e) ==
    /\ Take(e, "inherit")
    /\ st' = [st EXCEPT !.inherits = @ \cup {<<e.src, e.tgt>>}, !.parents = @ \cup {e.tgt}]
    /\ UNCHANGED builder

Typed(e) ==
    /\ Take(e, "typed")
    /\ st' = [st EXCEPT !.edges = Append(@, <<e.src, e.tgt>>)]
    /\ UNCHANGED builder

Param(e) ==
    /\ Take(e, "param")
    /\ st' = [st EXCEPT !.params =
                 With(@, e.src, With(IF e.src \in DOMAIN @ THEN @[e.src] ELSE <<>>, e.val, e.tgt))]
    /\ UNCHANGED builder

Childof(e) ==
    /\ Take(e, "childof")
    /\ st' = [st EXCEPT !.childof = @ \cup {<<e.src, e.tgt>>}]
    /\ UNCHANGED builder

SymCall(k, kindbyte) == <<"sym", k, <<kindbyte, LangOf(k), TicketName(k)>>>>
FileCall(path)       == <<"file", path, path>>

(* emit_xref_resolved, with the call site or the body range the edge also  *)
(* gives.  The builder's call and the buffered row go together.            *)
Emit(s, a, target, role) ==
    [s EXCEPT !.xrefs = IF target = 0 THEN @ ELSE @ \cup {<<target, role, a.path, a.start>>},
              !.sites = IF role \in {RoleRef, RoleCall}
                        THEN @ \cup {<<a.path, a.start, target, role>>} ELSE @,
              !.bodies = IF role = RoleDef /\ a.end # Unset
                         THEN @ \cup {<<a.path, a.start, a.end, target>>} ELSE @]

EmitCalls(a, targets) == {FileCall(a.path)} \cup {SymCall(t, UNK) : t \in targets \ {0}}

Located(a) == a.is_anchor /\ a.start # Unset

Placed(a, k) == [a EXCEPT !.path = IF @ = "" THEN PathOf(k) ELSE @]

(* defines/binding, defines, ref, ref/call and their variants; val is the  *)
(* role.                                                                   *)
XrefEdge(e) ==
    LET a0 == Placed(Anchor(e.src), e.src)
        a  == IF e.val = RoleDef THEN [a0 EXCEPT !.body_def = e.tgt] ELSE a0
    IN  /\ Take(e, "xref")
        /\ IF Located(a)
           THEN /\ st' = Emit([st EXCEPT !.anchors = With(@, e.src, a)], a, e.tgt, e.val)
                /\ builder' = builder \cup EmitCalls(a, {e.tgt})
           ELSE /\ st' = [st EXCEPT !.anchors =
                             With(@, e.src, [a EXCEPT !.pending = Append(@, <<e.tgt, e.val>>)])]
                /\ UNCHANGED builder

-----------------------------------------------------------------------------
(* Facts.                                                                  *)

(* The anchor's accumulator becomes a, and if its position is known, the   *)
(* edges that waited for it are resolved.                                  *)
flush_ready(k, a) ==
    LET defs == SelectSeq(a.pending, LAMBDA p : p[2] = RoleDef)
        flushed == [a EXCEPT !.pending = <<>>,
                             !.body_def = IF defs = <<>> THEN @
                                          ELSE IF a.end # Unset THEN Unset ELSE Last(defs)[1]]
    IN  IF ~Located(a)
        THEN st' = [st EXCEPT !.anchors = With(@, k, a)] /\ UNCHANGED builder
        ELSE /\ st' = FoldLeft(LAMBDA s, p : Emit(s, a, p[1], p[2]),
                               [st EXCEPT !.anchors = With(@, k, flushed)], a.pending)
             /\ builder' = builder \cup EmitCalls(a, {p[1] : p \in ToSet(a.pending)})

AnchorFact(e) ==
    /\ Take(e, "kind")
    /\ e.val = "anchor"
    /\ flush_ready(e.src, [Placed(Anchor(e.src), e.src) EXCEPT !.is_anchor = TRUE])

StartFact(e) ==
    /\ Take(e, "start")
    /\ flush_ready(e.src, [Placed(Anchor(e.src), e.src) EXCEPT !.start = e.val])

EndFact(e) ==
    LET a == [Anchor(e.src) EXCEPT !.end = e.val]
    IN  /\ Take(e, "end")
        /\ IF Located(a) /\ a.body_def # Unset
           THEN /\ st' = [st EXCEPT !.anchors = With(@, e.src, a),
                                    !.bodies = @ \cup {<<a.path, a.start, a.end, a.body_def>>}]
                /\ builder' = builder \cup {FileCall(a.path)}
           ELSE /\ st' = [st EXCEPT !.anchors = With(@, e.src, a)]
                /\ UNCHANGED builder

node_kind_byte(v) ==
    CASE v = "function" -> KindFunction
      [] v \in {"record", "interface"} -> 2
      [] v = "variable" -> KindVariable
      [] v \in {"constant", "field"} -> KindField
      [] v = "package" -> 5
      [] OTHER -> UNK

is_type_node_kind(v) == v \in {"tapp", "tbuiltin", "tvar", "record", "interface", "sum", "talias"}

KindFact(e) ==
    /\ Take(e, "kind")
    /\ e.val # "anchor"
    /\ builder' = builder \cup {SymCall(e.src, node_kind_byte(e.val))}
    /\ st' = [st EXCEPT !.functions = IF e.val = "function" THEN @ \cup {e.src} ELSE @,
                        !.kind = IF is_type_node_kind(e.val) THEN With(@, e.src, e.val) ELSE @,
                        !.op = IF e.val = "tbuiltin" /\ Builtin(e.src) # ""
                               THEN With(@, e.src, Builtin(e.src)) ELSE @]

(* subkind "field" or "constant".                                          *)
SubkindFact(e) ==
    /\ Take(e, "field")
    /\ builder' = builder \cup {<<"field", e.src>>}
    /\ UNCHANGED st

CodeFact(e) ==
    LET fqn == parse_marked_source_fqn(e.val)
    IN  /\ Take(e, "code")
        /\ st' = [st EXCEPT !.aliases = IF is_degenerate_render(fqn) THEN @
                                        ELSE Append(@, <<e.src, fqn>>),
                            !.code = OrInsert(@, e.src, e.val)]
        /\ UNCHANGED builder

-----------------------------------------------------------------------------
(* The end of the stream.                                                  *)

(* Mutant: the rows keep the definition's symbol.                          *)
NoBridge(s) == s

remap(s) == IF s \in DOMAIN st.bridges THEN st.bridges[s] ELSE s

(* An order of the bodies; sort_unstable_by_key leaves it open how bodies  *)
(* with one start come out.                                                *)
TieOrders == {r \in [st.bodies -> 1..Cardinality(st.bodies)] : IsInjective(r)}

(* The last body, by file, start and that order, that starts at or before  *)
(* off and ends after it, if there is one.                                 *)
innermost_containing(order, file, off) ==
    LET around == {b \in st.bodies : b[1] = file /\ b[2] <= off /\ b[3] > off}
    IN  {b[4] : b \in {x \in around : \A y \in around :
                          y[2] < x[2] \/ (y[2] = x[2] /\ order[y] <= order[x])}}

BestName(s) ==
    FoldLeft(LAMBDA cur, a : IF remap(a[1]) = s THEN BetterName(cur, a[2]) ELSE cur,
             NoName, st.aliases)

typed_of ==
    FoldLeft(LAMBDA f, e : With(f, e[1], e[2]), <<>>, st.edges)

FinalCalls(order) ==
    {<<"xrefs", <<remap(x[1]), x[2], x[3], x[4]>>>> : x \in st.xrefs}
    \cup {<<"aliases", remap(a[1]), a[2]>> : a \in ToSet(st.aliases)}
    \cup {<<"name", s, BestName(s)>> : s \in {remap(a[1]) : a \in ToSet(st.aliases)}}
    \cup {<<"inherits", <<remap(i[1]), remap(i[2])>>>> : i \in st.inherits}
    \cup {<<"name", remap(k), render_type(st, k)>> :
             k \in {p \in st.parents : render_type(st, p) # None}}
    \cup {<<"childof", <<remap(c[1]), remap(c[2])>>>> : c \in st.childof}
    \cup UNION {{<<"calls", <<remap(f), remap(c[3]), c[4]>>>> :
                    f \in innermost_containing(order, c[1], c[2])} : c \in st.sites}
    \cup {<<"typed", remap(t[1]), render_type(st, t[2])>> :
             t \in {x \in ToSet(st.edges) : render_type(st, x[2]) # None}}
    \cup {<<"sig", remap(f), render_signature(st, typed_of, f)>> :
             f \in {x \in st.functions : render_signature(st, typed_of, x) # None}}

(* The stream ends, or breaks off and the caller tolerates it: a bad       *)
(* length, a short body and an entry that does not parse end the loop.     *)
Finalise ==
    /\ pc = "read"
    /\ \E order \in TieOrders : builder' = builder \cup FinalCalls(order)
    /\ pc' = "done"
    /\ UNCHANGED <<stream, read, st>>

(* The stream breaks off and the caller does not tolerate it.              *)
Fail ==
    /\ pc = "read"
    /\ stream # {}
    /\ pc' = "failed"
    /\ UNCHANGED <<stream, read, st, builder>>

ReadEdge(e) ==
    Completes(e) \/ Named(e) \/ Inherit(e) \/ Typed(e) \/ Param(e) \/ Childof(e) \/ XrefEdge(e)

ReadFact(e) ==
    AnchorFact(e) \/ StartFact(e) \/ EndFact(e) \/ KindFact(e) \/ SubkindFact(e) \/ CodeFact(e)

Next == (\E e \in stream : ReadEdge(e) \/ ReadFact(e)) \/ Finalise \/ Fail

Spec == Init /\ [][Next]_vars

-----------------------------------------------------------------------------
(* What a set of entries says, without regard to an order.                 *)

Of(label) == {e \in read : e.label = label}

Bridged(s) == IF \E e \in Of("completes") : e.src = s
              THEN (CHOOSE e \in Of("completes") : e.src = s).tgt ELSE s

(* The edges of anchors whose position is known: [to, role, file, at].     *)
Sites ==
    {[to |-> x[1].tgt, role |-> x[1].val, file |-> PathOf(x[1].src), at |-> x[2].val,
      of |-> x[1].src] :
        x \in {y \in Of("xref") \X Of("start") :
                  /\ y[1].src = y[2].src
                  /\ \E k \in Of("kind") : k.src = y[1].src /\ k.val = "anchor"}}

(* The function with the shortest body around a call or a reference.       *)
Enclosing(site) ==
    LET around == {p \in Sites \X Of("end") :
                      /\ p[1].role = RoleDef /\ p[1].of = p[2].src /\ p[1].file = site.file
                      /\ p[1].at <= site.at /\ p[2].val > site.at}
        span(p) == p[2].val - p[1].at
    IN  {p[1].to : p \in {x \in around : \A y \in around : span(x) <= span(y)}}

Graph ==
    [kind |-> [k \in {e.src : e \in {x \in Of("kind") : is_type_node_kind(x.val)}} |->
                  (CHOOSE e \in Of("kind") : e.src = k).val],
     code |-> [k \in {e.src : e \in Of("code")} |-> (CHOOSE e \in Of("code") : e.src = k).val],
     params |-> [k \in {e.src : e \in Of("param")} |->
                    [n \in {e.val : e \in {x \in Of("param") : x.src = k}} |->
                        (CHOOSE e \in Of("param") : e.src = k /\ e.val = n).tgt]],
     op |-> [k \in {e.src : e \in {x \in Of("kind") : x.val = "tbuiltin" /\ Builtin(x.src) # ""}}
                |-> Builtin(k)]]

TypeEdges == [k \in {e.src : e \in Of("typed")} |-> (CHOOSE e \in Of("typed") : e.src = k).tgt]

Aliases ==
    {<<Bridged(e.src), e.val>> : e \in Of("named")}
    \cup {<<Bridged(e.src), Front(e.val)>> : e \in {x \in Of("named") : Last(x.val) = DESC}}
    \cup {<<Bridged(e.src), parse_marked_source_fqn(e.val)>> :
             e \in {x \in Of("code") : ~is_degenerate_render(parse_marked_source_fqn(x.val))}}

Expected ==
    LET anchored == {e.src : e \in {x \in Of("kind") : x.val = "anchor"}}
        functions == {e.src : e \in {x \in Of("kind") : x.val = "function"}}
        Names(s) == {a[2] : a \in {x \in Aliases : x[1] = s}}
        sig(f) == render_signature(Graph, TypeEdges, f)
    IN  {SymCall(e.src, node_kind_byte(e.val)) : e \in {x \in Of("kind") : x.val # "anchor"}}
        \cup {SymCall(s.to, UNK) : s \in Sites}
        \cup {<<"field", e.src>> : e \in Of("field")}
        \cup {FileCall(PathOf(e.src)) : e \in {x \in Of("start") : x.src \in anchored}}
        \cup {<<"xrefs", <<Bridged(s.to), s.role, s.file, s.at>>>> : s \in Sites}
        \cup {<<"aliases", a[1], a[2]>> : a \in Aliases}
        \cup UNION {{<<"name", s, n>> : n \in {m \in Names(s) : \A o \in Names(s) :
                                                                   ~prefers_name(m, o)}} :
                       s \in {a[1] : a \in Aliases}}
        \cup {<<"inherits", <<Bridged(e.src), Bridged(e.tgt)>>>> : e \in Of("inherit")}
        \cup {<<"name", Bridged(e.tgt), render_type(Graph, e.tgt)>> :
                 e \in {x \in Of("inherit") : render_type(Graph, x.tgt) # None}}
        \cup {<<"childof", <<Bridged(e.src), Bridged(e.tgt)>>>> : e \in Of("childof")}
        \cup UNION {{<<"calls", <<Bridged(f), Bridged(s.to), s.role>>>> : f \in Enclosing(s)} :
                       s \in {x \in Sites : x.role \in {RoleRef, RoleCall}}}
        \cup {<<"typed", Bridged(k), render_type(Graph, TypeEdges[k])>> :
                 k \in {x \in DOMAIN TypeEdges : render_type(Graph, TypeEdges[x]) # None}}
        \cup {<<"sig", Bridged(f), sig(f)>> : f \in {x \in functions : sig(x) # None}}

(* Whatever order the entries come in and wherever the stream breaks off,  *)
(* the unit leaves exactly what the entries it read say: an anchor's edges *)
(* wait for its position, a bridge reaches the rows that came before it, a *)
(* call goes to the shortest body around it, and types and signatures see  *)
(* the whole graph.                                                        *)
RowsOfEntries == pc = "done" => builder = Expected

RECURSIVE TextOf(_, _)

(* The text of the nodes of a tree whose kind is in K.                     *)
TextOf(t, K) ==
    (IF t.kind \in K THEN ToSet(t.pre) \cup ToSet(t.post) ELSE {})
        \cup UNION {TextOf(t.kids[i], K) : i \in DOMAIN t.kids}

(* A name taken from MarkedSource that has an identifier or a context      *)
(* shows nothing of a return type, a parameter, an initialiser, a modifier *)
(* or a substitution, does not end in a separator and holds no body.       *)
NamesClean ==
    \A e \in Of("code") :
        LET name  == parse_marked_source_fqn(e.val)
            parts == TextOf(e.val, {MS_CONTEXT, MS_IDENTIFIER})
            other == TextOf(e.val, {MS_TYPE, MS_PARAMETER, MS_INITIALIZER, MS_MODIFIER, MS_LOOKUP})
        IN  name # None =>
                /\ BODY \notin ToSet(name)
                /\ (\E x \in ToSet(collect(e.val, TRUE)) : IsWord(x)) =>
                      /\ ToSet(name) \cap other \subseteq parts
                      /\ Last(name) \notin {COLONS, SPACE}
=============================================================================
