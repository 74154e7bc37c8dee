----------------------------- MODULE Rendering -----------------------------
(***************************************************************************)
(* Names, types and signatures from what a compilation unit's stream says  *)
(* (kythe.rs): a qualified name from a MarkedSource tree, a type from the  *)
(* graph of type nodes, a signature from a function's parameters.          *)
(*                                                                         *)
(* A string is a sequence of tokens, each a number: an identifier or a     *)
(* piece of punctuation is one token.  The empty string stands for None.   *)
(* A tree is [kind, pre, kids, join, post, final]: the wire decoding of    *)
(* read_proto_field and fields is left out.                                *)
(***************************************************************************)
EXTENDS SortedRows, SequencesExt

CONSTANT TYPE_RENDER_MAX_DEPTH      \* 64

None == <<>>

SPACE   == 32   \* white space
OPEN    == 40   \* "("
CLOSE   == 41   \* ")"
STAR    == 42   \* "*", "&" or "&&"
COMMA   == 44   \* ", "
DOT     == 46   \* "."
COLONS  == 58   \* "::"
ANGLES  == 60   \* "<>", and the brackets around type arguments
HOLE    == 63   \* "?"
BOUND   == 91   \* "[]" or "[n]"
BODY    == 123  \* a newline, a brace or a semicolon
CONST   == 124  \* "const" or "volatile"
DESC    == 125  \* a JVM method descriptor

IsWord(tok) == tok \notin {SPACE, OPEN, CLOSE, STAR, COMMA, DOT, COLONS, ANGLES, HOLE,
                           BOUND, BODY}

-----------------------------------------------------------------------------
(* MarkedSource.                                                           *)

MS_BOX         == 0
MS_TYPE        == 1
MS_PARAMETER   == 2
MS_IDENTIFIER  == 3
MS_CONTEXT     == 4
MS_INITIALIZER == 5
MS_LOOKUP      == 6     \* 6 to 11, the substitution kinds
MS_MODIFIER    == 12

(* Mutant: only the parameters are kept out of names.                      *)
OnlyParameters(kind) == kind = MS_PARAMETER

name_excluded(kind) == kind \in {MS_TYPE, MS_PARAMETER, MS_INITIALIZER, MS_MODIFIER, MS_LOOKUP}

(* parts with the joiner between them, and after them if final.            *)
Joined(parts, join, final) ==
    LET all == FlattenSeq([i \in DOMAIN parts |->
                              IF i = 1 THEN parts[i] ELSE join \o parts[i]])
    IN  IF parts # <<>> /\ final THEN all \o join ELSE all

RECURSIVE render_name(_), render_faithful(_), collect(_, _)

(* A subtree as part of a name, without what does not belong to names.     *)
render_name(t) ==
    LET ident == t.kind = MS_IDENTIFIER
        kept  == SelectSeq(t.kids, LAMBDA c : IF ident THEN c.kind = MS_IDENTIFIER
                                              ELSE ~name_excluded(c.kind))
    IN  t.pre \o Joined([i \in DOMAIN kept |-> render_name(kept[i])], t.join, t.final)
              \o IF ident THEN <<>> ELSE t.post

render_faithful(t) ==
    t.pre \o Joined([i \in DOMAIN t.kids |-> render_faithful(t.kids[i])], t.join, t.final)
          \o t.post

(* The context and identifier subtrees in document order; boxes are        *)
(* transparent.                                                            *)
collect(t, is_root) ==
    IF ~is_root /\ name_excluded(t.kind) THEN <<>>
    ELSE IF t.kind \in {MS_CONTEXT, MS_IDENTIFIER} THEN render_name(t)
    ELSE FlattenSeq([i \in DOMAIN t.kids |-> collect(t.kids[i], FALSE)])

(* s without the tokens of T at its end, and at both ends.                 *)
TrimEnd(s, T) ==
    LET n == CHOOSE k \in 0..Len(s) : /\ k = 0 \/ s[k] \notin T
                                      /\ \A j \in (k + 1)..Len(s) : s[j] \in T
    IN  SubSeq(s, 1, n)

Trim(s) == Reverse(TrimEnd(Reverse(TrimEnd(s, {SPACE})), {SPACE}))

is_name(s) == s # None /\ BODY \notin ToSet(s)

parse_marked_source_fqn(t) ==
    LET name == TrimEnd(TrimEnd(Trim(collect(t, TRUE)), {COLONS}), {SPACE})
        full == Trim(render_faithful(t))
        best == IF name # None THEN name ELSE full
    IN  IF is_name(best) THEN best ELSE None

is_degenerate_render(s) == \A i \in DOMAIN s : ~IsWord(s[i])

(* A generic type's own "<>" is dropped.                                   *)
typename_from_marked_source(t) ==
    TrimEnd(TrimEnd(parse_marked_source_fqn(t), {ANGLES}), {SPACE})

(* What follows the last separator.                                        *)
short_name(s) ==
    LET i == CHOOSE k \in 0..Len(s) : /\ k = 0 \/ s[k] \in {COLONS, DOT}
                                      /\ \A j \in (k + 1)..Len(s) : s[j] \notin {COLONS, DOT}
    IN  SubSeq(s, i + 1, Len(s))

(* s up to the first token tok.                                            *)
UpTo(s, tok) ==
    LET n == CHOOSE k \in 0..Len(s) : /\ k = Len(s) \/ s[k + 1] = tok
                                      /\ \A j \in 1..k : s[j] # tok
    IN  TrimEnd(SubSeq(s, 1, n), {SPACE})

bare_param_name(s) == UpTo(s, BOUND)

strip_jvm_method_descriptor(s) ==
    IF s # <<>> /\ Last(s) = DESC THEN Front(s) ELSE None

-----------------------------------------------------------------------------
(* Types.  A graph g holds, per node key, its kind, code, parameters by    *)
(* ordinal and builtin operator; each is a function on the keys known.     *)

NodeKind(g, k)  == IF k \in DOMAIN g.kind THEN g.kind[k] ELSE ""
BuiltinOp(g, k) == IF k \in DOMAIN g.op THEN g.op[k] ELSE ""
Params(g, k) ==
    IF k \notin DOMAIN g.params THEN <<>>
    ELSE LET ord == InOrder(DOMAIN g.params[k], <)
         IN  [i \in DOMAIN ord |-> g.params[k][ord[i]]]
TypeName(g, k) ==
    IF k \in DOMAIN g.code THEN typename_from_marked_source(g.code[k]) ELSE None

OrHole(s) == IF s = None THEN <<HOLE>> ELSE s

is_array_op(op)    == op = "array"
IsPtrOrRef(op)     == op = "ptr"
FirstArg(args)     == IF args = <<>> THEN <<HOLE>> ELSE args[1]
OpToken(op)        == IF op = "int" THEN 201 ELSE 202

render_builtin_app(op, args) ==
    CASE op = "ptr"   -> FirstArg(args) \o <<STAR>>
      [] op = "const" -> <<CONST>> \o FirstArg(args)
      [] op = "fn"    -> FirstArg(args) \o <<OPEN>>
                            \o Joined(SubSeq(args, 2, Len(args)), <<COMMA>>, FALSE) \o <<CLOSE>>
      [] OTHER        -> IF args = <<>> THEN <<OpToken(op)>>
                         ELSE <<OpToken(op), ANGLES>> \o Joined(args, <<COMMA>>, FALSE) \o <<ANGLES>>

RECURSIVE render_type_rec(_, _, _)

(* The element of an array type, None for any other type.                  *)
array_element_render(g, k, depth) ==
    LET p == Params(g, k)
    IN  IF depth <= TYPE_RENDER_MAX_DEPTH /\ NodeKind(g, k) = "tapp" /\ Len(p) >= 2
        THEN IF NodeKind(g, p[1]) = "tbuiltin" /\ is_array_op(BuiltinOp(g, p[1]))
             THEN render_type_rec(g, p[2], depth + 1) ELSE None
        ELSE None

(* A type application: its head is the first parameter.                    *)
RenderApplication(g, p, depth) ==
    LET op      == BuiltinOp(g, p[1])
        args    == [i \in 1..(Len(p) - 1) |-> OrHole(render_type_rec(g, p[i + 1], depth + 1))]
        element == IF IsPtrOrRef(op) /\ Len(p) >= 2 THEN array_element_render(g, p[2], depth)
                   ELSE None
        head    == render_type_rec(g, p[1], depth + 1)
    IN  IF NodeKind(g, p[1]) = "tbuiltin"
        THEN IF is_array_op(op) THEN FirstArg(args) \o <<BOUND>>
             ELSE IF element # None THEN element \o <<OPEN, STAR, CLOSE, BOUND>>
             ELSE render_builtin_app(op, args)
        ELSE IF head = None \/ args = <<>> THEN head
        ELSE head \o <<ANGLES>> \o Joined(args, <<COMMA>>, FALSE) \o <<ANGLES>>

render_type_rec(g, k, depth) ==
    IF depth > TYPE_RENDER_MAX_DEPTH THEN None
    ELSE IF NodeKind(g, k) = "tapp"
    THEN IF Params(g, k) = <<>> THEN TypeName(g, k) ELSE RenderApplication(g, Params(g, k), depth)
    ELSE IF TypeName(g, k) # None
    THEN IF NodeKind(g, k) = "tvar" THEN short_name(TypeName(g, k)) ELSE TypeName(g, k)
    ELSE IF BuiltinOp(g, k) # "" THEN <<OpToken(BuiltinOp(g, k))>> ELSE None

render_type(g, k) == render_type_rec(g, k, 0)

-----------------------------------------------------------------------------
(* Signatures.  typed_of maps a symbol's key to the key of its type.       *)

TypeOf(g, typed_of, k) == IF k \in DOMAIN typed_of THEN render_type(g, typed_of[k]) ELSE None
NameOf(g, k) ==
    IF k \in DOMAIN g.code THEN short_name(parse_marked_source_fqn(g.code[k])) ELSE None

(* type and name with a space between, or the one there is.                *)
Beside(x, y) == IF x = None THEN y ELSE IF y = None THEN x ELSE x \o <<SPACE>> \o y

render_signature(g, typed_of, f) ==
    LET name   == NameOf(g, f)
        ret    == UpTo(TypeOf(g, typed_of, f), OPEN)
        params == Params(g, f)
        pname  == [i \in DOMAIN params |-> bare_param_name(NameOf(g, params[i]))]
        part   == [i \in DOMAIN params |->
                      OrHole(Beside(TypeOf(g, typed_of, params[i]), pname[i]))]
    IN  IF params = <<>>
        THEN IF ret = None \/ name = None THEN None ELSE Beside(ret, name) \o <<OPEN, CLOSE>>
        ELSE IF \A i \in DOMAIN params : pname[i] = None THEN None
        ELSE Beside(ret, name) \o <<OPEN>> \o Joined(part, <<COMMA>>, FALSE) \o <<CLOSE>>
=============================================================================
