----------------------------- MODULE MCIngest -----------------------------
(* Instances of Ingest for TLC.                                            *)
EXTENDS Ingest

Edge(src, label, tgt, val) == [src |-> src, label |-> label, tgt |-> tgt, val |-> val]
Fact(src, label, val)      == Edge(src, label, 0, val)

(* Anchors 1 and 2 are the bodies of 10 and 11, one in the other; anchor 3 *)
(* is a call of 12 inside both and anchor 4 a reference in another file.   *)
(* The definition 10 completes the declaration 20.                         *)
Bodies ==
    {Fact(1, "kind", "anchor"), Fact(1, "start", 0), Fact(1, "end", 9), Edge(1, "xref", 10, RoleDef),
     Fact(2, "kind", "anchor"), Fact(2, "start", 3), Fact(2, "end", 6), Edge(2, "xref", 11, RoleDef),
     Fact(3, "kind", "anchor"), Fact(3, "start", 4), Edge(3, "xref", 12, RoleCall),
     Edge(10, "completes", 20, 0)}

(* The call behind the inner body.                                         *)
Behind == (Bodies \ {Fact(3, "start", 4)}) \cup {Fact(3, "start", 7)}

Nested ==
    {Fact(1, "kind", "anchor"), Fact(1, "start", 0), Fact(1, "end", 9), Edge(1, "xref", 10, RoleDef),
     Edge(1, "xref", 10, RoleDecl),
     Fact(4, "kind", "anchor"), Fact(4, "start", 7), Edge(4, "xref", 10, RoleRef),
     Edge(4, "xref", 12, RoleCall), Edge(10, "completes", 20, 0), Edge(20, "inherit", 10, 0),
     Fact(12, "kind", "variable"), Fact(12, "field", 0)}

Leaf(kind) ==
    [kind |-> kind, pre |-> <<100 + kind>>, kids |-> <<>>, join |-> <<COLONS>>,
     post |-> IF kind = MS_IDENTIFIER THEN <<SPACE, BODY>> ELSE <<>>, final |-> kind = MS_CONTEXT]
Word(w) == [Leaf(MS_IDENTIFIER) EXCEPT !.pre = w]

(* 10 is a method of 20 whose type 30 applies "fn" to "ptr" of an array of *)
(* "int" and to the type variable 35; its parameter is 13.                 *)
Types ==
    {Fact(10, "kind", "function"), Fact(10, "code", Word(<<97, COLONS, 98>>)),
     Edge(10, "named", 99, <<97, DOT, 98, DESC>>), Edge(10, "typed", 30, 0),
     Edge(10, "param", 13, 0), Edge(13, "typed", 32, 0), Fact(13, "code", Word(<<98, DOT, 99, BOUND>>)),
     Edge(30, "param", 31, 0), Edge(30, "param", 32, 1), Edge(30, "param", 35, 2),
     Fact(30, "kind", "tapp"), Fact(31, "kind", "tbuiltin"), Fact(32, "kind", "tbuiltin")}
Supers ==
    {Fact(33, "kind", "tapp"), Edge(33, "param", 34, 0), Edge(33, "param", 32, 1),
     Fact(34, "kind", "record"), Fact(34, "code", Word(<<97, ANGLES>>)),
     Fact(33, "code", Word(<<ANGLES>>)), Fact(32, "kind", "tbuiltin"),
     Edge(10, "inherit", 33, 0), Edge(10, "childof", 20, 0), Edge(33, "completes", 21, 0),
     Edge(36, "param", 37, 0), Edge(36, "param", 38, 1), Fact(37, "kind", "tbuiltin"),
     Fact(36, "kind", "tapp"), Edge(10, "typed", 36, 0)}
Cyclic ==
    {Fact(33, "kind", "tapp"), Edge(33, "param", 34, 0), Edge(33, "param", 33, 1),
     Fact(34, "kind", "tvar"), Fact(34, "code", Word(<<98, DOT, 97>>)), Edge(10, "typed", 33, 0)}
Array ==
    {Fact(36, "kind", "tapp"), Edge(36, "param", 37, 0), Edge(36, "param", 39, 1),
     Fact(37, "kind", "tbuiltin"), Fact(39, "kind", "tapp"), Edge(39, "param", 38, 0),
     Edge(39, "param", 32, 1), Fact(38, "kind", "tbuiltin"), Fact(32, "kind", "tbuiltin"),
     Edge(10, "typed", 36, 0)}

(* Trees of depth two over the kinds.                                      *)
MSKinds == {MS_BOX, MS_TYPE, MS_PARAMETER, MS_IDENTIFIER, MS_CONTEXT, MS_LOOKUP, MS_INITIALIZER,
            MS_MODIFIER}
Over(kids, kinds) == {[Leaf(k) EXCEPT !.kids = c] : k \in kinds, c \in kids}
Inner == Over({<<>>} \cup {<<Leaf(k)>> : k \in MSKinds}, MSKinds)
Trees == Over({<<>>} \cup {<<x>> : x \in Inner} \cup {<<x, y>> : x, y \in Inner}, MSKinds)

MCStreams == {Bodies, Behind, Nested, Types, Supers, Cyclic, Array} \cup {{Fact(10, "code", t)} : t \in Trees}

MCPathOf(k)  == IF k = 4 THEN "b" ELSE "a"
MCLangOf(k)  == IF k < 30 THEN 1 ELSE 0
MCBuiltin(k) == CASE k = 31 -> "fn" [] k = 32 -> "int" [] k = 37 -> "ptr" [] k = 38 -> "array"
                  [] OTHER -> ""

TokTicket(n)     == n # <<>> /\ n[1] = TicketTok
TokDegenerate(n) == n # <<>> /\ is_degenerate_render(n)
TokLen(n)        == Len(n)
TokBefore(m, n)  == StrLess(m, n)
TokStrings       == {<<>>} \cup {<<x>> : x \in {ANGLES, 97, TicketTok}} \cup {<<TicketTok, 97>>}
=============================================================================
