------------------------------ MODULE MCQuery ------------------------------
(* Instances of Query for TLC.  The bytes are "A", "a", "b", "#" and the   *)
(* one that stands for "kythe:".                                           *)
EXTENDS Query

A == 65
a == 97
b == 98

Empty == [names |-> <<>>, syms |-> <<>>, xrefs |-> <<>>, files |-> <<>>, inh |-> <<>>,
          inhrev |-> <<>>, calls |-> <<>>, crev |-> <<>>, typed |-> <<>>, childrev |-> <<>>,
          sig |-> <<>>]

(* Names for the search: in Long "aab" has five blocks of two ids, and     *)
(* symbols have aliases; the names of Short have no trigram.               *)
Long == {<<<<a, a, b>>, 1>>, <<<<a, a, b>>, 2>>, <<<<a, a, b, a>>, 1>>,
         <<<<a, a, b, b>>, 3>>, <<<<a, b, A, a, b>>, 3>>, <<<<b, a, a, b>>, 4>>,
         <<<<a, A, b>>, 5>>, <<<<a, b, b>>, 5>>, <<<<b, a, a>>, 6>>,
         <<<<a, a, a, b, b>>, 7>>, <<<<b>>, 7>>, <<<<b, b, a, a, b>>, 8>>}
Short == {<<<<a>>, 1>>, <<<<a, A>>, 1>>, <<<<a, b>>, 2>>, <<<<b>>, 2>>, <<<<b, b>>, 3>>}

OnlyNames(T) == [Empty EXCEPT !.names = InOrder(T, NameLess),
                              !.xrefs = Sorted({<<r[2], RoleDef, 0, r[2]>> : r \in T})]

(* A code base: symbols 3 and 4 are copies with one name, 1 and 2 copies   *)
(* whose tickets differ, 7 has no metadata, 8 is a ticket without a        *)
(* signature; file 2 has no path.                                          *)
Ticket1 == <<TicketByte, Hash, a, b>>
Ticket2 == <<TicketByte, a, Hash, a, b>>
Ticket8 == <<TicketByte, b, Hash>>
Aab     == <<a, a, b>>
Syms == {<<1, 1, 1, Ticket1>>, <<2, 1, 1, Ticket2>>, <<3, 1, 1, Aab>>, <<4, 1, 1, Aab>>,
         <<5, KindType, 1, <<b>>>>, <<6, KindType, 1, <<b, a>>>>, <<8, KindType, 1, Ticket8>>}
Calls == {<<3, 1, 3>>, <<4, 2, 3>>, <<1, 5, 3>>, <<2, 6, 3>>, <<5, 3, 3>>, <<6, 7, 3>>,
          <<4, 6, 3>>}
Inh == {<<5, 1>>, <<5, 2>>, <<6, 5>>, <<6, 8>>, <<3, 4>>, <<4, 6>>, <<1, 7>>}
Rev(rows) == Sorted({[r EXCEPT ![1] = r[2], ![2] = r[1]] : r \in rows})

Code ==
    [names |-> InOrder({<<r[4], r[1]>> : r \in Syms} \cup {<<<<a, b>>, 3>>, <<<<b>>, 4>>}, NameLess),
     syms |-> InOrder(Syms, LAMBDA x, y : x[1] < y[1]),
     xrefs |-> Sorted({<<3, 0, 0, 1>>, <<3, 1, 1, 5>>, <<3, 3, 0, 4>>, <<4, 2, 0, 7>>,
                       <<4, 3, 2, 8>>, <<4, MaxRole, 0, 2>>, <<2, 1, 0, 9>>, <<5, 0, 1, 3>>,
                       <<5, 1, 2, 3>>, <<6, 1, 1, 2>>}),
     files |-> <<<<0, <<a>>>>, <<1, <<b, a>>>>>>,
     inh |-> Sorted(Inh), inhrev |-> Rev(Inh), calls |-> Sorted(Calls), crev |-> Rev(Calls),
     typed |-> <<<<3, 1>>, <<4, 1>>, <<5, 2>>>>,
     childrev |-> Sorted({<<5, 3>>, <<5, 4>>, <<5, 1>>, <<6, 2>>, <<6, 5>>, <<3, 8>>, <<4, 7>>}),
     sig |-> <<<<1, 3>>, <<2, 3>>, <<3, 1>>, <<4, 2>>>>]

(* Copies by their aliases: the ticket 4 has the name of 3 as an alias and *)
(* carries the call; 6 and 7 are tickets without a signature, of which the *)
(* second has a definition site; 8 has a type and no metadata.             *)
Ticket6 == <<TicketByte, a, Hash>>
Ticket7 == <<TicketByte, b, Hash>>
OddSyms == {<<3, 1, 1, <<a, b>>>>, <<4, 1, 1, Ticket1>>, <<5, KindType, 1, Aab>>,
            <<6, KindType, 1, Ticket6>>, <<7, KindType, 1, Ticket7>>}
OddCalls == {<<4, 5, 3>>, <<5, 8, 3>>}
OddInh == {<<5, 6>>, <<5, 7>>}

Odd ==
    [Empty EXCEPT
        !.names = InOrder({<<r[4], r[1]>> : r \in OddSyms} \cup {<<<<a, b>>, 4>>, <<Aab, 8>>}, NameLess),
        !.syms = InOrder(OddSyms, LAMBDA x, y : x[1] < y[1]),
        !.xrefs = Sorted({<<7, 1, 0, 3>>, <<4, 1, 0, 5>>}),
        !.files = <<<<0, <<a>>>>>>,
        !.inh = Sorted(OddInh), !.inhrev = Rev(OddInh),
        !.calls = Sorted(OddCalls), !.crev = Rev(OddCalls),
        !.typed = <<<<5, 1>>, <<8, 1>>>>]

Ask == [verb |-> "def", name |-> Aab, substr |-> FALSE, ignore_case |-> FALSE, limit |-> 9,
        max_hits |-> 9, in_ |-> <<>>, not_in |-> <<>>, def_in |-> <<>>, direction |-> "up",
        depth |-> 3, max_syms |-> 9]

Searches ==
    {[Ask EXCEPT !.name = n, !.substr = TRUE, !.ignore_case = c, !.limit = l] :
        n \in UNION {[1..k -> {A, a, b}] : k \in 0..4}, c \in BOOLEAN, l \in {0, 1, 2, 12}}

Filters == {<<<<>>, <<>>, <<>>>>, <<<<b>>, <<>>, <<>>>>, <<<<a>>, <<b>>, <<>>>>,
            <<<<>>, <<>>, <<b>>>>}

(* A name and whether it is a substring.                                   *)
Names == {<<Aab, FALSE>>, <<<<b>>, FALSE>>, <<Ticket1, FALSE>>, <<<<a, b>>, TRUE>>,
          <<<<b>>, TRUE>>, <<<<a, b>>, FALSE>>}

Listings ==
    {[Ask EXCEPT !.verb = v, !.name = n[1], !.substr = n[2], !.limit = l, !.max_hits = h,
                 !.in_ = f[1], !.not_in = f[2], !.def_in = f[3]] :
        v \in {"def", "ref", "callers", "super", "sub"}, n \in Names, l \in {1, 9},
        h \in {0, 2, 9}, f \in Filters}
    \cup {[Ask EXCEPT !.verb = v, !.name = n[1], !.substr = n[2], !.limit = l] :
             v \in {"type", "sig", "members"}, n \in Names, l \in {0, 1, 2, 9}}

Walks ==
    {[Ask EXCEPT !.verb = v, !.name = n[1], !.substr = n[2], !.limit = 2, !.direction = d,
                 !.depth = k, !.max_syms = m, !.in_ = f[1], !.not_in = f[2], !.def_in = f[3]] :
        v \in WalkVerbs, n \in Names, d \in {"up", "down", "both"}, k \in 0..3,
        m \in {1, 3, 9}, f \in Filters}

MCCases == {<<OnlyNames(Long), Searches>>, <<OnlyNames(Short), Searches>>, <<Empty, Searches>>,
            <<Code, Listings \cup Walks>>, <<Odd, Listings \cup Walks>>}
=============================================================================
