--------------------------- MODULE MCIndexTables ---------------------------
(* Instances of IndexTables for TLC.                                       *)
EXTENDS IndexTables

(* Names in lexicographic order: 1 "<>", 2 "Foo", 3 "b.Foo.run", 4 "kythe: *)
(* ..#a", 5 "kythe:..#b", 6 "run".                                         *)
NumStrings       == 0..6
NumTicket(n)     == n \in {4, 5}
NumDegenerate(n) == n = 1
NumBefore(m, n)  == m < n
NumLen(n)        == CASE n = 0 -> 0 [] n = 1 -> 2 [] n \in {2, 6} -> 3 [] OTHER -> 9

(* A function's definition, its use, a field's definition, a parameter     *)
(* seen without its kind, and the unit that knows its kind.                *)
Def   == {<<"sym", 1, <<1, 1, 4>>>>, <<"name", 1, 3>>, <<"aliases", 1, 3>>,
          <<"typed", 1, 2>>, <<"sig", 1, 6>>, <<"childof", <<1, 2>>>>}
Use   == {<<"sym", 1, <<0, 1, 4>>>>, <<"name", 1, 1>>, <<"typed", 1, 1>>,
          <<"xrefs", <<1, 2, 0, 7>>>>, <<"calls", <<3, 1, 3>>>>, <<"file", 0, 2>>}
Field == {<<"sym", 2, <<3, 2, 5>>>>, <<"field", 2>>, <<"aliases", 2, 6>>,
          <<"inherits", <<2, 1>>>>, <<"xrefs", <<2, 1, 1, 3>>>>, <<"file", 1, 3>>}
Param == {<<"sym", 3, <<0, 0, 4>>>>, <<"aliases", 3, 2>>, <<"name", 3, 2>>,
          <<"name", 3, 6>>}
Local == {<<"sym", 3, <<3, 1, 0>>>>, <<"aliases", 3, 6>>, <<"calls", <<1, 3, 2>>>>}

(* The field of Field once more without its subkind.                       *)
NoSubkind == {<<"sym", 2, <<3, 2, 5>>>>, <<"name", 2, 6>>}

MCCUs   == 1..6
MCFacts == <<Def, Use, Field, Param, Local, NoSubkind>>
=============================================================================
