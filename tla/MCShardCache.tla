----------------------------- MODULE MCShardCache -----------------------------
(* Instances of ShardCache for TLC.                                        *)
EXTENDS ShardCache, TLC

\* One source: as extracted; with its arguments swapped; extracted again with
\* its inputs listed in another order; and in another working directory.
Old   == [sha |-> 1, lang |-> "c++", args |-> <<"-a", "-b">>, inputs |-> <<"x", "y">>,
          rest |-> "/here"]
New   == [Old EXCEPT !.sha = 2, !.args = <<"-b", "-a">>]
Again == [Old EXCEPT !.sha = 3, !.inputs = <<"y", "x">>]
Moved == [Again EXCEPT !.sha = 5, !.rest = "/there"]

Rebuilt  == {{Old}, {New, Moved}}
Twins    == {{Old, Again}}
Single   == {{Old}, {Moved}}
AnyWorker == Permutations(Worker)
NoInject == {<<>>}
OneRule  == {<<>>, <<"-p">>}
=============================================================================
