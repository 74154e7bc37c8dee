---------------------------- MODULE ResumableBuild ----------------------------
(***************************************************************************)
(* What a build that can be killed and resumed promises.  A run accounts   *)
(* for items one by one; a checkpoint lets a later run take items as done; *)
(* an output is published.  How items are buffered, drained, written and   *)
(* merged is left to the implementation: FromKzip.                         *)
(***************************************************************************)
CONSTANT Item

VARIABLES
    running,    \* is a run under way?
    resumed,    \* did it start from the checkpoint?
    accounted,  \* items it has processed or taken as done
    checkpoint, \* items a resumed run takes as done
    published   \* items the published output holds

bvars == <<running, resumed, accounted, checkpoint, published>>

Init ==
    /\ running = FALSE /\ resumed = FALSE /\ accounted = {}
    /\ checkpoint \in SUBSET Item /\ published = {}

Begin ==
    /\ ~running /\ running' = TRUE
    /\ resumed' \in BOOLEAN
    /\ accounted' = IF resumed' THEN checkpoint ELSE {}
    /\ UNCHANGED <<checkpoint, published>>

Account ==
    /\ running
    /\ \E i \in Item : accounted' = accounted \cup {i}
    /\ UNCHANGED <<running, resumed, checkpoint, published>>

\* The checkpoint names accounted items only; a resumed run never takes one
\* back.
Commit ==
    /\ running
    /\ checkpoint' \in SUBSET accounted
    /\ resumed => checkpoint \subseteq checkpoint'
    /\ UNCHANGED <<running, resumed, accounted, published>>

\* The output holds every accounted item (and what earlier runs left).
Publish ==
    /\ running
    /\ published' \in SUBSET Item /\ accounted \subseteq published'
    /\ UNCHANGED <<running, resumed, accounted, checkpoint>>

\* The checkpoint is given up only once nothing depends on it.
Clear ==
    /\ running /\ accounted \subseteq published
    /\ checkpoint' = {}
    /\ UNCHANGED <<running, resumed, accounted, published>>

\* The run ends, or is killed.
Stop ==
    /\ running /\ running' = FALSE /\ resumed' = FALSE /\ accounted' = {}
    /\ UNCHANGED <<checkpoint, published>>

\* The operator throws the checkpoint away.
Abandon ==
    /\ ~running
    /\ checkpoint' = {}
    /\ UNCHANGED <<running, resumed, accounted, published>>

Next == Begin \/ Account \/ Commit \/ Publish \/ Clear \/ Stop \/ Abandon

Spec == Init /\ [][Next]_bvars
=============================================================================
