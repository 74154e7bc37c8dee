------------------------------- MODULE Lists -------------------------------
(***************************************************************************)
(* Filters of lists.  What an element is kept for is a set or a function,  *)
(* so that one statement about a filter covers all its uses.               *)
(***************************************************************************)
EXTENDS SequencesExt

(* The elements of s that are in K.                                        *)
Keep(s, K) ==
    FoldLeft(LAMBDA acc, x : IF x \in K THEN Append(acc, x) ELSE acc, <<>>, s)

(* The elements of s whose key no earlier element has.                     *)
DistinctBy(s, key) ==
    FoldLeft(LAMBDA acc, x : IF \E y \in ToSet(acc) : key[y] = key[x] THEN acc
                             ELSE Append(acc, x), <<>>, s)

(* The first n distinct elements of s.                                     *)
FirstDistinct(s, n) ==
    FoldLeft(LAMBDA acc, x : IF x \in ToSet(acc) \/ Len(acc) >= n THEN acc
                             ELSE Append(acc, x), <<>>, s)
=============================================================================
