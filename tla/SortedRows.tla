----------------------------- MODULE SortedRows -----------------------------
(***************************************************************************)
(* Sorted tables of rows.  A row is a tuple of numbers and is ordered as   *)
(* its big-endian bytes are: by its columns from left to right.            *)
(***************************************************************************)
EXTENDS Integers, Sequences, FiniteSets

(* The rows of k columns.                                                  *)
Tuple(k) == [1..k -> Int]

LexLess(a, b) ==
    \E i \in DOMAIN a : a[i] < b[i] /\ \A j \in 1..(i - 1) : a[j] = b[j]

(* Strings are sequences; a prefix comes first.                            *)
StrLess(s, t) ==
    \/ Len(s) < Len(t) /\ SubSeq(t, 1, Len(s)) = s
    \/ \E i \in 1..Len(s) : /\ i <= Len(t)
                            /\ s[i] < t[i]
                            /\ SubSeq(s, 1, i - 1) = SubSeq(t, 1, i - 1)

(* The elements of S in the order Less: the element of rank i is the one   *)
(* with i - 1 elements below it.                                           *)
InOrder(S, Less(_, _)) ==
    [i \in 1..Cardinality(S) |->
        CHOOSE x \in S : Cardinality({y \in S : Less(y, x)}) = i - 1]

Sorted(S) == InOrder(S, LexLess)

Smaller(a, b) == IF a <= b THEN a ELSE b
=============================================================================
