------------------------------ MODULE MCFileIds ------------------------------
(* Instances of FileIds for TLC.                                           *)
EXTENDS FileIds

\* Every anchor's path is named by the protos, or empty (0); path 3 is named
\* by a proto only.
MCCandidates == <<{2, 3}, {1, 2}>>
MCTouches    == <<{0, 2}, {1, 2}>>
FewTouches   == <<{0}, {2}, {1}>>
AllCUs       == {CUs}
AnyCUs       == SUBSET CUs \ {{}}
=============================================================================
