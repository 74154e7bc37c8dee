------------------------------ MODULE MCFromKzip ------------------------------
(* Instances of FromKzip for TLC.                                          *)
EXTENDS FromKzip

MCRows   == [c \in CUs |-> c]
OneKzip  == {CUs}
TwoKzips == {CUs, {1}}
=============================================================================
