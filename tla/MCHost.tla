------------------------------- MODULE MCHost -------------------------------
(* Small instances of Host for TLC. *)
EXTENDS Host

CONSTANTS p1, p2, p3, p4

TwoSinglesAndPair == {<<p1>>, <<p2>>, <<p3, p4>>}
OneAndThree == {<<p1>>, <<p2, p3, p4>>}
=============================================================================
