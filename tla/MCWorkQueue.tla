---------------------------- MODULE MCWorkQueue ----------------------------
(* Small instances of WorkQueue for TLC. *)
EXTENDS WorkQueue

CONSTANTS p1, p2, p3

ThreePolicies == <<p1, p2, p3>>
=============================================================================
