------------------------------ MODULE MCCorpus ------------------------------
(* Small instances of Corpus for TLC. *)
EXTENDS Corpus

CONSTANTS p1, p2, p3, p4

Spends == [p \in Policy |-> IF p = p1 THEN 1 ELSE IF p = p4 THEN 3 ELSE 2]
Wealths == [p \in Policy |-> IF p = p3 THEN 2 ELSE 1]
=============================================================================
