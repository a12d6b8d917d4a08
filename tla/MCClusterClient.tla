--------------------------- MODULE MCClusterClient ---------------------------
(* Small instances of ClusterClient for TLC. *)
EXTENDS ClusterClient

CONSTANTS w1, w2
=============================================================================
