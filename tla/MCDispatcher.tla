---------------------------- MODULE MCDispatcher ----------------------------
(* Small instances of Dispatcher for TLC. *)
EXTENDS Dispatcher, TLC

CONSTANTS p1, p2, p3, host1, host2

TwoPolicies == <<p1, p2>>
ThreePolicies == <<p1, p2, p3>>

Ranks == [p \in Peer |-> IF p = host1 THEN 1 ELSE 2]
TwoWorkers == [p \in Peer |-> 2]
ThreeWorkers == [p \in Peer |-> 3]
DepthTwo == [p \in Peer |-> 2]
=============================================================================
