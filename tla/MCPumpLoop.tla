----------------------------- MODULE MCPumpLoop -----------------------------
(* Instances of PumpLoop for TLC, at the code's own constants. *)
EXTENDS PumpLoop

CONSTANTS host1, host2, host3

Policies == 1 .. 93
Lists == {[i \in 1 .. n |-> i] : n \in {0, 17, 20, 90}}
Ranks == [p \in Peer |-> CASE p = host1 -> 3 [] p = host2 -> 2 [] p = host3 -> 1]
Pools == [p \in Peer |-> IF p = host2 THEN 3 ELSE 5]
Engines == [p \in Peer |-> CASE p = host1 -> Compact [] p = host2 -> TypeScript [] p = host3 -> Shadow]
Depths == [p \in Peer |-> IF p = host1 THEN 4 ELSE 2]
Hints == [p \in Peer |-> IF p = host1 THEN 400 ELSE 1500]

(* With the hosts of `busy` at a batch of two slots each; measurements are *)
(* of the present stage: only a host that completed a batch has one.       *)
QueueWith(list, busy) ==
  [NewQueue(list, 0) EXCEPT
     !.inFlight = [b \in {Ranks[p] : p \in busy} |->
                     [peer |-> CHOOSE p \in busy : Ranks[p] = b, policies |-> <<90 + b>>]],
     !.attempts = [x \in Policy |-> IF \E p \in busy : x = 90 + Ranks[p] THEN 1 ELSE 0],
     !.totalPolicies = Len(list) + Cardinality(busy),
     !.nextBatchSeq = 9]
HostsWith(busy, warmed) ==
  [p \in Peer |-> [ reserved |-> [b \in IF p \in busy THEN {Ranks[p]} ELSE {} |-> 2],
                    warmed |-> p \in warmed, incomplete |-> 0, cooling |-> FALSE ]]
Means(warmed) == {m \in [Peer -> {0, 500, 1999, 2000}] : \A p \in Peer \ warmed : m[p] = 0}

PumpCalls ==
  UNION { UNION { [ queue : {QueueWith(list, busy) : list \in Lists},
                    host : {HostsWith(busy, warmed)}, hosts : {hosts},
                    mean : Means(warmed), trials : {200, 2000} ]
                  : busy \in SUBSET Peer, warmed \in SUBSET hosts } : hosts \in SUBSET Peer }
=============================================================================
