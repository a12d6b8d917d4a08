------------------------------ MODULE PumpLoop ------------------------------
(***************************************************************************)
(* pumpDispatch as the code writes it, two nested loops over hosts and     *)
(* batches with the batch sizes of module BatchSizing, compared with the   *)
(* handouts of module DispatchPump that the dispatcher's actions use.  A   *)
(* state is one call of the pump: the queue, the host records, the hosts   *)
(* it may feed, their measurements in milliseconds per policy and the      *)
(* trials of a batch.                                                      *)
(***************************************************************************)
EXTENDS DispatchPump, BatchSizing

CONSTANTS
  Calls,       \* the calls to try
  Hint,        \* Hint[p]: ms per policy of p's perf class
  Runtime      \* Runtime[p]: the engine p registered with

(* What pumpDispatch is called with: reserved batches carry ids below the  *)
(* queue's next one.                                                       *)
IsCall(c) ==
  /\ c = [queue |-> c.queue, host |-> c.host, hosts |-> c.hosts,
          mean |-> c.mean, trials |-> c.trials]
  /\ QueueTypeOK(c.queue) /\ IsInjective(c.queue.pending)
  /\ c.hosts \in SUBSET Peer /\ IsFiniteSet(c.hosts)
  /\ c.host = [p \in Peer |-> c.host[p]]
  /\ \A p \in Peer :
       /\ c.host[p] \in [ reserved : [DOMAIN c.host[p].reserved -> Nat],
                          warmed : BOOLEAN, incomplete : Nat, cooling : BOOLEAN ]
       /\ DOMAIN c.host[p].reserved \subseteq 1 .. c.queue.nextBatchSeq
  /\ c.mean \in [Peer -> Nat] /\ c.trials \in Nat \ {0}

ASSUME PumpLoopAssumption ==
  /\ TailStart = TAIL_STEAL_THRESHOLD
  /\ Runtime \in [Peer -> Runtimes]
  /\ \A p \in Peer :
       /\ Depth[p] = TargetInFlightBatchesForRuntime(Runtime[p])
       /\ MaxBatchSizeForRuntime(Runtime[p], Workers[p], Workers[p]) <= LargestBatch
       /\ WarmupMaxBatchSize(Workers[p]) <= LargestBatch
       /\ LargestBatch * Depth[p] * SLOW_HOST_TAIL_WORK_MULTIPLIER <= TailBudget
  /\ Hint \in [Peer -> Nat \ {0}]
  /\ \A c \in Calls : IsCall(c)

VARIABLE call

FastestMeasuredMsPerPolicy(c) ==
  LET measured == {c.mean[p] : p \in c.hosts} \ {0}
  IN  IF NeedsWarmup(c.host, c.hosts) \/ measured = {} THEN 0 ELSE Min(measured)

FreeSlots(h, p) == Max({0, Workers[p] - SlotsReserved(h, p)})

PlannedSize(c, p, left, free) ==
  RecommendedBatchSize(
    Hint[p], IF c.host[p].warmed THEN c.mean[p] ELSE 0, left, c.trials,
    IF NeedsWarmup(c.host, c.hosts)
    THEN WarmupMaxBatchSize(Workers[p])
    ELSE MaxBatchSizeForRuntime(Runtime[p], Workers[p], free),
    TargetBatchWallClockMsForRuntime(Runtime[p]))

IsThrottled(c, p, left, free) ==
  /\ ~NeedsWarmup(c.host, c.hosts)
  /\ ShouldThrottleSlowHostForTail(c.mean[p], FastestMeasuredMsPerPolicy(c), left,
       PlannedSize(c, p, left, free), Depth[p])

(* Mutant: the batch is not entered in the host's index. *)
AddBatchForgets(h, p, b, slots) == h

AddBatch(h, p, b, slots) ==
  [h EXCEPT ![p].reserved =
     [d \in DOMAIN h[p].reserved \cup {b} |-> IF d = b THEN slots ELSE h[p].reserved[d]]]

(* The pump so far: queue and records, the handout as a function like that *)
(* of DispatchPump, and at how many pending policies a host was held back. *)
Started(c) ==
  [ queue |-> c.queue, host |-> c.host, to |-> [e \in {} |-> 0],
    limit |-> [p \in c.hosts |-> 0] ]

(* One batch of n policies for host p. *)
Assigned(c, r, p, n) ==
  LET q   == AssignBatch(r.queue, p, n)
      end == Len(c.queue.pending) - Len(q.pending)
      got == Len(r.queue.pending) - Len(q.pending)
  IN  [ queue |-> q,
        host  |-> AddBatch(r.host, p, q.nextBatchSeq,
                    ReserveWorkerSlotsForBatch(Workers[p], TargetDepth(c.host, c.hosts, p), got)),
        to    |-> [e \in DOMAIN r.to \cup {end} |-> IF e = end THEN p ELSE r.to[e]],
        limit |-> r.limit ]

(* Whether the while loop ends for host p. *)
IsFull(c, p, r) ==
  \/ Len(r.queue.pending) = 0
  \/ Cardinality(DOMAIN r.host[p].reserved) >= TargetDepth(c.host, c.hosts, p)
  \/ FreeSlots(r.host, p) = 0

(* One turn of the while loop for host p; turns after its end change       *)
(* nothing.                                                                *)
FeedOnce(c, p, r) ==
  LET left == Len(r.queue.pending)
      free == FreeSlots(r.host, p)
  IN  IF IsFull(c, p, r) THEN r
      ELSE IF IsThrottled(c, p, left, free)
      THEN [r EXCEPT !.limit[p] = Max({left, TAIL_STEAL_THRESHOLD})]
      ELSE Assigned(c, r, p, PlannedSize(c, p, left, free))

(* The while loop: a turn that does not end it fills one of the host's     *)
(* `depth` places, so there are at most that many; a pump that warms up    *)
(* breaks after the first.                                                 *)
FeedHost(c, p, r) ==
  LET depth == TargetDepth(c.host, c.hosts, p)
      turn[k \in 0 .. depth] == IF k = 0 THEN r ELSE FeedOnce(c, p, turn[k - 1])
  IN  turn[depth]

Visit(c, p, r) ==
  IF \/ Len(r.queue.pending) = 0
     \/ /\ NeedsWarmup(c.host, c.hosts)
        /\ c.host[p].warmed \/ DOMAIN r.host[p].reserved # {}
  THEN r ELSE FeedHost(c, p, r)

(* The for loop over the dispatchable hosts in name order.                 *)
InNameOrder(hosts) ==
  Listing(hosts, {pr \in hosts \X hosts : Rank[pr[1]] < Rank[pr[2]]})

PumpDispatch(c) ==
  LET order == InNameOrder(c.hosts)
      after[i \in 0 .. Len(order)] ==
        IF i = 0 THEN Started(c) ELSE Visit(c, order[i], after[i - 1])
  IN  after[Len(order)]

Pumped(c) == [c EXCEPT !.queue = PumpDispatch(c).queue, !.host = PumpDispatch(c).host]
-----------------------------------------------------------------------------
PumpInit == call \in Calls

(* One pump. *)
PumpNext == call' = Pumped(call)

PumpSpec == PumpInit /\ [][PumpNext]_call
-----------------------------------------------------------------------------
(* What pumpDispatch's loops hand out, for every runtime, measurement and  *)
(* trial count, is a handout the dispatcher's actions allow, with the same *)
(* batches, ids and reservations.  In particular the tail never gets more  *)
(* than one policy at a time, and the throttle never holds back every      *)
(* host, which is what lets a session finish its tail.                     *)
PumpMatchesLoop ==
  LET r == PumpDispatch(call)
  IN  /\ r.limit \in Limits(call.host, call.hosts)
      /\ IsHandout(call.queue, call.host, call.hosts, r.limit, r.to)
      /\ r.queue = HandOut(call.queue, r.to)
      /\ r.host = Reserve(call.queue, call.host, call.hosts, r.to)

(* "Idempotent - calling it more than necessary is harmless" (pumpDispatch *)
(* comment): a second pump right after the first hands out nothing, though *)
(* batches get smaller and the throttle tighter as the queue drains.       *)
PumpIsIdempotent == [][ DOMAIN PumpDispatch(call').to = {} ]_call
=============================================================================
