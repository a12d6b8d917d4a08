---------------------------- MODULE DispatchPump ----------------------------
(***************************************************************************)
(* Which batches one run of pumpDispatch hands out (cluster/dispatcher.ts  *)
(* with the sizing helpers of cluster/work-queue.ts), as operators on a    *)
(* queue and on what the dispatcher keeps per host.                        *)
(*                                                                         *)
(* A pump cuts a prefix of the pending list into consecutive batches and   *)
(* gives each to one host.  It is described by a function `to` whose       *)
(* domain holds the position of the last policy of each batch and whose    *)
(* value is the host that gets the batch: [2 |-> h1, 3 |-> h2] hands the   *)
(* first two policies to h1 and the third to h2.                           *)
(***************************************************************************)
EXTENDS WorkQueueOps, FiniteSetsExt

CONSTANTS
  Rank,                  \* Rank[p]: place of peer p in displayName order
  Workers,               \* Workers[p]: workerCount p registered with
  Depth,                 \* Depth[p]: batches p's engine is to have outstanding
  LargestBatch,          \* policies in the largest batch any host is offered
  TailStart,             \* pending policies from which on batches are of one
  TailBudget             \* pending policies above which no host is held back

ASSUME PumpAssumption ==
  /\ Rank \in [Peer -> Nat] /\ IsInjective(Rank)
  /\ Workers \in [Peer -> Nat]
  /\ Depth \in [Peer -> Nat \ {0}]
  /\ LargestBatch \in Nat \ {0}
  /\ TailStart \in Nat
  /\ TailBudget \in Nat /\ TailBudget >= TailStart

(* A host record h[p] is what the dispatcher keeps of host p: the slots    *)
(* reserved for each outstanding batch (inFlightSlotReservations; its      *)
(* domain is inFlightBatchIds, both are always written together), whether  *)
(* a batch completed this stage, the incomplete results so far, and        *)
(* whether a cooldown runs.                                                *)

Ceil(a, b) == (a + b - 1) \div b
LesserOf(a, b) == IF a < b THEN a ELSE b

(* One batch's share of host p's workers, and the slots a batch of n       *)
(* policies takes up of it: reserveWorkerSlotsForBatch.                    *)
BatchShare(p, depth) == Ceil(IF Workers[p] = 0 THEN 1 ELSE Workers[p], depth)
ReservationFor(p, depth, n) == LesserOf(n, BatchShare(p, depth))

(* The slots that reservations r stand for: r[b] of them for batch b.      *)
SlotsOf(r) == UNION {{b} \X (1 .. r[b]) : b \in DOMAIN r}
SlotsReserved(h, p) == Cardinality(SlotsOf(h[p].reserved))

(* While some dispatchable host has completed nothing in this stage, only  *)
(* such hosts are fed, one batch each.                                     *)
NeedsWarmup(h, hosts) == \E p \in hosts : ~h[p].warmed
TargetDepth(h, hosts, p) == IF NeedsWarmup(h, hosts) THEN 1 ELSE Depth[p]

(* The batch that ends at e begins after the cut before e. *)
CutBefore(to, e) == Max({0} \cup {d \in DOMAIN to : d < e})
SizeOf(to, e) == e - CutBefore(to, e)
SlotsTaken(h, hosts, to, p, E) ==
  Cardinality(SlotsOf(
    [e \in {e \in E : to[e] = p} |->
       ReservationFor(p, TargetDepth(h, hosts, p), SizeOf(to, e))]))

(* Mutant: the depth check lets one batch too many through. *)
HasRoomForOneMore(h, hosts, to, E, p) ==
  /\ NeedsWarmup(h, hosts) => ~h[p].warmed
  /\ Cardinality(DOMAIN h[p].reserved) + Cardinality({e \in E : to[e] = p})
       <= TargetDepth(h, hosts, p)
  /\ SlotsReserved(h, p) + SlotsTaken(h, hosts, to, p, E) < Workers[p]

(* After the batches ending in E went out, host p may get one more.        *)
HasRoom(h, hosts, to, E, p) ==
  /\ NeedsWarmup(h, hosts) => ~h[p].warmed
  /\ Cardinality(DOMAIN h[p].reserved) + Cardinality({e \in E : to[e] = p})
       < TargetDepth(h, hosts, p)
  /\ SlotsReserved(h, p) + SlotsTaken(h, hosts, to, p, E) < Workers[p]

(* shouldThrottleSlowHostForTail: with limit[p] pending policies or less, *)
(* slow host p gets no more; 0 for the others.  Which hosts are slow and   *)
(* where their limit lies depends on measurements (module BatchSizing) and *)
(* is free here, except that the fastest host is not slow.                 *)
Limits(h, hosts) ==
  { limit \in [hosts -> {0} \cup TailStart .. TailBudget] :
      /\ NeedsWarmup(h, hosts) => \A p \in hosts : limit[p] = 0
      /\ hosts # {} => \E p \in hosts : limit[p] = 0 }

Left(q, E) == Len(q.pending) - Max({0} \cup E)

Hungry(q, h, hosts, limit, to, E) ==
  {p \in hosts : HasRoom(h, hosts, to, E, p) /\ Left(q, E) > limit[p]}

FirstByName(S) == CHOOSE p \in S : \A r \in S : Rank[p] <= Rank[r]

(* recommendedBatchSize, as far as the dispatcher's behaviour depends on   *)
(* it: 1 in the tail, otherwise anything up to the cap.                    *)
BatchSizes(left) == 1 .. (IF left <= TailStart THEN 1 ELSE LargestBatch)

(* Whether a pump with these limits can hand out `to`: each batch goes to  *)
(* the first host in name order that may get one, until there is none or   *)
(* nothing is pending.                                                     *)
IsHandout(q, h, hosts, limit, to) ==
  LET E == DOMAIN to
      before(e) == {d \in E : d < e}
      hungry(D) == Hungry(q, h, hosts, limit, to, D)
  IN  /\ \A e \in E : /\ hungry(before(e)) # {}
                     /\ to[e] = FirstByName(hungry(before(e)))
                     /\ SizeOf(to, e) \in BatchSizes(Left(q, before(e)))
      /\ Left(q, E) = 0 \/ hungry(E) = {}

(* The handouts a pump can make. *)
Handouts(q, h, hosts) ==
  { to \in UNION {[E -> hosts] : E \in SUBSET (1 .. Len(q.pending))} :
      \E limit \in Limits(h, hosts) : IsHandout(q, h, hosts, limit, to) }

(* The sequence number of the batch that ends at e. *)
BatchSeq(q, to, e) == q.nextBatchSeq + Cardinality({d \in DOMAIN to : d <= e})
BatchEnd(q, to, b) == CHOOSE e \in DOMAIN to : BatchSeq(q, to, e) = b
NewBatches(q, to) == {BatchSeq(q, to, e) : e \in DOMAIN to}
PoliciesUpTo(q, to, e) == SubSeq(q.pending, CutBefore(to, e) + 1, e)

(* Mutant: the sequence number is not kept. *)
HandOutForgetsSeq(q, to) ==
  LET given == Max({0} \cup DOMAIN to)
      new   == NewBatches(q, to)
  IN  [q EXCEPT
         !.pending  = SubSeq(q.pending, given + 1, Len(q.pending)),
         !.attempts = [p \in Policy |-> q.attempts[p] +
                         IF \E i \in 1 .. given : q.pending[i] = p THEN 1 ELSE 0],
         !.inFlight = [b \in DOMAIN q.inFlight \cup new |->
                         IF b \notin new THEN q.inFlight[b]
                         ELSE LET e == BatchEnd(q, to, b)
                              IN  [peer |-> to[e], policies |-> PoliciesUpTo(q, to, e)]]]

(* The queue after assignBatch for each batch of the handout. *)
HandOut(q, to) ==
  LET given == Max({0} \cup DOMAIN to)
      new   == NewBatches(q, to)
  IN  [q EXCEPT
         !.pending  = SubSeq(q.pending, given + 1, Len(q.pending)),
         !.attempts = [p \in Policy |-> q.attempts[p] +
                         IF \E i \in 1 .. given : q.pending[i] = p THEN 1 ELSE 0],
         !.inFlight = [b \in DOMAIN q.inFlight \cup new |->
                         IF b \notin new THEN q.inFlight[b]
                         ELSE LET e == BatchEnd(q, to, b)
                              IN  [peer |-> to[e], policies |-> PoliciesUpTo(q, to, e)]],
         !.nextBatchSeq = q.nextBatchSeq + Cardinality(DOMAIN to)]

(* The host records after it.                                              *)
BatchesFor(q, to, p) == {BatchSeq(q, to, e) : e \in {e \in DOMAIN to : to[e] = p}}

Reserve(q, h, hosts, to) ==
  [p \in DOMAIN h |->
     LET old == h[p].reserved
         new == BatchesFor(q, to, p)
     IN  IF new = {} THEN h[p]
         ELSE [h[p] EXCEPT !.reserved =
                 [b \in DOMAIN old \cup new |->
                    IF b \notin new THEN old[b]
                    ELSE ReservationFor(p, TargetDepth(h, hosts, p),
                                        SizeOf(to, BatchEnd(q, to, b)))]]]
=============================================================================
