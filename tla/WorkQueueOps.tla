---------------------------- MODULE WorkQueueOps ----------------------------
(***************************************************************************)
(* The work queue of one mining session as data (cluster/work-queue.ts,    *)
(* class WorkQueue): a queue is a record, and each method of the class is  *)
(* an operator from a queue to a queue.  Module WorkQueue runs them under  *)
(* an arbitrary legal caller; module Dispatcher chains several of them in  *)
(* one message handler.                                                    *)
(***************************************************************************)
EXTENDS Integers, Sequences, FiniteSets, Functions

CONSTANTS
  Policy,               \* every policy a queue of this session may hold
  Peer,                 \* peer ids a batch can be assigned to
  MAX_POLICY_ATTEMPTS   \* 5 in the code

ASSUME QueueAssumption ==
  /\ IsFiniteSet(Policy)
  /\ MAX_POLICY_ATTEMPTS \in Nat \ {0}

(* The queue as data.  A batch id `${sessionId}-b${seq}` is its seq.       *)

Batch == [peer : Peer, policies : Seq(Policy)]

(* A queue over the given policies.  The history field `evaluated` names   *)
(* the policies that evaluatedCount has counted since construction.        *)
NewQueue(policies, prior) ==
  [ pending        |-> policies,
    inFlight       |-> [b \in {} |-> {}],
    attempts       |-> [p \in Policy |-> 0],
    evaluatedCount |-> prior,
    totalPolicies  |-> Len(policies) + prior,
    deadLetters    |-> {},
    nextBatchSeq   |-> 0,
    evaluated      |-> {} ]

PoliciesOf(q, b) == Range(q.inFlight[b].policies)
InFlightPolicies(q) == UNION {PoliciesOf(q, b) : b \in DOMAIN q.inFlight}
BatchesOf(q, peer) == {b \in DOMAIN q.inFlight : q.inFlight[b].peer = peer}
Dropped(q) == {d.policy : d \in q.deadLetters}
IsComplete(q) == q.pending = <<>> /\ q.inFlight = [b \in {} |-> {}]

(* The policies the next batch of the given size takes off the head. *)
NextBatch(q, size) ==
  SubSeq(q.pending, 1, IF size < Len(q.pending) THEN size ELSE Len(q.pending))

(* Mutant: the sequence number is not kept. *)
AssignBatchForgetsSeq(q, peer, size) ==
  LET batch == NextBatch(q, size)
      seq   == q.nextBatchSeq + 1
  IN  [q EXCEPT
         !.pending  = SubSeq(q.pending, Len(batch) + 1, Len(q.pending)),
         !.attempts = [p \in Policy |-> q.attempts[p] +
                         IF p \in Range(batch) THEN 1 ELSE 0],
         !.inFlight = [b \in DOMAIN q.inFlight \cup {seq} |->
                         IF b = seq THEN [peer |-> peer, policies |-> batch]
                                    ELSE q.inFlight[b]]]

AssignBatch(q, peer, size) ==
  LET batch == NextBatch(q, size)
      seq   == q.nextBatchSeq + 1
  IN  [q EXCEPT
         !.pending  = SubSeq(q.pending, Len(batch) + 1, Len(q.pending)),
         !.attempts = [p \in Policy |-> q.attempts[p] +
                         IF p \in Range(batch) THEN 1 ELSE 0],
         !.inFlight = [b \in DOMAIN q.inFlight \cup {seq} |->
                         IF b = seq THEN [peer |-> peer, policies |-> batch]
                                    ELSE q.inFlight[b]],
         !.nextBatchSeq = seq]

(* Mutant: a result counts as one policy. *)
CompleteBatchCountsOne(q, b) ==
  [q EXCEPT
     !.inFlight = Restrict(q.inFlight, DOMAIN q.inFlight \ {b}),
     !.evaluatedCount = @ + 1,
     !.evaluated = @ \cup PoliciesOf(q, b),
     !.attempts = [p \in Policy |->
                     IF p \in PoliciesOf(q, b) THEN 0 ELSE q.attempts[p]]]

(* Mutant: the attempts of a finished policy stay. *)
CompleteBatchKeepsAttempts(q, b) ==
  [q EXCEPT
     !.inFlight = Restrict(q.inFlight, DOMAIN q.inFlight \ {b}),
     !.evaluatedCount = @ + Len(q.inFlight[b].policies),
     !.evaluated = @ \cup PoliciesOf(q, b)]

CompleteBatch(q, b) ==
  [q EXCEPT
     !.inFlight = Restrict(q.inFlight, DOMAIN q.inFlight \ {b}),
     !.evaluatedCount = @ + Len(q.inFlight[b].policies),
     !.evaluated = @ \cup PoliciesOf(q, b),
     !.attempts = [p \in Policy |->
                     IF p \in PoliciesOf(q, b) THEN 0 ELSE q.attempts[p]]]

Returned(q, S) == UNION {PoliciesOf(q, b) : b \in S}

(* The order in which the policies of the batches in S stand at the head   *)
(* of pending after those batches went back one by one, oldest first: the  *)
(* newest batch leads, and within a batch the handout order is kept.       *)
RequeuedBefore(q, S, p, r) ==
  \/ \E b, c \in S : b > c /\ p \in PoliciesOf(q, b) /\ r \in PoliciesOf(q, c)
  \/ \E b \in S : \E i, j \in DOMAIN q.inFlight[b].policies :
       /\ i < j
       /\ p = q.inFlight[b].policies[i]
       /\ r = q.inFlight[b].policies[j]

RequeueOrder(q, S) ==
  {pr \in Returned(q, S) \X Returned(q, S) : RequeuedBefore(q, S, pr[1], pr[2])}

Listing(K, order) ==
  CHOOSE t \in [1 .. Cardinality(K) -> K] :
    \A i, j \in 1 .. Cardinality(K) : i < j => <<t[i], t[j]>> \in order

(* Mutant: a batch that went back is still outstanding. *)
RequeueKeepsBatch(q, S, countAttemptFailure) ==
  [q EXCEPT !.pending = Listing(Returned(q, S), RequeueOrder(q, S)) \o @]

(* Mutant: policies come back at the end of the queue. *)
RequeueAtTail(q, S, countAttemptFailure) ==
  [q EXCEPT
     !.inFlight = Restrict(q.inFlight, DOMAIN q.inFlight \ S),
     !.pending  = @ \o Listing(Returned(q, S), RequeueOrder(q, S))]

(* Mutant: one failure too many is forgiven. *)
RequeueForgives(q, S, countAttemptFailure) ==
  LET lost == {p \in Returned(q, S) : q.attempts[p] > MAX_POLICY_ATTEMPTS}
  IN  [q EXCEPT
         !.inFlight = Restrict(q.inFlight, DOMAIN q.inFlight \ S),
         !.pending  = Listing(Returned(q, S) \ lost, RequeueOrder(q, S)) \o @]

(* requeueBatch is Requeue of one batch, requeueAllForPeer of all batches  *)
(* of a peer.  A policy whose failures are used up is dropped; an          *)
(* uncounted requeue takes back the attempt and drops nothing.             *)
Requeue(q, S, countAttemptFailure) ==
  LET returned == Returned(q, S)
      lost == IF countAttemptFailure
              THEN {p \in returned : q.attempts[p] >= MAX_POLICY_ATTEMPTS}
              ELSE {}
      home(p) == CHOOSE b \in S : p \in PoliciesOf(q, b)
  IN  [q EXCEPT
         !.inFlight = Restrict(q.inFlight, DOMAIN q.inFlight \ S),
         !.pending  = Listing(returned \ lost, RequeueOrder(q, S)) \o @,
         !.deadLetters = @ \cup
            {[policy |-> p, attempts |-> q.attempts[p],
              lastPeer |-> q.inFlight[home(p)].peer] : p \in lost},
         !.attempts = [p \in Policy |->
            IF p \in lost THEN 0
            ELSE IF p \in returned /\ ~countAttemptFailure
                 THEN (IF q.attempts[p] <= 1 THEN 0 ELSE q.attempts[p] - 1)
                 ELSE q.attempts[p]]]

RequeueBatch(q, b, countAttemptFailure) == Requeue(q, {b}, countAttemptFailure)
RequeueAllForPeer(q, peer) == Requeue(q, BatchesOf(q, peer), TRUE)
-----------------------------------------------------------------------------
(* What every queue satisfies.  `policies` is the set it was built over    *)
(* and `prior` what a resumed session had already evaluated.               *)

QueueTypeOK(q) ==
  /\ q \in [ pending        : Seq(Policy),
             inFlight       : [DOMAIN q.inFlight -> Batch],
             attempts       : [Policy -> Nat],
             evaluatedCount : Nat,
             totalPolicies  : Nat,
             deadLetters    : SUBSET [policy : Policy, attempts : Nat, lastPeer : Peer],
             nextBatchSeq   : Nat,
             evaluated      : SUBSET Policy ]
  /\ DOMAIN q.inFlight \subseteq 1 .. q.nextBatchSeq

(* The outstanding batches share no policy and repeat none. *)
BatchesDisjoint(q) ==
  /\ \A b \in DOMAIN q.inFlight : IsInjective(q.inFlight[b].policies)
  /\ \A b, c \in DOMAIN q.inFlight :
       b # c => PoliciesOf(q, b) \cap PoliciesOf(q, c) = {}

(* Every policy is in one place only. *)
OnePlaceEach(q, policies) ==
  /\ IsInjective(q.pending)
  /\ Range(q.pending) \cap InFlightPolicies(q) = {}
  /\ Range(q.pending) \cap (q.evaluated \cup Dropped(q)) = {}
  /\ InFlightPolicies(q) \cap (q.evaluated \cup Dropped(q)) = {}
  /\ q.evaluated \cap Dropped(q) = {}
  /\ policies = Range(q.pending) \cup InFlightPolicies(q)
                   \cup q.evaluated \cup Dropped(q)

AttemptsBounded(q) ==
  /\ \A p \in Range(q.pending) : q.attempts[p] < MAX_POLICY_ATTEMPTS
  /\ \A p \in InFlightPolicies(q) : q.attempts[p] \in 1 .. MAX_POLICY_ATTEMPTS
  /\ \A d \in q.deadLetters : d.attempts = MAX_POLICY_ATTEMPTS

(* evaluatedCount counts every finished policy once, and a policy is given *)
(* up once.                                                                *)
TalliesMatch(q, prior) ==
  /\ q.evaluatedCount = prior + Cardinality(q.evaluated)
  /\ \A d, e \in q.deadLetters : d.policy = e.policy => d = e

QueueInv(q, policies, prior) ==
  /\ QueueTypeOK(q)
  /\ BatchesDisjoint(q)
  /\ OnePlaceEach(q, policies)
  /\ AttemptsBounded(q)
  /\ TalliesMatch(q, prior)
=============================================================================
