------------------------------ MODULE WorkQueue ------------------------------
(***************************************************************************)
(* The dispatcher's in-memory queue of one mining session                  *)
(* (cluster/work-queue.ts, class WorkQueue) under an arbitrary legal       *)
(* caller: batches of any size up to MAX_BATCH_SIZE handed to any peer,    *)
(* and every outstanding batch completed, requeued or swept with its peer, *)
(* in any order.                                                           *)
(***************************************************************************)
EXTENDS WorkQueueOps

CONSTANTS
  Enumeration,          \* the session's policies in enumeration order
  PriorEvaluated,       \* how many policies a resumed session found on disk
  MAX_BATCH_SIZE,       \* 25 in the code
  MaxUncounted          \* bound of the model: requeues that count no failure

ASSUME WorkQueueAssumption ==
  /\ Enumeration \in Seq(Policy)
  /\ IsInjective(Enumeration)
  /\ Range(Enumeration) = Policy
  /\ PriorEvaluated \in Nat
  /\ MAX_BATCH_SIZE \in Nat \ {0}
  /\ MaxUncounted \in Nat

VARIABLES
  queue,       \* the WorkQueue instance
  uncounted    \* how many requeues so far counted no failure (bound only)

queueVars == <<queue, uncounted>>
-----------------------------------------------------------------------------
(* The queue under an arbitrary caller. *)

Init ==
  /\ queue = NewQueue(Enumeration, PriorEvaluated)
  /\ uncounted = 0

(* Mutant: the last policy is never handed out. *)
AssignKeepsLast(peer, size) ==
  /\ Len(queue.pending) > 1
  /\ queue' = AssignBatch(queue, peer, size)
  /\ UNCHANGED uncounted

Assign(peer, size) ==
  /\ queue.pending # <<>>
  /\ queue' = AssignBatch(queue, peer, size)
  /\ UNCHANGED uncounted

Complete(b) ==
  /\ b \in DOMAIN queue.inFlight
  /\ queue' = CompleteBatch(queue, b)
  /\ UNCHANGED uncounted

RequeueFailed(b) ==
  /\ b \in DOMAIN queue.inFlight
  /\ queue' = RequeueBatch(queue, b, TRUE)
  /\ UNCHANGED uncounted

RequeueUncounted(b) ==
  /\ b \in DOMAIN queue.inFlight
  /\ uncounted < MaxUncounted
  /\ queue' = RequeueBatch(queue, b, FALSE)
  /\ uncounted' = uncounted + 1

SweepPeer(peer) ==
  /\ BatchesOf(queue, peer) # {}
  /\ queue' = RequeueAllForPeer(queue, peer)
  /\ UNCHANGED uncounted

Next ==
  \/ \E peer \in Peer, size \in 1 .. MAX_BATCH_SIZE : Assign(peer, size)
  \/ \E b \in DOMAIN queue.inFlight :
       Complete(b) \/ RequeueFailed(b) \/ RequeueUncounted(b)
  \/ \E peer \in Peer : SweepPeer(peer)

Spec == Init /\ [][Next]_queueVars

(* The dispatcher pumps on every event and once a second, and an           *)
(* outstanding batch is answered or its peer is swept: as long as there is *)
(* something to hand out or something outstanding, a step is taken.        *)
FairSpec ==
  /\ Spec
  /\ WF_queueVars(\E peer \in Peer, size \in 1 .. MAX_BATCH_SIZE : Assign(peer, size))
  /\ WF_queueVars(\/ \E b \in DOMAIN queue.inFlight : Complete(b) \/ RequeueFailed(b)
                  \/ \E peer \in Peer : SweepPeer(peer))
-----------------------------------------------------------------------------
(* Properties *)

(* Every field of the queue holds what its declaration says.               *)
TypeOK ==
  /\ QueueTypeOK(queue)
  /\ queue.totalPolicies = Len(Enumeration) + PriorEvaluated
  /\ uncounted \in 0 .. MaxUncounted

(* No policy is lost and none is in two places: each one is waiting once,  *)
(* or in exactly one outstanding batch once, or evaluated, or given up.    *)
(* This is what keeps a requeue racing with a result from running a policy *)
(* twice or never (completeBatch, requeueBatch, requeueAllForPeer).        *)
PoliciesConserved == BatchesDisjoint(queue) /\ OnePlaceEach(queue, Policy)

(* The progress numbers add up when the outstanding POLICIES are counted:  *)
(* no result is counted twice and no dropped policy is counted as done,    *)
(* across a resume too.                                                    *)
CountsAddUp ==
  Len(queue.pending) + Cardinality(InFlightPolicies(queue))
    + queue.evaluatedCount + Cardinality(queue.deadLetters) = queue.totalPolicies

(* A policy is handed out at most MAX_POLICY_ATTEMPTS counted times, and   *)
(* is given up only when all of them failed, so one bad host cannot cost   *)
(* a policy its place.                                                     *)
AttemptsWithinBudget == AttemptsBounded(queue)

Position(seq, p) == CHOOSE i \in DOMAIN seq : seq[i] = p

(* Policies that come back stand in front of every policy that was already *)
(* waiting, and the waiting ones keep their order: a flapping host cannot  *)
(* push its abandoned batches behind the rest of the session.              *)
ReturnedGoFirst ==
  [][ \A p, r \in Range(queue.pending') :
        \/ p \in InFlightPolicies(queue) /\ r \in Range(queue.pending)
        \/ /\ p \in Range(queue.pending) /\ r \in Range(queue.pending)
           /\ Position(queue.pending, p) < Position(queue.pending, r)
        => Position(queue.pending', p) < Position(queue.pending', r) ]_queueVars

(* A batch id that was closed never names an outstanding batch again, so a *)
(* late or repeated answer to it finds nothing and is ignored.             *)
BatchIdsNotReused ==
  [][ \A b \in DOMAIN queue.inFlight' \ DOMAIN queue.inFlight : b > queue.nextBatchSeq ]_queueVars

(* However often batches are nacked or hosts vanish, every policy is       *)
(* finally evaluated or given up: a poisoned policy cannot keep a session  *)
(* going forever.                                                          *)
Terminates == <>[]IsComplete(queue)

(* The queue keeps the promise of PolicyLedger.  An outstanding policy's   *)
(* current handout is already in attempts, but has not failed yet.         *)
StatusOf(q, p) ==
  CASE p \in Range(q.pending) -> "waiting"
    [] p \in InFlightPolicies(q) -> "out"
    [] p \in q.evaluated -> "done"
    [] OTHER -> "dropped"

FailuresOf(q, p) ==
  IF p \in InFlightPolicies(q) THEN q.attempts[p] - 1 ELSE q.attempts[p]

Ledger == INSTANCE PolicyLedger WITH
  MaxAttempts <- MAX_POLICY_ATTEMPTS,
  status <- [p \in Policy |-> StatusOf(queue, p)],
  failures <- [p \in Policy |-> FailuresOf(queue, p)]

(* Every behaviour of the queue is a behaviour of the ledger.              *)
ImplementsLedger == Ledger!LedgerSpec
=============================================================================
