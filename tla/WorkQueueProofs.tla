--------------------------- MODULE WorkQueueProofs ---------------------------
(***************************************************************************)
(* The properties of module WorkQueue, for every enumeration, peer set,    *)
(* attempt budget and batch size.  None of the invariants is inductive by  *)
(* itself: that a requeue keeps the attempt budget needs every policy to   *)
(* be in one place, and that the requeued policies can be listed needs the *)
(* outstanding batches to share none.  QueueInv of WorkQueueOps joins them.*)
(***************************************************************************)
EXTENDS WorkQueue, WorkQueueLemmas

IInv ==
  /\ QueueInv(queue, Policy, PriorEvaluated)
  /\ queue.totalPolicies = Len(Enumeration) + PriorEvaluated
  /\ uncounted \in 0 .. MaxUncounted

LEMMA InitIInv == Init => IInv
<1> SUFFICES ASSUME Init PROVE IInv
  OBVIOUS
<1>1. /\ QueueInv(queue, Range(Enumeration), PriorEvaluated)
      /\ queue.totalPolicies = Len(Enumeration) + PriorEvaluated
  BY NewQueueProperties, WorkQueueAssumption DEF Init
<1> QED
  BY <1>1, WorkQueueAssumption DEF Init, IInv

LEMMA NextIInv == IInv /\ [Next]_queueVars => IInv'
<1> SUFFICES ASSUME IInv, [Next]_queueVars PROVE IInv'
  OBVIOUS
<1>1. /\ QueueInv(queue, Policy, PriorEvaluated) /\ QueueTypeOK(queue)
      /\ BatchesDisjoint(queue) /\ IsInjective(queue.pending)
      /\ Range(queue.pending) \cap InFlightPolicies(queue) = {}
      /\ PriorEvaluated \in Nat /\ MaxUncounted \in Nat
  BY WorkQueueAssumption DEF IInv, QueueInv, OnePlaceEach
<1>2. ASSUME NEW S \in SUBSET DOMAIN queue.inFlight, NEW count \in BOOLEAN,
             queue' = Requeue(queue, S, count)
      PROVE  /\ QueueInv(queue', Policy, PriorEvaluated)
             /\ queue'.totalPolicies = queue.totalPolicies
  <2>1. QueueInv(queue', Policy, PriorEvaluated)
    BY <1>1, <1>2, RequeueKeepsInv
  <2>2. Range(queue.pending) \cap Returned(queue, S) = {}
    BY <1>1 DEF Returned, InFlightPolicies
  <2> QED
    BY <1>1, <1>2, <2>1, <2>2, RequeueFields
<1>3. ASSUME NEW peer \in Peer, NEW size \in 1 .. MAX_BATCH_SIZE, Assign(peer, size)
      PROVE  IInv'
  <2>1. size \in Nat \ {0}
    BY WorkQueueAssumption
  <2>2. /\ queue.pending # <<>> /\ queue' = AssignBatch(queue, peer, size)
        /\ uncounted' = uncounted
    BY <1>3 DEF Assign
  <2>3. QueueInv(queue', Policy, PriorEvaluated)
    BY <1>1, <2>1, <2>2, AssignBatchKeepsInv
  <2>4. AssignBatch(queue, peer, size).totalPolicies = queue.totalPolicies
    BY <1>1 DEF QueueTypeOK, AssignBatch
  <2>5. queue'.totalPolicies = queue.totalPolicies
    BY <2>2, <2>4
  <2> QED
    BY <2>2, <2>3, <2>5 DEF IInv
<1>4. ASSUME NEW b \in DOMAIN queue.inFlight, Complete(b)
      PROVE  IInv'
  <2>1. queue' = CompleteBatch(queue, b) /\ uncounted' = uncounted
    BY <1>4 DEF Complete
  <2>2. QueueInv(queue', Policy, PriorEvaluated)
    BY <1>1, <2>1, CompleteBatchKeepsInv
  <2>3. queue'.totalPolicies = queue.totalPolicies
    BY <1>1, <2>1, CompleteBatchFields
  <2> QED
    BY <2>1, <2>2, <2>3 DEF IInv
<1>5. ASSUME NEW b \in DOMAIN queue.inFlight, RequeueFailed(b)
      PROVE  IInv'
  <2>1. /\ queue' = Requeue(queue, {b}, TRUE) /\ uncounted' = uncounted
        /\ {b} \in SUBSET DOMAIN queue.inFlight
    BY <1>5 DEF RequeueFailed, RequeueBatch
  <2> QED
    BY <2>1, <1>2 DEF IInv
<1>6. ASSUME NEW b \in DOMAIN queue.inFlight, RequeueUncounted(b)
      PROVE  IInv'
  <2>1. /\ queue' = Requeue(queue, {b}, FALSE)
        /\ {b} \in SUBSET DOMAIN queue.inFlight
    BY <1>6 DEF RequeueUncounted, RequeueBatch
  <2>2. uncounted' \in 0 .. MaxUncounted
    BY <1>1, <1>6 DEF RequeueUncounted, IInv
  <2> QED
    BY <2>1, <2>2, <1>2 DEF IInv
<1>7. ASSUME NEW peer \in Peer, SweepPeer(peer)
      PROVE  IInv'
  <2>1. /\ queue' = Requeue(queue, BatchesOf(queue, peer), TRUE) /\ uncounted' = uncounted
        /\ BatchesOf(queue, peer) \in SUBSET DOMAIN queue.inFlight
    BY <1>7 DEF SweepPeer, RequeueAllForPeer, BatchesOf
  <2> QED
    BY <2>1, <1>2 DEF IInv
<1>8. CASE UNCHANGED queueVars
  BY <1>8 DEF IInv, queueVars
<1> QED
  BY <1>3, <1>4, <1>5, <1>6, <1>7, <1>8 DEF Next

(* Every reachable queue satisfies the joint invariant.                    *)
THEOREM Invariance == Spec => []IInv
<1> QED
  BY InitIInv, NextIInv, PTL DEF Spec

(* The queue's fields hold what their declarations say (class WorkQueue).  *)
THEOREM TypeCorrect == Spec => []TypeOK
<1>1. IInv => TypeOK
  BY DEF IInv, TypeOK, QueueInv
<1> QED
  BY <1>1, Invariance, PTL

(* No assignment, completion, requeue or sweep loses a policy or leaves it *)
(* in two places.                                                          *)
THEOREM Conservation == Spec => []PoliciesConserved
<1>1. IInv => PoliciesConserved
  BY DEF IInv, PoliciesConserved, QueueInv
<1> QED
  BY <1>1, Invariance, PTL

(* No policy is handed out beyond its budget, and none is given up early   *)
(* (the MAX_POLICY_ATTEMPTS test of requeueBatch).                         *)
THEOREM AttemptBudget == Spec => []AttemptsWithinBudget
<1>1. IInv => AttemptsWithinBudget
  BY DEF IInv, AttemptsWithinBudget, QueueInv
<1> QED
  BY <1>1, Invariance, PTL

(* Pending, outstanding, evaluated and dropped policies add up to          *)
(* totalPolicies, across a resume too.                                     *)
THEOREM CountsAgree == Spec => []CountsAddUp
<1>1. Cardinality(Policy) = Len(Enumeration)
  BY WorkQueueAssumption, InjectiveLength
<1>2. IInv => CountsAddUp
  <2> SUFFICES ASSUME IInv PROVE CountsAddUp
    OBVIOUS
  <2>1. Len(queue.pending) + Cardinality(InFlightPolicies(queue))
          + queue.evaluatedCount + Cardinality(queue.deadLetters)
          = Cardinality(Policy) + PriorEvaluated
    BY WorkQueueAssumption, QueueInvCounts DEF IInv
  <2> QED
    BY <1>1, <2>1 DEF IInv, CountsAddUp
<1> QED
  BY <1>2, Invariance, PTL

(* assignBatch never issues an id that was issued before in the session.   *)
THEOREM FreshBatchIds == Spec => BatchIdsNotReused
<1>1. IInv /\ [Next]_queueVars =>
        [\A b \in DOMAIN queue.inFlight' \ DOMAIN queue.inFlight : b > queue.nextBatchSeq]_queueVars
  <2> SUFFICES ASSUME IInv, Next,
                      NEW b \in DOMAIN queue.inFlight' \ DOMAIN queue.inFlight
               PROVE  b > queue.nextBatchSeq
    BY DEF queueVars
  <2>1. /\ QueueTypeOK(queue) /\ BatchesDisjoint(queue) /\ IsInjective(queue.pending)
        /\ Range(queue.pending) \cap InFlightPolicies(queue) = {}
        /\ queue.nextBatchSeq \in Nat
    BY DEF IInv, QueueInv, OnePlaceEach, QueueTypeOK
  <2>2. ASSUME NEW S \in SUBSET DOMAIN queue.inFlight, NEW count \in BOOLEAN,
               queue' = Requeue(queue, S, count)
        PROVE  FALSE
    <3>1. Range(queue.pending) \cap Returned(queue, S) = {}
      BY <2>1 DEF Returned, InFlightPolicies
    <3>2. DOMAIN queue'.inFlight = DOMAIN queue.inFlight \ S
      BY <2>1, <2>2, <3>1, RequeueFields
    <3> QED
      BY <3>2
  <2>3. CASE \E peer \in Peer, size \in 1 .. MAX_BATCH_SIZE : Assign(peer, size)
    <3>1. PICK peer \in Peer, size \in 1 .. MAX_BATCH_SIZE : Assign(peer, size)
      BY <2>3
    <3>2. size \in Nat \ {0}
      BY WorkQueueAssumption
    <3>3. queue.pending # <<>> /\ queue' = AssignBatch(queue, peer, size)
      BY <3>1 DEF Assign
    <3>4. DOMAIN AssignBatch(queue, peer, size).inFlight
             = DOMAIN queue.inFlight \cup {queue.nextBatchSeq + 1}
      BY <2>1 DEF QueueTypeOK, AssignBatch
    <3>5. DOMAIN queue'.inFlight = DOMAIN queue.inFlight \cup {queue.nextBatchSeq + 1}
      BY <3>3, <3>4
    <3> QED
      BY <2>1, <3>5
  <2>4. CASE \E c \in DOMAIN queue.inFlight : Complete(c)
    <3>1. PICK c \in DOMAIN queue.inFlight : queue' = CompleteBatch(queue, c)
      BY <2>4 DEF Complete
    <3>2. DOMAIN queue'.inFlight = DOMAIN queue.inFlight \ {c}
      BY <2>1, <3>1, CompleteBatchFields
    <3> QED
      BY <3>2
  <2>5. CASE \E c \in DOMAIN queue.inFlight : RequeueFailed(c) \/ RequeueUncounted(c)
    <3>1. PICK c \in DOMAIN queue.inFlight :
            queue' = Requeue(queue, {c}, TRUE) \/ queue' = Requeue(queue, {c}, FALSE)
      BY <2>5 DEF RequeueFailed, RequeueUncounted, RequeueBatch
    <3>2. {c} \in SUBSET DOMAIN queue.inFlight
      OBVIOUS
    <3> QED
      BY <3>1, <3>2, <2>2
  <2>6. CASE \E peer \in Peer : SweepPeer(peer)
    <3>1. PICK peer \in Peer : queue' = Requeue(queue, BatchesOf(queue, peer), TRUE)
      BY <2>6 DEF SweepPeer, RequeueAllForPeer
    <3>2. BatchesOf(queue, peer) \in SUBSET DOMAIN queue.inFlight
      BY DEF BatchesOf
    <3> QED
      BY <3>1, <3>2, <2>2
  <2> QED
    BY <2>3, <2>4, <2>5, <2>6 DEF Next
<1> QED
  BY <1>1, Invariance, PTL DEF Spec, BatchIdsNotReused
-----------------------------------------------------------------------------
(* Who stands before whom. *)

LEMMA PositionIs ==
  ASSUME NEW s, IsInjective(s), NEW i \in DOMAIN s
  PROVE  Position(s, s[i]) = i
BY DEF Position, IsInjective

(* Behind a list put in front of a queue, every policy of the queue stands *)
(* as far back as that list is long.                                       *)
LEMMA PositionBehind ==
  ASSUME NEW u \in Seq(Policy), NEW v \in Seq(Policy), IsInjective(u \o v), IsInjective(v)
  PROVE  /\ Len(u) \in Nat
         /\ \A p \in Range(u) : Position(u \o v, p) \in 1 .. Len(u)
         /\ \A p \in Range(v) : /\ Position(v, p) \in Nat \ {0}
                                /\ Position(u \o v, p) = Len(u) + Position(v, p)
<1>1. /\ DOMAIN u = 1 .. Len(u) /\ DOMAIN v = 1 .. Len(v)
      /\ Len(u) \in Nat /\ Len(v) \in Nat
  BY LenProperties
<1>2. /\ DOMAIN (u \o v) = 1 .. Len(u) + Len(v)
      /\ \A i \in 1 .. Len(u) + Len(v) :
           (u \o v)[i] = IF i <= Len(u) THEN u[i] ELSE v[i - Len(u)]
  <2>1. /\ u \o v \in Seq(Policy)
        /\ Len(u \o v) = Len(u) + Len(v)
        /\ \A i \in 1 .. Len(u) + Len(v) :
             (u \o v)[i] = IF i <= Len(u) THEN u[i] ELSE v[i - Len(u)]
    BY ConcatProperties
  <2> QED
    BY <2>1, LenProperties
<1> DEFINE w == u \o v
<1> HIDE DEF w
<1>3. ASSUME NEW p \in Range(u) PROVE Position(w, p) \in 1 .. Len(u)
  <2>1. PICK i \in 1 .. Len(u) : p = u[i]
    BY <1>1 DEF Range
  <2>2. i \in DOMAIN w /\ w[i] = p
    BY <1>1, <1>2, <2>1 DEF w
  <2>3. Position(w, p) = i
    BY <2>2, PositionIs DEF w
  <2> QED
    BY <2>3
<1>4. ASSUME NEW p \in Range(v)
      PROVE  Position(v, p) \in Nat \ {0} /\ Position(w, p) = Len(u) + Position(v, p)
  <2>1. PICK i \in 1 .. Len(v) : p = v[i]
    BY <1>1 DEF Range
  <2>2. Position(v, p) = i
    BY <1>1, <2>1, PositionIs
  <2>3. Len(u) + i \in DOMAIN w /\ w[Len(u) + i] = p
    BY <1>1, <1>2, <2>1 DEF w
  <2>4. Position(w, p) = Len(u) + i
    BY <2>3, PositionIs DEF w
  <2> QED
    BY <2>2, <2>4
<1> QED
  BY <1>1, <1>3, <1>4 DEF w

(* A queue is cut behind the policies handed out ...                       *)
LEMMA AssignCuts ==
  ASSUME NEW q, QueueTypeOK(q), q.pending # <<>>, NEW peer, NEW size \in Nat \ {0}
  PROVE  /\ q.pending = NextBatch(q, size) \o AssignBatch(q, peer, size).pending
         /\ NextBatch(q, size) \in Seq(Policy) /\ AssignBatch(q, peer, size).pending \in Seq(Policy)
<1> DEFINE s == q.pending
           k == IF size < Len(s) THEN size ELSE Len(s)
           u == SubSeq(s, 1, k)
           v == SubSeq(s, k + 1, Len(s))
<1>1. s \in Seq(Policy) /\ Len(s) \in Nat /\ DOMAIN s = 1 .. Len(s)
      /\ \A i \in 1 .. Len(s) : s[i] \in Policy
  BY LenProperties DEF QueueTypeOK
<1>2. k \in 0 .. Len(s)
  BY <1>1
<1> HIDE DEF k, s
<1>3. /\ u \in Seq(Policy) /\ Len(u) = k /\ \A i \in 1 .. k : u[i] = s[i]
  BY <1>1, <1>2, SubSeqProperties
<1>4. /\ v \in Seq(Policy) /\ Len(v) = Len(s) - k
      /\ \A i \in 1 .. Len(s) - k : v[i] = s[k + i]
  <2>1. \A i \in k + 1 .. Len(s) : s[i] \in Policy
    BY <1>1, <1>2
  <2>2. /\ v \in Seq(Policy)
        /\ Len(v) = IF k + 1 <= Len(s) THEN Len(s) - (k + 1) + 1 ELSE 0
        /\ \A i \in 1 .. Len(s) - (k + 1) + 1 : v[i] = s[k + 1 + i - 1]
    BY <2>1, <1>1, <1>2, SubSeqProperties
  <2>3. Len(v) = Len(s) - k
    <3>1. Len(s) \in Nat /\ k \in Nat /\ k <= Len(s)
      BY <1>1, <1>2
    <3> HIDE DEF v
    <3> QED
      BY <2>2, <3>1
  <2> HIDE DEF v
  <2>4. \A i \in 1 .. Len(s) - k : v[i] = s[k + i]
    <3> TAKE i \in 1 .. Len(s) - k
    <3>1. i \in 1 .. Len(s) - (k + 1) + 1 /\ k + 1 + i - 1 = k + i
      BY <1>1, <1>2
    <3>2. v[i] = s[k + 1 + i - 1]
      BY <2>2, <3>1
    <3> QED
      BY <3>1, <3>2
  <2> QED
    BY <2>2, <2>3, <2>4
<1> HIDE DEF u, v
<1>5. /\ u \o v \in Seq(Policy) /\ Len(u \o v) = Len(s)
      /\ \A i \in 1 .. Len(s) : (u \o v)[i] = s[i]
  <2>1. /\ u \o v \in Seq(Policy) /\ Len(u \o v) = Len(u) + Len(v)
        /\ \A i \in 1 .. Len(u) + Len(v) :
             (u \o v)[i] = IF i <= Len(u) THEN u[i] ELSE v[i - Len(u)]
    BY <1>3, <1>4, ConcatProperties
  <2>2. Len(u \o v) = Len(s) /\ Len(u) + Len(v) = Len(s)
    BY <1>1, <1>2, <1>3, <1>4, <2>1
  <2>3. ASSUME NEW i \in 1 .. Len(s) PROVE (u \o v)[i] = s[i]
    <3>1. CASE i <= k
      BY <1>1, <1>2, <1>3, <2>1, <2>2, <3>1
    <3>2. CASE ~(i <= k)
      <4>1. i - k \in 1 .. Len(s) - k /\ k + (i - k) = i
        BY <1>1, <1>2, <3>2
      <4>2. v[i - k] = s[i]
        BY <1>4, <4>1
      <4> QED
        BY <1>3, <2>1, <2>2, <3>2, <4>2
    <3> QED
      BY <3>1, <3>2
  <2> QED
    BY <2>1, <2>2, <2>3
<1>6. s = u \o v
  BY <1>1, <1>5, SeqEqual
<1>7. NextBatch(q, size) = u /\ AssignBatch(q, peer, size).pending = v
  BY <1>3 DEF NextBatch, AssignBatch, QueueTypeOK, u, v, k, s
<1> QED
  BY <1>3, <1>4, <1>6, <1>7 DEF s

(* ... and lengthened in front by the policies that come back.             *)
LEMMA RequeueStacks ==
  ASSUME NEW q, QueueTypeOK(q), BatchesDisjoint(q), NEW S \in SUBSET DOMAIN q.inFlight,
         NEW count \in BOOLEAN
  PROVE  \E u \in Seq(Policy) : /\ Range(u) \subseteq Returned(q, S)
                                /\ Requeue(q, S, count).pending = u \o q.pending
<1> DEFINE K == Returned(q, S) \ Lost(q, S, count)
           u == Listing(K, RequeueOrder(q, S))
<1>1. Returned(q, S) \subseteq Policy /\ StrictTotal(K, RequeueOrder(q, S))
  BY RequeueOrderTotal
<1>2. IsFiniteSet(K)
  BY <1>1, QueueAssumption, FS_Subset
<1> HIDE DEF K
<1>3. u \in Seq(K) /\ Range(u) = K
  BY <1>1, <1>2, ListingProperties
<1>4. u \in Seq(Policy) /\ Range(u) \subseteq Returned(q, S)
  BY <1>1, <1>3, SeqMonotonic DEF K
<1>5. Requeue(q, S, count).pending = u \o q.pending
  BY DEF Requeue, Lost, QueueTypeOK, u, K
<1> QED
  BY <1>4, <1>5

(* Abandoned policies come back in front of every waiting one, and those   *)
(* that wait keep their order (requeueBatch, requeueAllForPeer).           *)
THEOREM AbandonedGoFirst == Spec => ReturnedGoFirst
<1> DEFINE Kept(p, r) ==
             \/ p \in InFlightPolicies(queue) /\ r \in Range(queue.pending)
             \/ /\ p \in Range(queue.pending) /\ r \in Range(queue.pending)
                /\ Position(queue.pending, p) < Position(queue.pending, r)
             => Position(queue.pending', p) < Position(queue.pending', r)
<1>1. ASSUME IInv, IInv', [Next]_queueVars
      PROVE  [\A p, r \in Range(queue.pending') : Kept(p, r)]_queueVars
  <2> SUFFICES ASSUME Next, NEW p \in Range(queue.pending'), NEW r \in Range(queue.pending')
               PROVE  Kept(p, r)
    BY <1>1
  <2>1. /\ QueueTypeOK(queue) /\ BatchesDisjoint(queue) /\ IsInjective(queue.pending)
        /\ Range(queue.pending) \cap InFlightPolicies(queue) = {}
        /\ queue.pending \in Seq(Policy)
        /\ IsInjective(queue'.pending) /\ queue'.pending \in Seq(Policy)
    BY <1>1 DEF IInv, QueueInv, OnePlaceEach, QueueTypeOK
  <2>2. ASSUME NEW S \in SUBSET DOMAIN queue.inFlight, NEW count \in BOOLEAN,
               queue' = Requeue(queue, S, count)
        PROVE  Kept(p, r)
    <3>1. PICK u \in Seq(Policy) : /\ Range(u) \subseteq Returned(queue, S)
                                   /\ queue'.pending = u \o queue.pending
      BY <2>1, <2>2, RequeueStacks
    <3>2. Range(u \o queue.pending) = Range(u) \cup Range(queue.pending)
      BY <2>1, JoinSequences
    <3>3. IsInjective(u \o queue.pending)
      BY <2>1, <3>1
    <3>4. /\ Len(u) \in Nat
          /\ \A x \in Range(u) : Position(queue'.pending, x) \in 1 .. Len(u)
          /\ \A x \in Range(queue.pending) :
               /\ Position(queue.pending, x) \in Nat \ {0}
               /\ Position(queue'.pending, x) = Len(u) + Position(queue.pending, x)
      BY <2>1, <3>1, <3>3, PositionBehind
    <3>5. CASE p \in InFlightPolicies(queue) /\ r \in Range(queue.pending)
      <4>1. p \in Range(u)
        BY <2>1, <3>1, <3>2, <3>5
      <4> QED
        BY <3>4, <3>5, <4>1
    <3>6. CASE /\ p \in Range(queue.pending) /\ r \in Range(queue.pending)
               /\ Position(queue.pending, p) < Position(queue.pending, r)
      BY <3>4, <3>6
    <3> QED
      BY <3>5, <3>6
  <2>3. CASE \E peer \in Peer, size \in 1 .. MAX_BATCH_SIZE : Assign(peer, size)
    <3>1. PICK peer \in Peer, size \in 1 .. MAX_BATCH_SIZE : Assign(peer, size)
      BY <2>3
    <3>2. size \in Nat \ {0}
      BY WorkQueueAssumption
    <3> DEFINE u == NextBatch(queue, size)
    <3>3. queue.pending # <<>> /\ queue' = AssignBatch(queue, peer, size)
      BY <3>1 DEF Assign
    <3>4. queue.pending = u \o queue'.pending /\ u \in Seq(Policy)
      BY <2>1, <3>2, <3>3, AssignCuts
    <3> HIDE DEF u
    <3>5. Range(u \o queue'.pending) = Range(u) \cup Range(queue'.pending)
      BY <2>1, <3>4, JoinSequences
    <3>6. p \notin InFlightPolicies(queue)
      BY <2>1, <3>4, <3>5
    <3>7. /\ Len(u) \in Nat
          /\ \A x \in Range(queue'.pending) :
               /\ Position(queue'.pending, x) \in Nat \ {0}
               /\ Position(queue.pending, x) = Len(u) + Position(queue'.pending, x)
      <4>1. IsInjective(u \o queue'.pending)
        BY <2>1, <3>4
      <4> QED
        BY <2>1, <3>4, <4>1, PositionBehind
    <3>8. /\ Position(queue'.pending, p) \in Nat /\ Position(queue'.pending, r) \in Nat
          /\ Position(queue.pending, p) = Len(u) + Position(queue'.pending, p)
          /\ Position(queue.pending, r) = Len(u) + Position(queue'.pending, r)
      BY <3>7
    <3> QED
      BY <3>6, <3>7, <3>8
  <2>4. CASE \E c \in DOMAIN queue.inFlight : Complete(c)
    <3>1. PICK c \in DOMAIN queue.inFlight : queue' = CompleteBatch(queue, c)
      BY <2>4 DEF Complete
    <3>2. queue'.pending = queue.pending
      BY <2>1, <3>1, CompleteBatchFields
    <3> QED
      BY <2>1, <3>2
  <2>5. CASE \E c \in DOMAIN queue.inFlight : RequeueFailed(c) \/ RequeueUncounted(c)
    <3>1. PICK c \in DOMAIN queue.inFlight :
            queue' = Requeue(queue, {c}, TRUE) \/ queue' = Requeue(queue, {c}, FALSE)
      BY <2>5 DEF RequeueFailed, RequeueUncounted, RequeueBatch
    <3>2. {c} \in SUBSET DOMAIN queue.inFlight
      OBVIOUS
    <3> QED
      BY <3>1, <3>2, <2>2
  <2>6. CASE \E peer \in Peer : SweepPeer(peer)
    <3>1. PICK peer \in Peer : queue' = Requeue(queue, BatchesOf(queue, peer), TRUE)
      BY <2>6 DEF SweepPeer, RequeueAllForPeer
    <3>2. BatchesOf(queue, peer) \in SUBSET DOMAIN queue.inFlight
      BY DEF BatchesOf
    <3> QED
      BY <3>1, <3>2, <2>2
  <2> QED
    BY <2>3, <2>4, <2>5, <2>6 DEF Next
<1>2. IInv /\ IInv' /\ [Next]_queueVars
        => [\A p, r \in Range(queue.pending') : Kept(p, r)]_queueVars
  BY <1>1
<1> QED
  BY <1>2, Invariance, PTL DEF Spec, ReturnedGoFirst
-----------------------------------------------------------------------------
(* The queue implements the ledger. *)

(* Under the invariant the four places of a policy exclude one another, so *)
(* its status names the one it is in.                                      *)
LEMMA StatusIsPlace ==
  ASSUME NEW q, OnePlaceEach(q, Policy), NEW p \in Policy
  PROVE  /\ StatusOf(q, p) = "waiting" <=> p \in Range(q.pending)
         /\ StatusOf(q, p) = "out" <=> p \in InFlightPolicies(q)
         /\ StatusOf(q, p) = "done" <=> p \in q.evaluated
         /\ StatusOf(q, p) = "dropped" <=> p \in Dropped(q)
         /\ StatusOf(q, p) \in {"waiting", "out", "done", "dropped"}
<1>1. \/ p \in Range(q.pending) \/ p \in InFlightPolicies(q)
      \/ p \in q.evaluated \/ p \in Dropped(q)
  BY DEF OnePlaceEach
<1>2. /\ ~(p \in Range(q.pending) /\ p \in InFlightPolicies(q))
      /\ ~(p \in Range(q.pending) /\ (p \in q.evaluated \/ p \in Dropped(q)))
      /\ ~(p \in InFlightPolicies(q) /\ (p \in q.evaluated \/ p \in Dropped(q)))
      /\ ~(p \in q.evaluated /\ p \in Dropped(q))
  BY DEF OnePlaceEach
<1> DEFINE W == p \in Range(q.pending)
           F == p \in InFlightPolicies(q)
           E == p \in q.evaluated
<1>3. StatusOf(q, p) =
        IF W THEN "waiting" ELSE IF F THEN "out" ELSE IF E THEN "done" ELSE "dropped"
  BY <1>2 DEF StatusOf
<1> QED
  BY <1>1, <1>2, <1>3

(* What an assignment does to places and failures.                         *)
LEMMA AssignMoves ==
  ASSUME IInv, IInv', NEW peer \in Peer, NEW size \in 1 .. MAX_BATCH_SIZE,
         Assign(peer, size)
  PROVE  \E S \in SUBSET Policy :
           /\ S \subseteq Range(queue.pending)
           /\ Range(queue'.pending) = Range(queue.pending) \ S
           /\ InFlightPolicies(queue') = InFlightPolicies(queue) \cup S
           /\ queue'.evaluated = queue.evaluated
           /\ Dropped(queue') = Dropped(queue)
           /\ \A p \in Policy : FailuresOf(queue', p) = FailuresOf(queue, p)
<1> DEFINE S == Range(NextBatch(queue, size))
           seq == queue.nextBatchSeq + 1
<1>1. /\ queue.pending # <<>> /\ queue' = AssignBatch(queue, peer, size)
      /\ size \in Nat \ {0}
  BY WorkQueueAssumption DEF Assign
<1>2. QueueTypeOK(queue) /\ OnePlaceEach(queue, Policy) /\ OnePlaceEach(queue, Policy)'
  BY DEF IInv, QueueInv
<1>3. /\ DOMAIN queue'.inFlight = DOMAIN queue.inFlight \cup {seq}
      /\ queue'.inFlight[seq].policies = NextBatch(queue, size)
      /\ \A b \in DOMAIN queue.inFlight : queue'.inFlight[b] = queue.inFlight[b]
      /\ S \cap Range(queue'.pending) = {}
      /\ Range(queue.pending) = S \cup Range(queue'.pending)
      /\ \A p \in Policy :
           queue'.attempts[p] = queue.attempts[p] + IF p \in S THEN 1 ELSE 0
      /\ queue'.deadLetters = queue.deadLetters
      /\ queue'.evaluated = queue.evaluated
  <2> DEFINE q2    == AssignBatch(queue, peer, size)
             batch == NextBatch(queue, size)
  <2>1. IsInjective(queue.pending)
    BY <1>2 DEF OnePlaceEach
  <2>2. /\ DOMAIN q2.inFlight = DOMAIN queue.inFlight \cup {seq}
        /\ q2.inFlight[seq].policies = batch
        /\ \A b \in DOMAIN queue.inFlight : q2.inFlight[b] = queue.inFlight[b]
        /\ Range(batch) \cap Range(q2.pending) = {}
        /\ Range(queue.pending) = Range(batch) \cup Range(q2.pending)
        /\ \A p \in Policy :
             q2.attempts[p] = queue.attempts[p] + IF p \in Range(batch) THEN 1 ELSE 0
        /\ q2.deadLetters = queue.deadLetters
        /\ q2.evaluated = queue.evaluated
    BY <1>1, <1>2, <2>1, AssignBatchFields
  <2> HIDE DEF q2, batch
  <2>3. queue' = q2
    BY <1>1 DEF q2
  <2> QED
    BY <2>2, <2>3 DEF batch
<1>4. Range(queue.pending) \subseteq Policy
  BY <1>2, LenProperties DEF QueueTypeOK, Range
<1> HIDE DEF S, seq
<1>5. InFlightPolicies(queue') = InFlightPolicies(queue) \cup S
  BY <1>3 DEF InFlightPolicies, PoliciesOf, S
<1>6. Dropped(queue') = Dropped(queue)
  BY <1>3 DEF Dropped
<1>7. \A p \in Policy : FailuresOf(queue', p) = FailuresOf(queue, p)
  <2> TAKE p \in Policy
  <2>1. queue.attempts[p] \in Nat
    BY <1>2 DEF QueueTypeOK
  <2>2. S \cap InFlightPolicies(queue) = {}
    BY <1>2, <1>3 DEF OnePlaceEach
  <2> QED
    BY <1>3, <1>5, <2>1, <2>2 DEF FailuresOf
<1> QED
  BY <1>3, <1>4, <1>5, <1>6, <1>7

LEMMA CompleteMoves ==
  ASSUME IInv, NEW b \in DOMAIN queue.inFlight, Complete(b)
  PROVE  \E S \in SUBSET Policy :
           /\ S \subseteq InFlightPolicies(queue)
           /\ Range(queue'.pending) = Range(queue.pending)
           /\ InFlightPolicies(queue') = InFlightPolicies(queue) \ S
           /\ queue'.evaluated = queue.evaluated \cup S
           /\ Dropped(queue') = Dropped(queue)
           /\ \A p \in Policy : FailuresOf(queue', p) = IF p \in S THEN 0 ELSE FailuresOf(queue, p)
<1> DEFINE S == PoliciesOf(queue, b)
<1>1. QueueTypeOK(queue) /\ BatchesDisjoint(queue) /\ queue' = CompleteBatch(queue, b)
  BY DEF IInv, QueueInv, Complete
<1>2. /\ DOMAIN queue'.inFlight = DOMAIN queue.inFlight \ {b}
      /\ \A c \in DOMAIN queue'.inFlight : queue'.inFlight[c] = queue.inFlight[c]
      /\ queue'.pending = queue.pending
      /\ \A p \in Policy :
           queue'.attempts[p] = IF p \in S THEN 0 ELSE queue.attempts[p]
      /\ queue'.deadLetters = queue.deadLetters
      /\ queue'.evaluated = queue.evaluated \cup S
      /\ S \subseteq Policy
  BY <1>1, CompleteBatchFields
<1> HIDE DEF S
<1>3. S \subseteq InFlightPolicies(queue) /\ S = PoliciesOf(queue, b)
  BY DEF InFlightPolicies, S
<1>4. InFlightPolicies(queue') = InFlightPolicies(queue) \ S
  <2>1. \A c \in DOMAIN queue'.inFlight : PoliciesOf(queue', c) = PoliciesOf(queue, c)
    BY <1>2 DEF PoliciesOf
  <2>2. \A c \in DOMAIN queue.inFlight \ {b} : PoliciesOf(queue, c) \cap S = {}
    BY <1>1, <1>3 DEF BatchesDisjoint
  <2> QED
    BY <1>2, <1>3, <2>1, <2>2 DEF InFlightPolicies
<1>5. Dropped(queue') = Dropped(queue)
  BY <1>2 DEF Dropped
<1>6. \A p \in Policy : FailuresOf(queue', p) = IF p \in S THEN 0 ELSE FailuresOf(queue, p)
  BY <1>2, <1>3, <1>4 DEF FailuresOf
<1> QED
  BY <1>2, <1>3, <1>4, <1>5, <1>6

LEMMA RequeueMoves ==
  ASSUME IInv, NEW S \in SUBSET DOMAIN queue.inFlight, NEW count \in BOOLEAN,
         queue' = Requeue(queue, S, count)
  PROVE  LET R    == Returned(queue, S)
             lost == {p \in R : count /\ FailuresOf(queue, p) + 1 >= MAX_POLICY_ATTEMPTS}
         IN  /\ R \subseteq Policy /\ R \subseteq InFlightPolicies(queue)
             /\ Range(queue'.pending) = Range(queue.pending) \cup (R \ lost)
             /\ InFlightPolicies(queue') = InFlightPolicies(queue) \ R
             /\ queue'.evaluated = queue.evaluated
             /\ Dropped(queue') = Dropped(queue) \cup lost
             /\ \A p \in Policy :
                  FailuresOf(queue', p) =
                    IF p \in lost THEN 0
                    ELSE IF p \in R /\ count THEN FailuresOf(queue, p) + 1
                                   ELSE FailuresOf(queue, p)
<1> DEFINE R    == Returned(queue, S)
           lost == {p \in R : count /\ FailuresOf(queue, p) + 1 >= MAX_POLICY_ATTEMPTS}
<1>1. /\ QueueTypeOK(queue) /\ BatchesDisjoint(queue) /\ OnePlaceEach(queue, Policy)
      /\ AttemptsBounded(queue)
  BY DEF IInv, QueueInv
<1>2. R \subseteq InFlightPolicies(queue) /\ InFlightPolicies(queue) \subseteq Policy
  BY <1>1, RequeueOrderTotal
<1>3. \A p \in R : FailuresOf(queue, p) = queue.attempts[p] - 1 /\ queue.attempts[p] \in 1 .. MAX_POLICY_ATTEMPTS
  BY <1>1, <1>2 DEF FailuresOf, AttemptsBounded
<1>4. lost = Lost(queue, S, count)
  <2>1. \A p \in R : FailuresOf(queue, p) + 1 = queue.attempts[p]
    BY <1>3
  <2> QED
    BY <2>1 DEF Lost
<1>5. IsInjective(queue.pending) /\ Range(queue.pending) \cap R = {}
  BY <1>1, <1>2 DEF OnePlaceEach
<1> HIDE DEF lost
<1>6. /\ DOMAIN queue'.inFlight = DOMAIN queue.inFlight \ S
      /\ \A c \in DOMAIN queue'.inFlight : queue'.inFlight[c] = queue.inFlight[c]
      /\ Range(queue'.pending) = (R \ lost) \cup Range(queue.pending)
      /\ \A p \in Policy :
           queue'.attempts[p] = IF p \in lost THEN 0
                                ELSE IF p \in R /\ ~count
                                THEN (IF queue.attempts[p] <= 1 THEN 0 ELSE queue.attempts[p] - 1)
                                ELSE queue.attempts[p]
      /\ queue'.evaluated = queue.evaluated
      /\ Dropped(queue') = Dropped(queue) \cup lost
  BY <1>1, <1>4, <1>5, RequeueFields
<1>7. R = UNION {PoliciesOf(queue, b) : b \in S} /\ lost \subseteq R
  BY DEF Returned, lost
<1> HIDE DEF R
<1>8. InFlightPolicies(queue') = InFlightPolicies(queue) \ R
  <2>1. \A c \in DOMAIN queue'.inFlight : PoliciesOf(queue', c) = PoliciesOf(queue, c)
    BY <1>6 DEF PoliciesOf
  <2>2. \A c \in DOMAIN queue.inFlight \ S, b \in S : PoliciesOf(queue, c) \cap PoliciesOf(queue, b) = {}
    BY <1>1 DEF BatchesDisjoint
  <2> QED
    BY <1>6, <1>7, <2>1, <2>2 DEF InFlightPolicies
<1>9. ASSUME NEW p \in Policy
      PROVE  FailuresOf(queue', p) = IF p \in lost THEN 0
                              ELSE IF p \in R /\ count THEN FailuresOf(queue, p) + 1
                              ELSE FailuresOf(queue, p)
  <2>1. queue.attempts[p] \in Nat
    BY <1>1 DEF QueueTypeOK
  <2>2. CASE p \in R
    <3>1. FailuresOf(queue', p) = queue'.attempts[p]
      BY <1>8, <2>2 DEF FailuresOf
    <3> QED
      BY <3>1, <2>1, <2>2, <1>3, <1>6
  <2>3. CASE p \notin R
    <3>1. queue'.attempts[p] = queue.attempts[p] /\ p \notin lost
      BY <1>6, <1>7, <2>3
    <3>2. p \in InFlightPolicies(queue') <=> p \in InFlightPolicies(queue)
      BY <1>8, <2>3
    <3> QED
      BY <3>1, <3>2, <2>3 DEF FailuresOf
  <2> QED
    BY <2>2, <2>3
<1> QED
  BY <1>2, <1>6, <1>8, <1>9 DEF R, lost

(* What a step does to the status of the policies, from what it does to    *)
(* their places.                                                           *)
LEMMA StatusAfter ==
  ASSUME IInv, IInv', NEW p \in Policy
  PROVE  /\ OnePlaceEach(queue, Policy) /\ OnePlaceEach(queue', Policy)
         /\ p \in Range(queue'.pending) <=> StatusOf(queue', p) = "waiting"
         /\ p \in InFlightPolicies(queue') <=> StatusOf(queue', p) = "out"
         /\ p \in queue'.evaluated <=> StatusOf(queue', p) = "done"
         /\ p \in Dropped(queue') <=> StatusOf(queue', p) = "dropped"
         /\ p \in Range(queue.pending) <=> StatusOf(queue, p) = "waiting"
         /\ p \in InFlightPolicies(queue) <=> StatusOf(queue, p) = "out"
         /\ p \in queue.evaluated <=> StatusOf(queue, p) = "done"
         /\ p \in Dropped(queue) <=> StatusOf(queue, p) = "dropped"
         /\ StatusOf(queue, p) \in {"waiting", "out", "done", "dropped"}
         /\ StatusOf(queue', p) \in {"waiting", "out", "done", "dropped"}
<1>1. OnePlaceEach(queue, Policy) /\ OnePlaceEach(queue', Policy)
  BY DEF IInv, QueueInv
<1> QED
  BY <1>1, StatusIsPlace

(* Every step of the queue is a step of the ledger, or changes nothing     *)
(* the ledger sees.                                                        *)
THEOREM Refinement == Spec => ImplementsLedger
<1> DEFINE status   == [p \in Policy |-> StatusOf(queue, p)]
           failures == [p \in Policy |-> FailuresOf(queue, p)]
<1>1. Init => Ledger!LedgerInit
  <2> SUFFICES ASSUME Init PROVE Ledger!LedgerInit
    OBVIOUS
  <2>1. IInv /\ queue = NewQueue(Enumeration, PriorEvaluated)
    BY InitIInv DEF Init
  <2>2. Range(queue.pending) = Policy /\ InFlightPolicies(queue) = {}
    BY <2>1, WorkQueueAssumption DEF NewQueue, InFlightPolicies
  <2>3. \A p \in Policy : queue.attempts[p] = 0
    BY <2>1 DEF NewQueue
  <2>4. \A p \in Policy : StatusOf(queue, p) = "waiting"
    BY <2>1, <2>2, StatusIsPlace DEF IInv, QueueInv
  <2>5. \A p \in Policy : FailuresOf(queue, p) = 0
    BY <2>2, <2>3 DEF FailuresOf
  <2> QED
    BY <2>4, <2>5 DEF Ledger!LedgerInit
<1>2. IInv /\ IInv' /\ [Next]_queueVars => [Ledger!LedgerNext]_(Ledger!ledgerVars)
  <2> SUFFICES ASSUME IInv, IInv', [Next]_queueVars
               PROVE  Ledger!LedgerNext \/ UNCHANGED Ledger!ledgerVars
    OBVIOUS
  <2>1. ASSUME NEW S \in SUBSET DOMAIN queue.inFlight, NEW count \in BOOLEAN,
               queue' = Requeue(queue, S, count)
        PROVE  Ledger!LedgerNext
    <3> DEFINE R    == Returned(queue, S)
               lost == {p \in R : count /\ FailuresOf(queue, p) + 1 >= MAX_POLICY_ATTEMPTS}
    <3>1. /\ R \subseteq Policy /\ R \subseteq InFlightPolicies(queue)
          /\ Range(queue'.pending) = Range(queue.pending) \cup (R \ lost)
          /\ InFlightPolicies(queue') = InFlightPolicies(queue) \ R
          /\ queue'.evaluated = queue.evaluated
          /\ Dropped(queue') = Dropped(queue) \cup lost
          /\ \A p \in Policy :
               FailuresOf(queue', p) = IF p \in lost THEN 0
                                       ELSE IF p \in R /\ count THEN FailuresOf(queue, p) + 1
                                       ELSE FailuresOf(queue, p)
      BY <2>1, RequeueMoves
    <3> HIDE DEF R
    <3>2. CASE count
      <4>1. lost = {p \in R : FailuresOf(queue, p) + 1 >= MAX_POLICY_ATTEMPTS}
        BY <3>2
      <4> HIDE DEF lost
      <4>2. \A p \in Policy :
              /\ p \in R => StatusOf(queue, p) = "out"
              /\ StatusOf(queue', p) = IF p \in lost THEN "dropped"
                                       ELSE IF p \in R THEN "waiting" ELSE StatusOf(queue, p)
        BY <3>1, <4>1, StatusAfter
      <4>3. Ledger!Fail(R)
        <5>1. lost = {p \in R : failures[p] + 1 >= MAX_POLICY_ATTEMPTS}
          BY <3>1, <4>1
        <5>2. \A p \in R : status[p] = "out"
          BY <3>1, <4>2
        <5>3. status' = [p \in Policy |-> IF p \in lost THEN "dropped"
                                          ELSE IF p \in R THEN "waiting" ELSE status[p]]
          BY <4>2
        <5>4. failures' = [p \in Policy |-> IF p \in lost THEN 0
                                            ELSE IF p \in R THEN failures[p] + 1 ELSE failures[p]]
          BY <3>1, <3>2
        <5> QED
          BY <5>1, <5>2, <5>3, <5>4 DEF Ledger!Fail
      <4> QED
        BY <4>3, <3>1 DEF Ledger!LedgerNext
    <3>3. CASE ~count
      <4>1. lost = {}
        BY <3>3
      <4> HIDE DEF lost
      <4>2. \A p \in Policy :
              /\ p \in R => StatusOf(queue, p) = "out"
              /\ StatusOf(queue', p) = IF p \in R THEN "waiting" ELSE StatusOf(queue, p)
              /\ FailuresOf(queue', p) = FailuresOf(queue, p)
        BY <3>1, <3>3, <4>1, StatusAfter
      <4>3. Ledger!GiveBack(R)
        BY <3>1, <4>2 DEF Ledger!GiveBack, Ledger!Move
      <4> QED
        BY <4>3, <3>1 DEF Ledger!LedgerNext
    <3> QED
      BY <3>2, <3>3
  <2>2. CASE \E peer \in Peer, size \in 1 .. MAX_BATCH_SIZE : Assign(peer, size)
    <3>1. PICK S \in SUBSET Policy :
            /\ S \subseteq Range(queue.pending)
            /\ Range(queue'.pending) = Range(queue.pending) \ S
            /\ InFlightPolicies(queue') = InFlightPolicies(queue) \cup S
            /\ queue'.evaluated = queue.evaluated
            /\ Dropped(queue') = Dropped(queue)
            /\ \A p \in Policy : FailuresOf(queue', p) = FailuresOf(queue, p)
      BY <2>2, AssignMoves
    <3>2. \A p \in Policy :
            /\ p \in S => StatusOf(queue, p) = "waiting"
            /\ StatusOf(queue', p) = IF p \in S THEN "out" ELSE StatusOf(queue, p)
      BY <3>1, StatusAfter
    <3>3. Ledger!HandOut(S)
      BY <3>1, <3>2 DEF Ledger!HandOut, Ledger!Move
    <3> QED
      BY <3>3 DEF Ledger!LedgerNext
  <2>3. CASE \E b \in DOMAIN queue.inFlight : Complete(b)
    <3>1. PICK S \in SUBSET Policy :
            /\ S \subseteq InFlightPolicies(queue)
            /\ Range(queue'.pending) = Range(queue.pending)
            /\ InFlightPolicies(queue') = InFlightPolicies(queue) \ S
            /\ queue'.evaluated = queue.evaluated \cup S
            /\ Dropped(queue') = Dropped(queue)
            /\ \A p \in Policy :
                 FailuresOf(queue', p) = IF p \in S THEN 0 ELSE FailuresOf(queue, p)
      BY <2>3, CompleteMoves
    <3>2. \A p \in Policy :
            /\ p \in S => StatusOf(queue, p) = "out"
            /\ StatusOf(queue', p) = IF p \in S THEN "done" ELSE StatusOf(queue, p)
      BY <3>1, StatusAfter
    <3>3. Ledger!Finish(S)
      <4>1. failures' = [p \in Policy |-> IF p \in S THEN 0 ELSE failures[p]]
        BY <3>1
      <4>2. status' = [p \in Policy |-> IF p \in S THEN "done" ELSE status[p]]
        BY <3>2
      <4>3. \A p \in S : status[p] = "out"
        BY <3>1, <3>2
      <4> QED
        BY <4>1, <4>2, <4>3 DEF Ledger!Finish, Ledger!Move
    <3> QED
      BY <3>3 DEF Ledger!LedgerNext
  <2>4. CASE \E b \in DOMAIN queue.inFlight : RequeueFailed(b) \/ RequeueUncounted(b)
    <3>1. PICK b \in DOMAIN queue.inFlight :
            queue' = Requeue(queue, {b}, TRUE) \/ queue' = Requeue(queue, {b}, FALSE)
      BY <2>4 DEF RequeueFailed, RequeueUncounted, RequeueBatch
    <3>2. {b} \in SUBSET DOMAIN queue.inFlight
      OBVIOUS
    <3> QED
      BY <3>1, <3>2, <2>1
  <2>5. CASE \E peer \in Peer : SweepPeer(peer)
    <3>1. PICK peer \in Peer : queue' = Requeue(queue, BatchesOf(queue, peer), TRUE)
      BY <2>5 DEF SweepPeer, RequeueAllForPeer
    <3>2. BatchesOf(queue, peer) \in SUBSET DOMAIN queue.inFlight
      BY DEF BatchesOf
    <3> QED
      BY <3>1, <3>2, <2>1
  <2>6. CASE UNCHANGED queueVars
    BY <2>6 DEF queueVars, Ledger!ledgerVars
  <2> QED
    BY <2>2, <2>3, <2>4, <2>5, <2>6 DEF Next
<1> QED
  BY <1>1, <1>2, Invariance, PTL DEF Spec, ImplementsLedger, Ledger!LedgerSpec
=============================================================================
