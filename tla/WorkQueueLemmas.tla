--------------------------- MODULE WorkQueueLemmas ---------------------------
(***************************************************************************)
(* What the operators of WorkQueueOps return, for every queue.             *)
(*                                                                         *)
(* The first part is about Listing: a finite set under a strict total      *)
(* order has a listing, so the CHOOSE in it names one.  The second part    *)
(* shows that the policies a requeue returns are so ordered, and the third *)
(* that each operator keeps the facts WorkQueueOps states of a queue.      *)
(***************************************************************************)
EXTENDS WorkQueueOps, SequenceTheorems, FiniteSetTheorems, WellFoundedInduction, TLAPS

StrictTotal(K, order) ==
  /\ \A x \in K : <<x, x>> \notin order
  /\ \A x, y \in K : x # y => <<x, y>> \in order \/ <<y, x>> \in order
  /\ \A x, y, z \in K : <<x, y>> \in order /\ <<y, z>> \in order => <<x, z>> \in order

Lists(t, K, order) ==
  /\ t \in [1 .. Cardinality(K) -> K]
  /\ \A i, j \in 1 .. Cardinality(K) : i < j => <<t[i], t[j]>> \in order

(* One step of the existence proof: a listing of what is below an element, *)
(* the element, and a listing of what is above it make a listing.          *)
LEMMA JoinListings ==
  ASSUME NEW K, IsFiniteSet(K), NEW order, StrictTotal(K, order), NEW x \in K,
         NEW tA, NEW tB,
         Lists(tA, {y \in K : <<y, x>> \in order}, order),
         Lists(tB, {y \in K : <<x, y>> \in order}, order)
  PROVE  \E t : Lists(t, K, order)
<1> DEFINE A == {y \in K : <<y, x>> \in order}
           B == {y \in K : <<x, y>> \in order}
           a == Cardinality(A)
           b == Cardinality(B)
           t == [i \in 1 .. Cardinality(K) |->
                   IF i <= a THEN tA[i] ELSE IF i = a + 1 THEN x ELSE tB[i - a - 1]]
<1>1. /\ IsFiniteSet(A) /\ IsFiniteSet(B)
      /\ A \in SUBSET K /\ B \in SUBSET K
      /\ a \in Nat /\ b \in Nat /\ Cardinality(K) \in Nat
  <2>1. A \in SUBSET K /\ B \in SUBSET K
    OBVIOUS
  <2>2. IsFiniteSet(A) /\ IsFiniteSet(B)
    BY <2>1, FS_Subset
  <2> QED
    BY <2>1, <2>2, FS_CardinalityType
<1>2. A \cap B = {} /\ x \notin A /\ x \notin B /\ K = (A \cup B) \cup {x}
  BY DEF StrictTotal
<1>3. Cardinality(K) = a + b + 1
  <2>1. IsFiniteSet(A \cup B) /\ Cardinality(A \cup B) = a + b - Cardinality(A \cap B)
    BY <1>1, FS_Union
  <2>2. Cardinality(A \cap B) = 0
    BY <1>2, FS_EmptySet
  <2>3. Cardinality((A \cup B) \cup {x}) = Cardinality(A \cup B) + 1
    BY <1>2, <2>1, FS_AddElement
  <2>4. Cardinality(K) = Cardinality((A \cup B) \cup {x})
    BY <1>2, Zenon
  <2> HIDE DEF A, B
  <2> QED
    BY <1>1, <2>1, <2>2, <2>3, <2>4
<1>4. /\ tA \in [1 .. a -> A] /\ tB \in [1 .. b -> B]
      /\ \A i, j \in 1 .. a : i < j => <<tA[i], tA[j]>> \in order
      /\ \A i, j \in 1 .. b : i < j => <<tB[i], tB[j]>> \in order
  BY DEF Lists
<1> HIDE DEF a, b, A, B
<1>5. \A y \in A : y \in K /\ <<y, x>> \in order
  BY DEF A
<1>6. \A y \in B : y \in K /\ <<x, y>> \in order
  BY DEF B
<1>7. \A y \in A, z \in B : <<y, z>> \in order
  BY <1>5, <1>6 DEF StrictTotal
<1>8. ASSUME NEW i \in 1 .. Cardinality(K)
      PROVE  /\ i <= a => t[i] = tA[i] /\ tA[i] \in A
             /\ i = a + 1 => t[i] = x
             /\ i > a + 1 => /\ t[i] = tB[i - a - 1] /\ i - a - 1 \in 1 .. b
                             /\ tB[i - a - 1] \in B
  <2>1. i <= a => i \in 1 .. a
    BY <1>1
  <2>2. i > a + 1 => i - a - 1 \in 1 .. b /\ ~(i <= a) /\ i # a + 1
    BY <1>1, <1>3
  <2>3. i = a + 1 => ~(i <= a)
    BY <1>1
  <2> QED
    BY <2>1, <2>2, <2>3, <1>4
<1>9. t \in [1 .. Cardinality(K) -> K]
  <2>1. ASSUME NEW i \in 1 .. Cardinality(K)
        PROVE  t[i] \in K
    <3>1. i <= a \/ i = a + 1 \/ i > a + 1
      BY <1>1
    <3> QED
      BY <3>1, <1>8, <1>5, <1>6
  <2> QED
    BY <2>1
<1>10. ASSUME NEW i \in 1 .. Cardinality(K), NEW j \in 1 .. Cardinality(K), i < j
       PROVE  <<t[i], t[j]>> \in order
  <2> HIDE DEF t
  <2>1. CASE j <= a
    <3>1. i \in 1 .. a /\ j \in 1 .. a
      BY <1>1, <1>10, <2>1
    <3> QED
      BY <3>1, <1>4, <1>8, <1>10
  <2>2. CASE i <= a /\ j = a + 1
    BY <2>2, <1>8, <1>5
  <2>3. CASE i <= a /\ j > a + 1
    BY <2>3, <1>8, <1>7
  <2>4. CASE i = a + 1 /\ j > a + 1
    BY <2>4, <1>8, <1>6
  <2>5. CASE i > a + 1 /\ j > a + 1
    <3>1. i - a - 1 < j - a - 1
      BY <1>1, <1>10
    <3> QED
      BY <3>1, <2>5, <1>8, <1>4
  <2> QED
    BY <1>1, <1>10, <2>1, <2>2, <2>3, <2>4, <2>5
<1> QED
  BY <1>9, <1>10 DEF Lists

(* Every finite set under a strict total order has a listing: otherwise a  *)
(* minimal one without it could be split around any of its elements.       *)
LEMMA ListingExists ==
  ASSUME NEW S, IsFiniteSet(S), NEW order, StrictTotal(S, order)
  PROVE  \E t : Lists(t, S, order)
<1> DEFINE Bad == {K \in SUBSET S : ~ \E t : Lists(t, K, order)}
<1>1. FiniteSubsetsOf(S) = SUBSET S
  BY FS_FiniteSubsetsOfFinite
<1>2. IsWellFoundedOn(StrictSubsetOrdering(S), SUBSET S)
  BY <1>1, FS_StrictSubsetOrderingWellFounded
<1>3. ASSUME Bad # {} PROVE FALSE
  <2>1. Bad \subseteq SUBSET S
    OBVIOUS
  <2>2. \E K \in Bad : \A L \in Bad : ~(<<L, K>> \in StrictSubsetOrdering(S))
    <3> HIDE DEF Bad
    <3> QED
      BY <1>2, <1>3, <2>1, WFMin, Zenon
  <2>3. PICK K \in Bad : \A L \in Bad : ~(<<L, K>> \in StrictSubsetOrdering(S))
    BY <2>2
  <2>4. \A L \in SUBSET K : L # K => \E t : Lists(t, L, order)
    BY <2>3 DEF StrictSubsetOrdering
  <2>5. IsFiniteSet(K) /\ StrictTotal(K, order)
    BY <2>3, FS_Subset DEF StrictTotal
  <2>6. CASE K = {}
    <3>1. Cardinality(K) = 0
      BY <2>6, FS_EmptySet
    <3>2. Lists([i \in {} |-> i], K, order)
      BY <3>1, <2>6 DEF Lists
    <3> QED
      BY <3>2, <2>3
  <2>7. CASE K # {}
    <3>1. PICK x \in K : TRUE
      BY <2>7
    <3>2. x \notin {y \in K : <<y, x>> \in order} /\ x \notin {y \in K : <<x, y>> \in order}
      BY <2>5 DEF StrictTotal
    <3>3. PICK tA : Lists(tA, {y \in K : <<y, x>> \in order}, order)
      BY <2>4, <3>2
    <3>4. PICK tB : Lists(tB, {y \in K : <<x, y>> \in order}, order)
      BY <2>4, <3>2
    <3>5. \E t : Lists(t, K, order)
      BY <2>5, <3>3, <3>4, JoinListings
    <3> QED
      BY <3>5, <2>3
  <2> QED
    BY <2>6, <2>7
<1> QED
  BY <1>3

(* What Listing returns: the set, each element once, in the given order.   *)
LEMMA ListingProperties ==
  ASSUME NEW K, IsFiniteSet(K), NEW order, StrictTotal(K, order)
  PROVE  /\ Listing(K, order) \in Seq(K)
         /\ Len(Listing(K, order)) = Cardinality(K)
         /\ IsInjective(Listing(K, order))
         /\ Range(Listing(K, order)) = K
         /\ \A i, j \in DOMAIN Listing(K, order) :
              i < j => <<Listing(K, order)[i], Listing(K, order)[j]>> \in order
<1> DEFINE n == Cardinality(K)
           t == Listing(K, order)
<1>1. n \in Nat
  BY FS_CardinalityType
<1>2. t \in [1 .. n -> K] /\ \A i, j \in 1 .. n : i < j => <<t[i], t[j]>> \in order
  <2>1. \E u \in [1 .. n -> K] : \A i, j \in 1 .. n : i < j => <<u[i], u[j]>> \in order
    BY ListingExists DEF Lists
  <2> QED
    BY <2>1 DEF Listing
<1> HIDE DEF t
<1>3. t \in Seq(K) /\ Len(t) = n /\ DOMAIN t = 1 .. n
  <2>1. t \in Seq(K)
    BY <1>1, <1>2, SeqDef
  <2>2. Len(t) \in Nat /\ DOMAIN t = 1 .. Len(t)
    BY <2>1, LenProperties
  <2> QED
    BY <1>1, <1>2, <2>1, <2>2
<1>4. IsInjective(t)
  <2>1. ASSUME NEW i \in 1 .. n, NEW j \in 1 .. n, t[i] = t[j], i # j
        PROVE  FALSE
    <3>1. i < j \/ j < i
      BY <2>1, <1>1
    <3>2. <<t[i], t[i]>> \in order
      BY <3>1, <2>1, <1>2
    <3> QED
      BY <3>2, <1>2 DEF StrictTotal
  <2> QED
    BY <2>1, <1>3 DEF IsInjective
<1>5. Range(t) = K
  <2>1. t \in Injection(1 .. n, K)
    BY <1>2, <1>4 DEF Injection
  <2>2. Cardinality(1 .. n) = n
    BY <1>1, FS_Interval
  <2>3. t \in Surjection(1 .. n, K)
    BY <2>1, <2>2, FS_Injection
  <2> QED
    BY <1>2, <2>3 DEF Surjection, Range
<1> QED
  BY <1>2, <1>3, <1>4, <1>5 DEF t
-----------------------------------------------------------------------------
(* Cutting and joining sequences that repeat nothing. *)

LEMMA SplitSequence ==
  ASSUME NEW S, NEW s \in Seq(S), IsInjective(s), NEW k \in 0 .. Len(s)
  PROVE  LET u == SubSeq(s, 1, k)
             v == SubSeq(s, k + 1, Len(s))
         IN  /\ u \in Seq(S) /\ v \in Seq(S)
             /\ Len(u) = k /\ Len(v) = Len(s) - k
             /\ IsInjective(u) /\ IsInjective(v)
             /\ Range(u) \cap Range(v) = {}
             /\ Range(s) = Range(u) \cup Range(v)
<1> DEFINE u == SubSeq(s, 1, k)
           v == SubSeq(s, k + 1, Len(s))
<1>1. Len(s) \in Nat /\ DOMAIN s = 1 .. Len(s) /\ \A i \in 1 .. Len(s) : s[i] \in S
  BY LenProperties
<1>2. /\ u \in Seq(S) /\ Len(u) = k
      /\ \A i \in 1 .. k : u[i] = s[i]
  <2>1. \A i \in 1 .. k : s[i] \in S
    BY <1>1
  <2>2. /\ u \in Seq(S)
        /\ Len(u) = IF 1 <= k THEN k - 1 + 1 ELSE 0
        /\ \A i \in 1 .. k - 1 + 1 : u[i] = s[1 + i - 1]
    BY <2>1, <1>1, SubSeqProperties
  <2> QED
    BY <2>2, <1>1
<1>3. /\ v \in Seq(S) /\ Len(v) = Len(s) - k
      /\ \A i \in 1 .. Len(s) - k : v[i] = s[k + i]
  <2>1. \A i \in k + 1 .. Len(s) : s[i] \in S
    BY <1>1
  <2>2. /\ v \in Seq(S)
        /\ \A i \in 1 .. Len(s) - (k + 1) + 1 : v[i] = s[k + 1 + i - 1]
    BY <2>1, <1>1, SubSeqProperties
  <2>3. Len(v) = Len(s) - k
    <3>1. Len(v) = IF k + 1 <= Len(s) THEN Len(s) - (k + 1) + 1 ELSE 0
      BY <2>1, <1>1, SubSeqProperties
    <3>2. Len(s) \in Nat /\ k \in Nat /\ k <= Len(s)
      BY <1>1
    <3> HIDE DEF v
    <3> QED
      BY <3>1, <3>2
  <2> HIDE DEF v
  <2>4. \A i \in 1 .. Len(s) - k : v[i] = s[k + i]
    <3> TAKE i \in 1 .. Len(s) - k
    <3>1. i \in 1 .. Len(s) - (k + 1) + 1 /\ k + 1 + i - 1 = k + i
      BY <1>1
    <3>2. v[i] = s[k + 1 + i - 1]
      BY <2>2, <3>1
    <3> QED
      BY <3>1, <3>2
  <2> QED
    BY <2>2, <2>3, <2>4
<1> HIDE DEF u, v
<1>4. DOMAIN u = 1 .. k /\ DOMAIN v = 1 .. Len(s) - k
  BY <1>2, <1>3, LenProperties
<1>5. IsInjective(u) /\ IsInjective(v)
  <2>1. \A i, j \in 1 .. k : u[i] = u[j] => i = j
    BY <1>1, <1>2 DEF IsInjective
  <2>2. \A i, j \in 1 .. Len(s) - k : v[i] = v[j] => i = j
    <3>1. \A i \in 1 .. Len(s) - k : k + i \in 1 .. Len(s) /\ v[i] = s[k + i]
      BY <1>1, <1>3
    <3>2. \A i, j \in 1 .. Len(s) - k : s[k + i] = s[k + j] => k + i = k + j
      BY <3>1, <1>1 DEF IsInjective
    <3> QED
      BY <3>1, <3>2, <1>1
  <2> QED
    BY <2>1, <2>2, <1>4 DEF IsInjective
<1>6. Range(u) \cap Range(v) = {}
  <2>1. ASSUME NEW i \in 1 .. k, NEW j \in 1 .. Len(s) - k, u[i] = v[j] PROVE FALSE
    <3>1. i # k + j /\ i \in 1 .. Len(s) /\ k + j \in 1 .. Len(s)
      BY <1>1
    <3> QED
      BY <3>1, <2>1, <1>1, <1>2, <1>3 DEF IsInjective
  <2> QED
    BY <2>1, <1>4 DEF Range
<1>7. Range(s) = Range(u) \cup Range(v)
  <2>1. ASSUME NEW i \in 1 .. Len(s) PROVE s[i] \in Range(u) \cup Range(v)
    <3>1. CASE i <= k
      BY <3>1, <1>1, <1>2, <1>4 DEF Range
    <3>2. CASE i > k
      <4>1. i - k \in 1 .. Len(s) - k /\ k + (i - k) = i
        BY <3>2, <1>1
      <4> QED
        BY <4>1, <1>3, <1>4 DEF Range
    <3> QED
      BY <3>1, <3>2, <1>1
  <2>2. \A i \in 1 .. k : u[i] \in Range(s)
    BY <1>1, <1>2 DEF Range
  <2>3. \A i \in 1 .. Len(s) - k : v[i] \in Range(s)
    BY <1>1, <1>3 DEF Range
  <2> QED
    BY <2>1, <2>2, <2>3, <1>1, <1>4 DEF Range
<1> QED
  BY <1>2, <1>3, <1>5, <1>6, <1>7 DEF u, v

LEMMA JoinSequences ==
  ASSUME NEW S, NEW s \in Seq(S), NEW t \in Seq(S)
  PROVE  /\ s \o t \in Seq(S)
         /\ Len(s \o t) = Len(s) + Len(t)
         /\ Range(s \o t) = Range(s) \cup Range(t)
         /\ /\ IsInjective(s)
            /\ IsInjective(t)
            /\ Range(s) \cap Range(t) = {}
            => IsInjective(s \o t)
<1>1. /\ Len(s) \in Nat /\ Len(t) \in Nat
      /\ DOMAIN s = 1 .. Len(s) /\ DOMAIN t = 1 .. Len(t)
  BY LenProperties
<1>2. /\ s \o t \in Seq(S)
      /\ Len(s \o t) = Len(s) + Len(t)
      /\ \A i \in 1 .. Len(s) + Len(t) :
           (s \o t)[i] = IF i <= Len(s) THEN s[i] ELSE t[i - Len(s)]
  BY ConcatProperties
<1>3. DOMAIN (s \o t) = 1 .. Len(s) + Len(t)
  BY <1>2, LenProperties
<1>4. Range(s \o t) = Range(s) \cup Range(t)
  BY RangeConcatenation
<1>5. ASSUME IsInjective(s), IsInjective(t), Range(s) \cap Range(t) = {},
             NEW i \in 1 .. Len(s) + Len(t), NEW j \in 1 .. Len(s) + Len(t),
             (s \o t)[i] = (s \o t)[j]
      PROVE  i = j
  <2> DEFINE low(n) == n <= Len(s)
  <2>1. \A n \in 1 .. Len(s) + Len(t) :
          /\ low(n) => n \in 1 .. Len(s) /\ (s \o t)[n] = s[n]
          /\ ~low(n) => n - Len(s) \in 1 .. Len(t) /\ (s \o t)[n] = t[n - Len(s)]
    BY <1>1, <1>2
  <2> HIDE DEF low
  <2>2. CASE low(i) /\ low(j)
    BY <2>1, <2>2, <1>1, <1>5 DEF IsInjective
  <2>3. CASE ~low(i) /\ ~low(j)
    <3>1. i - Len(s) = j - Len(s)
      BY <2>1, <2>3, <1>1, <1>5 DEF IsInjective
    <3> QED
      BY <3>1, <1>1
  <2>4. \A m \in DOMAIN s, n \in DOMAIN t : s[m] # t[n]
    BY <1>5 DEF Range
  <2>5. CASE low(i) /\ ~low(j)
    BY <2>1, <2>4, <2>5, <1>1, <1>5
  <2>6. CASE ~low(i) /\ low(j)
    BY <2>1, <2>4, <2>6, <1>1, <1>5
  <2> QED
    BY <2>2, <2>3, <2>5, <2>6
<1>6. /\ IsInjective(s)
      /\ IsInjective(t)
      /\ Range(s) \cap Range(t) = {}
      => IsInjective(s \o t)
  BY <1>3, <1>5 DEF IsInjective
<1> QED
  BY <1>2, <1>4, <1>6
-----------------------------------------------------------------------------
(* The queue's operators. *)

LEMMA NewQueueProperties ==
  ASSUME NEW policies \in Seq(Policy), IsInjective(policies), NEW prior \in Nat
  PROVE  /\ QueueInv(NewQueue(policies, prior), Range(policies), prior)
         /\ NewQueue(policies, prior).totalPolicies = Len(policies) + prior
<1> DEFINE q == NewQueue(policies, prior)
<1>1. /\ q.pending = policies
      /\ q.inFlight = [b \in {} |-> {}] /\ DOMAIN q.inFlight = {}
      /\ q.attempts = [p \in Policy |-> 0]
      /\ q.evaluatedCount = prior
      /\ q.totalPolicies = Len(policies) + prior
      /\ q.deadLetters = {} /\ q.nextBatchSeq = 0 /\ q.evaluated = {}
  BY DEF NewQueue
<1>2. /\ Range(policies) \subseteq Policy
      /\ Len(policies) \in Nat
  BY LenProperties DEF Range
<1>3. InFlightPolicies(q) = {} /\ Dropped(q) = {}
  BY <1>1 DEF InFlightPolicies, Dropped
<1>4. QueueTypeOK(q)
  <2>1. q.inFlight \in [DOMAIN q.inFlight -> Batch]
    BY <1>1
  <2>2. q \in [ pending        : Seq(Policy),
               inFlight       : [DOMAIN q.inFlight -> Batch],
               attempts       : [Policy -> Nat],
               evaluatedCount : Nat,
               totalPolicies  : Nat,
               deadLetters    : SUBSET [policy : Policy, attempts : Nat, lastPeer : Peer],
               nextBatchSeq   : Nat,
               evaluated      : SUBSET Policy ]
    BY <1>1, <1>2, <2>1 DEF NewQueue
  <2> QED
    BY <2>2, <1>1 DEF QueueTypeOK
<1>5. BatchesDisjoint(q)
  BY <1>1 DEF BatchesDisjoint
<1>6. OnePlaceEach(q, Range(policies))
  BY <1>1, <1>3 DEF OnePlaceEach
<1>7. AttemptsBounded(q)
  BY <1>1, <1>2, <1>3, QueueAssumption DEF AttemptsBounded
<1>8. TalliesMatch(q, prior)
  BY <1>1, FS_EmptySet DEF TalliesMatch
<1> QED
  BY <1>1, <1>4, <1>5, <1>6, <1>7, <1>8 DEF QueueInv

(* What assignBatch changes.                                               *)
LEMMA AssignBatchFields ==
  ASSUME NEW q, QueueTypeOK(q), IsInjective(q.pending), q.pending # <<>>,
         NEW peer \in Peer, NEW size \in Nat \ {0}
  PROVE  LET q2    == AssignBatch(q, peer, size)
             batch == NextBatch(q, size)
             seq   == q.nextBatchSeq + 1
         IN  /\ seq \notin DOMAIN q.inFlight
             /\ DOMAIN q2.inFlight = DOMAIN q.inFlight \cup {seq}
             /\ q2.inFlight[seq].peer = peer /\ q2.inFlight[seq].policies = batch
             /\ \A b \in DOMAIN q.inFlight : q2.inFlight[b] = q.inFlight[b]
             /\ batch \in Seq(Policy) /\ IsInjective(batch)
             /\ Range(batch) \cap Range(q2.pending) = {}
             /\ Range(q.pending) = Range(batch) \cup Range(q2.pending)
             /\ IsInjective(q2.pending)
             /\ \A p \in Policy :
                  q2.attempts[p] = q.attempts[p] + IF p \in Range(batch) THEN 1 ELSE 0
             /\ q2.evaluatedCount = q.evaluatedCount
             /\ q2.totalPolicies = q.totalPolicies
             /\ q2.deadLetters = q.deadLetters
             /\ q2.nextBatchSeq = seq
             /\ q2.evaluated = q.evaluated
             /\ Len(batch) >= 1
             /\ Len(q2.pending) = Len(q.pending) - Len(batch)
             /\ QueueTypeOK(q2)
<1> DEFINE q2    == AssignBatch(q, peer, size)
           batch == NextBatch(q, size)
           seq   == q.nextBatchSeq + 1
           k     == IF size < Len(q.pending) THEN size ELSE Len(q.pending)
<1>1. q.pending \in Seq(Policy) /\ Len(q.pending) \in Nat /\ q.nextBatchSeq \in Nat
  BY LenProperties DEF QueueTypeOK
<1>2. k \in 1 .. Len(q.pending) /\ batch = SubSeq(q.pending, 1, k)
  <2>1. Len(q.pending) # 0
    BY <1>1, EmptySeq
  <2> QED
    BY <1>1, <2>1 DEF NextBatch
<1> HIDE DEF k
<1>3. LET rest == SubSeq(q.pending, k + 1, Len(q.pending))
      IN  /\ batch \in Seq(Policy) /\ rest \in Seq(Policy)
          /\ Len(batch) = k /\ Len(rest) = Len(q.pending) - k
          /\ IsInjective(batch) /\ IsInjective(rest)
          /\ Range(batch) \cap Range(rest) = {}
          /\ Range(q.pending) = Range(batch) \cup Range(rest)
  BY <1>1, <1>2, SplitSequence
<1> HIDE DEF batch
<1>4. /\ q2.pending = SubSeq(q.pending, k + 1, Len(q.pending))
      /\ q2.attempts = [p \in Policy |-> q.attempts[p] +
                          IF p \in Range(batch) THEN 1 ELSE 0]
      /\ q2.inFlight = [b \in DOMAIN q.inFlight \cup {seq} |->
                          IF b = seq THEN [peer |-> peer, policies |-> batch]
                                     ELSE q.inFlight[b]]
      /\ q2.nextBatchSeq = seq
      /\ q2.evaluatedCount = q.evaluatedCount
      /\ q2.totalPolicies = q.totalPolicies
      /\ q2.deadLetters = q.deadLetters
      /\ q2.evaluated = q.evaluated
  BY <1>3 DEF QueueTypeOK, AssignBatch, batch
<1>5. seq \notin DOMAIN q.inFlight
  BY <1>1 DEF QueueTypeOK
<1>6. QueueTypeOK(q2)
  <2>1. q2.inFlight \in [DOMAIN q2.inFlight -> Batch]
    BY <1>3, <1>4 DEF QueueTypeOK, Batch
  <2>2. q2.attempts \in [Policy -> Nat]
    BY <1>4 DEF QueueTypeOK
  <2>3. q2.pending \in Seq(Policy)
    BY <1>3, <1>4
  <2>4. DOMAIN q2.inFlight \subseteq 1 .. q2.nextBatchSeq
    BY <1>1, <1>4 DEF QueueTypeOK
  <2>5. q2 \in [ pending        : Seq(Policy),
                inFlight       : [DOMAIN q2.inFlight -> Batch],
                attempts       : [Policy -> Nat],
                evaluatedCount : Nat,
                totalPolicies  : Nat,
                deadLetters    : SUBSET [policy : Policy, attempts : Nat, lastPeer : Peer],
                nextBatchSeq   : Nat,
                evaluated      : SUBSET Policy ]
    <3> DEFINE rest == SubSeq(q.pending, Len(batch) + 1, Len(q.pending))
               att  == [p \in Policy |-> q.attempts[p] + IF p \in Range(batch) THEN 1 ELSE 0]
               inf  == [b \in DOMAIN q.inFlight \cup {seq} |->
                          IF b = seq THEN [peer |-> peer, policies |-> batch]
                                     ELSE q.inFlight[b]]
    <3>1. /\ rest \in Seq(Policy) /\ att \in [Policy -> Nat] /\ seq \in Nat
          /\ inf \in [DOMAIN q2.inFlight -> Batch]
      <4>1. q2.attempts = att /\ q2.inFlight = inf
        BY <1>4
      <4>2. rest \in Seq(Policy) /\ seq \in Nat
        BY <1>1, <1>3
      <4> HIDE DEF rest, att, inf, seq, q2
      <4> QED
        BY <4>1, <4>2, <2>1, <2>2
    <3>2. q2 = [q EXCEPT !.pending = rest, !.attempts = att, !.inFlight = inf,
                         !.nextBatchSeq = seq]
      BY DEF AssignBatch, batch
    <3> HIDE DEF rest, att, inf, seq, q2
    <3> DEFINE D == DOMAIN q2.inFlight
    <3>3. inf \in [D -> Batch]
      BY <3>1
    <3> HIDE DEF D
    <3>4. [q EXCEPT !.pending = rest, !.attempts = att, !.inFlight = inf,
                    !.nextBatchSeq = seq]
          \in [ pending        : Seq(Policy),
                inFlight       : [D -> Batch],
                attempts       : [Policy -> Nat],
                evaluatedCount : Nat,
                totalPolicies  : Nat,
                deadLetters    : SUBSET [policy : Policy, attempts : Nat, lastPeer : Peer],
                nextBatchSeq   : Nat,
                evaluated      : SUBSET Policy ]
      BY <3>1, <3>3 DEF QueueTypeOK
    <3> QED
      BY <3>2, <3>4, Zenon DEF D
  <2> QED
    BY <2>4, <2>5 DEF QueueTypeOK
<1> QED
  BY <1>1, <1>2, <1>3, <1>4, <1>5, <1>6 DEF batch

(* A batch handed out: no policy is lost, doubled or over its budget.      *)
LEMMA AssignBatchKeepsInv ==
  ASSUME NEW q, NEW policies, NEW prior, QueueInv(q, policies, prior),
         q.pending # <<>>, NEW peer \in Peer, NEW size \in Nat \ {0}
  PROVE  QueueInv(AssignBatch(q, peer, size), policies, prior)
<1> DEFINE q2    == AssignBatch(q, peer, size)
           batch == NextBatch(q, size)
           seq   == q.nextBatchSeq + 1
<1>1. /\ QueueTypeOK(q) /\ BatchesDisjoint(q) /\ OnePlaceEach(q, policies)
      /\ AttemptsBounded(q) /\ TalliesMatch(q, prior)
  BY DEF QueueInv
<1>2. /\ seq \notin DOMAIN q.inFlight
      /\ DOMAIN q2.inFlight = DOMAIN q.inFlight \cup {seq}
      /\ q2.inFlight[seq].policies = batch
      /\ \A b \in DOMAIN q.inFlight : q2.inFlight[b] = q.inFlight[b]
      /\ batch \in Seq(Policy) /\ IsInjective(batch)
      /\ Range(batch) \cap Range(q2.pending) = {}
      /\ Range(q.pending) = Range(batch) \cup Range(q2.pending)
      /\ IsInjective(q2.pending)
      /\ \A p \in Policy :
           q2.attempts[p] = q.attempts[p] + IF p \in Range(batch) THEN 1 ELSE 0
      /\ q2.evaluatedCount = q.evaluatedCount
      /\ q2.deadLetters = q.deadLetters
      /\ q2.evaluated = q.evaluated
      /\ QueueTypeOK(q2)
  BY <1>1, AssignBatchFields DEF OnePlaceEach
<1> HIDE DEF q2, batch, seq
<1>3. /\ PoliciesOf(q2, seq) = Range(batch)
      /\ \A b \in DOMAIN q.inFlight : PoliciesOf(q2, b) = PoliciesOf(q, b)
      /\ q2.inFlight[seq].policies = batch
  BY <1>2 DEF PoliciesOf
<1>4. InFlightPolicies(q2) = InFlightPolicies(q) \cup Range(batch)
  BY <1>2, <1>3 DEF InFlightPolicies
<1>5. Dropped(q2) = Dropped(q)
  BY <1>2 DEF Dropped
<1>6. Range(batch) \cap InFlightPolicies(q) = {}
  BY <1>1, <1>2 DEF OnePlaceEach
<1>7. BatchesDisjoint(q2)
  <2>1. \A b \in DOMAIN q.inFlight : PoliciesOf(q, b) \subseteq InFlightPolicies(q)
    BY DEF InFlightPolicies
  <2>2. \A b \in DOMAIN q2.inFlight : IsInjective(q2.inFlight[b].policies)
    BY <1>1, <1>2, <1>3 DEF BatchesDisjoint
  <2>3. \A b, c \in DOMAIN q2.inFlight :
          b # c => PoliciesOf(q2, b) \cap PoliciesOf(q2, c) = {}
    BY <1>1, <1>2, <1>3, <1>6, <2>1 DEF BatchesDisjoint
  <2> QED
    BY <2>2, <2>3 DEF BatchesDisjoint
<1>8. OnePlaceEach(q2, policies)
  BY <1>1, <1>2, <1>4, <1>5, <1>6 DEF OnePlaceEach
<1>9. AttemptsBounded(q2)
  <2>1. Range(q.pending) \subseteq Policy /\ InFlightPolicies(q) \subseteq Policy
    <3>1. \A b \in DOMAIN q.inFlight : q.inFlight[b].policies \in Seq(Policy)
      BY <1>1 DEF QueueTypeOK, Batch
    <3>2. \A s \in Seq(Policy) : Range(s) \subseteq Policy
      BY LenProperties DEF Range
    <3>3. q.pending \in Seq(Policy)
      BY <1>1 DEF QueueTypeOK
    <3> QED
      BY <3>1, <3>2, <3>3 DEF InFlightPolicies, PoliciesOf
  <2>2. \A p \in Policy : q.attempts[p] \in Nat
    BY <1>1 DEF QueueTypeOK
  <2>3. ASSUME NEW p \in Range(q2.pending) PROVE q2.attempts[p] < MAX_POLICY_ATTEMPTS
    BY <1>1, <1>2, <2>1, <2>2 DEF AttemptsBounded
  <2>4. ASSUME NEW p \in InFlightPolicies(q2)
        PROVE  q2.attempts[p] \in 1 .. MAX_POLICY_ATTEMPTS
    <3>1. CASE p \in Range(batch)
      <4>1. p \in Range(q.pending) /\ q2.attempts[p] = q.attempts[p] + 1
        BY <1>2, <2>1, <3>1
      <4>2. q.attempts[p] < MAX_POLICY_ATTEMPTS /\ q.attempts[p] \in Nat
        BY <1>1, <2>1, <2>2, <4>1 DEF AttemptsBounded
      <4> QED
        BY <4>1, <4>2, QueueAssumption
    <3>2. CASE p \in InFlightPolicies(q)
      <4>1. q2.attempts[p] = q.attempts[p]
        BY <1>2, <1>6, <2>1, <2>2, <3>2
      <4> QED
        BY <4>1, <3>2, <1>1 DEF AttemptsBounded
    <3> QED
      BY <3>1, <3>2, <1>4
  <2> QED
    BY <2>3, <2>4, <1>1, <1>2 DEF AttemptsBounded
<1>10. TalliesMatch(q2, prior)
  BY <1>1, <1>2 DEF TalliesMatch
<1> QED
  BY <1>2, <1>7, <1>8, <1>9, <1>10 DEF QueueInv, q2

(* What completeBatch changes.                                             *)
LEMMA CompleteBatchFields ==
  ASSUME NEW q, QueueTypeOK(q), NEW b \in DOMAIN q.inFlight
  PROVE  LET q2 == CompleteBatch(q, b)
         IN  /\ DOMAIN q2.inFlight = DOMAIN q.inFlight \ {b}
             /\ \A c \in DOMAIN q2.inFlight : q2.inFlight[c] = q.inFlight[c]
             /\ q2.pending = q.pending
             /\ \A p \in Policy :
                  q2.attempts[p] = IF p \in PoliciesOf(q, b) THEN 0 ELSE q.attempts[p]
             /\ q2.evaluatedCount = q.evaluatedCount + Len(q.inFlight[b].policies)
             /\ q2.totalPolicies = q.totalPolicies
             /\ q2.deadLetters = q.deadLetters
             /\ q2.nextBatchSeq = q.nextBatchSeq
             /\ q2.evaluated = q.evaluated \cup PoliciesOf(q, b)
             /\ PoliciesOf(q, b) \subseteq Policy
             /\ QueueTypeOK(q2)
<1> DEFINE q2   == CompleteBatch(q, b)
           rest == [c \in DOMAIN q.inFlight \ {b} |-> q.inFlight[c]]
           D    == DOMAIN q.inFlight \ {b}
           sum  == q.evaluatedCount + Len(q.inFlight[b].policies)
           done == q.evaluated \cup PoliciesOf(q, b)
           att  == [p \in Policy |-> IF p \in PoliciesOf(q, b) THEN 0 ELSE q.attempts[p]]
<1>1. /\ q.inFlight[b].policies \in Seq(Policy)
      /\ Len(q.inFlight[b].policies) \in Nat
      /\ PoliciesOf(q, b) \subseteq Policy
  <2>1. q.inFlight[b].policies \in Seq(Policy)
    BY DEF QueueTypeOK, Batch
  <2> QED
    BY <2>1, LenProperties DEF PoliciesOf, Range
<1>2. /\ rest \in [D -> Batch] /\ D \subseteq 1 .. q.nextBatchSeq
      /\ sum \in Nat /\ done \in SUBSET Policy /\ att \in [Policy -> Nat]
  BY <1>1 DEF QueueTypeOK
<1>3. q2 = [q EXCEPT !.inFlight = rest, !.evaluatedCount = sum, !.evaluated = done,
                     !.attempts = att]
  BY DEF CompleteBatch, Restrict, QueueTypeOK
<1> HIDE DEF q2, rest, sum, done, att, D
<1>4. /\ q2.inFlight = rest /\ q2.evaluatedCount = sum /\ q2.evaluated = done
      /\ q2.attempts = att /\ q2.pending = q.pending
      /\ q2.totalPolicies = q.totalPolicies /\ q2.deadLetters = q.deadLetters
      /\ q2.nextBatchSeq = q.nextBatchSeq
  BY <1>3 DEF QueueTypeOK
<1>5. DOMAIN q2.inFlight = D
  BY <1>2, <1>4
<1>6. q2 \in [ pending        : Seq(Policy),
              inFlight       : [D -> Batch],
              attempts       : [Policy -> Nat],
              evaluatedCount : Nat,
              totalPolicies  : Nat,
              deadLetters    : SUBSET [policy : Policy, attempts : Nat, lastPeer : Peer],
              nextBatchSeq   : Nat,
              evaluated      : SUBSET Policy ]
  BY <1>2, <1>3 DEF QueueTypeOK
<1>7. QueueTypeOK(q2)
  BY <1>2, <1>4, <1>5, <1>6 DEF QueueTypeOK
<1> QED
  BY <1>1, <1>4, <1>5, <1>7 DEF q2, rest, sum, done, att, D

LEMMA InjectiveLength ==
  ASSUME NEW S, NEW s \in Seq(S), IsInjective(s)
  PROVE  IsFiniteSet(Range(s)) /\ Cardinality(Range(s)) = Len(s)
<1>1. Len(s) \in Nat /\ DOMAIN s = 1 .. Len(s) /\ s \in [1 .. Len(s) -> S]
  BY LenProperties
<1>2. s \in Bijection(1 .. Len(s), Range(s))
  BY <1>1 DEF Bijection, Injection, Surjection, Range
<1>3. ExistsBijection(1 .. Len(s), Range(s))
  BY <1>2 DEF ExistsBijection
<1>4. IsFiniteSet(1 .. Len(s)) /\ Cardinality(1 .. Len(s)) = Len(s)
  BY <1>1, FS_Interval
<1> QED
  BY <1>3, <1>4, FS_Bijection

(* A batch completed: its policies are done, each counted once.            *)
LEMMA CompleteBatchKeepsInv ==
  ASSUME NEW q, NEW policies, NEW prior \in Nat, QueueInv(q, policies, prior),
         NEW b \in DOMAIN q.inFlight
  PROVE  QueueInv(CompleteBatch(q, b), policies, prior)
<1> DEFINE q2 == CompleteBatch(q, b)
<1>1. /\ QueueTypeOK(q) /\ BatchesDisjoint(q) /\ OnePlaceEach(q, policies)
      /\ AttemptsBounded(q) /\ TalliesMatch(q, prior)
  BY DEF QueueInv
<1>2. /\ DOMAIN q2.inFlight = DOMAIN q.inFlight \ {b}
      /\ \A c \in DOMAIN q2.inFlight : q2.inFlight[c] = q.inFlight[c]
      /\ q2.pending = q.pending
      /\ \A p \in Policy :
           q2.attempts[p] = IF p \in PoliciesOf(q, b) THEN 0 ELSE q.attempts[p]
      /\ q2.evaluatedCount = q.evaluatedCount + Len(q.inFlight[b].policies)
      /\ q2.deadLetters = q.deadLetters
      /\ q2.evaluated = q.evaluated \cup PoliciesOf(q, b)
      /\ PoliciesOf(q, b) \subseteq Policy
      /\ QueueTypeOK(q2)
  BY <1>1, CompleteBatchFields
<1> HIDE DEF q2
<1>3. \A c \in DOMAIN q2.inFlight : PoliciesOf(q2, c) = PoliciesOf(q, c)
  BY <1>2 DEF PoliciesOf
<1>4. InFlightPolicies(q) = InFlightPolicies(q2) \cup PoliciesOf(q, b)
  BY <1>2, <1>3 DEF InFlightPolicies
<1>5. InFlightPolicies(q2) \cap PoliciesOf(q, b) = {}
  <2>1. \A c \in DOMAIN q2.inFlight : PoliciesOf(q2, c) \cap PoliciesOf(q, b) = {}
    BY <1>1, <1>2, <1>3 DEF BatchesDisjoint
  <2> QED
    BY <2>1 DEF InFlightPolicies
<1>6. Dropped(q2) = Dropped(q)
  BY <1>2 DEF Dropped
<1>7. BatchesDisjoint(q2)
  BY <1>1, <1>2, <1>3 DEF BatchesDisjoint
<1>8. OnePlaceEach(q2, policies)
  BY <1>1, <1>2, <1>4, <1>5, <1>6 DEF OnePlaceEach
<1>9. AttemptsBounded(q2)
  <2>1. Range(q.pending) \cap PoliciesOf(q, b) = {}
    BY <1>1, <1>4 DEF OnePlaceEach
  <2>2. Range(q.pending) \subseteq Policy /\ InFlightPolicies(q) \subseteq Policy
    <3>1. \A c \in DOMAIN q.inFlight : q.inFlight[c].policies \in Seq(Policy)
      BY <1>1 DEF QueueTypeOK, Batch
    <3>2. \A s \in Seq(Policy) : Range(s) \subseteq Policy
      BY LenProperties DEF Range
    <3>3. q.pending \in Seq(Policy)
      BY <1>1 DEF QueueTypeOK
    <3> QED
      BY <3>1, <3>2, <3>3 DEF InFlightPolicies, PoliciesOf
  <2>3. \A p \in Range(q2.pending) : q2.attempts[p] = q.attempts[p]
    BY <1>2, <2>1, <2>2
  <2>4. \A p \in InFlightPolicies(q2) :
          p \in InFlightPolicies(q) /\ q2.attempts[p] = q.attempts[p]
    BY <1>2, <1>4, <1>5, <2>2
  <2> QED
    BY <1>1, <1>2, <2>3, <2>4 DEF AttemptsBounded
<1>10. TalliesMatch(q2, prior)
  <2>1. q.evaluated \subseteq Policy /\ q.inFlight[b].policies \in Seq(Policy)
    BY <1>1 DEF QueueTypeOK, Batch
  <2>2. IsFiniteSet(q.evaluated) /\ Cardinality(q.evaluated) \in Nat
    BY <2>1, QueueAssumption, FS_Subset, FS_CardinalityType
  <2>3. /\ IsFiniteSet(PoliciesOf(q, b))
        /\ Cardinality(PoliciesOf(q, b)) = Len(q.inFlight[b].policies)
    BY <2>1, <1>1, InjectiveLength DEF BatchesDisjoint, PoliciesOf
  <2>4. q.evaluated \cap PoliciesOf(q, b) = {}
    BY <1>1, <1>4 DEF OnePlaceEach
  <2>5a. Cardinality(q.evaluated \cup PoliciesOf(q, b))
          = Cardinality(q.evaluated) + Cardinality(PoliciesOf(q, b))
              - Cardinality(q.evaluated \cap PoliciesOf(q, b))
    BY <2>2, <2>3, FS_Union
  <2>5. Cardinality(q.evaluated \cup PoliciesOf(q, b))
          = Cardinality(q.evaluated) + Cardinality(PoliciesOf(q, b)) - 0
    BY <2>4, <2>5a, FS_EmptySet
  <2>6. Len(q.inFlight[b].policies) \in Nat
    BY <2>1, LenProperties
  <2>7. q.evaluatedCount = prior + Cardinality(q.evaluated)
    BY <1>1 DEF TalliesMatch
  <2>8. q2.evaluatedCount = prior + Cardinality(q2.evaluated)
    BY <1>2, <2>2, <2>3, <2>5, <2>6, <2>7
  <2> QED
    BY <1>1, <1>2, <2>8 DEF TalliesMatch
<1> QED
  BY <1>2, <1>7, <1>8, <1>9, <1>10 DEF QueueInv, q2

(* The policies several batches return stand in one strict order.          *)
LEMMA RequeueOrderTotal ==
  ASSUME NEW q, QueueTypeOK(q), BatchesDisjoint(q), NEW S \in SUBSET DOMAIN q.inFlight
  PROVE  /\ StrictTotal(Returned(q, S), RequeueOrder(q, S))
         /\ \A K \in SUBSET Returned(q, S) : StrictTotal(K, RequeueOrder(q, S))
         /\ Returned(q, S) \subseteq InFlightPolicies(q)
         /\ InFlightPolicies(q) \subseteq Policy
<1> DEFINE R == Returned(q, S)
           before(p, r) == RequeuedBefore(q, S, p, r)
           at(b, i) == q.inFlight[b].policies[i]
           D(b) == DOMAIN q.inFlight[b].policies
<1>1. S \subseteq Nat /\ \A b \in S : D(b) \subseteq Nat
  <2>1. \A b \in S : q.inFlight[b].policies \in Seq(Policy)
    BY DEF QueueTypeOK, Batch
  <2>2. q.nextBatchSeq \in Nat /\ DOMAIN q.inFlight \subseteq 1 .. q.nextBatchSeq
    BY DEF QueueTypeOK
  <2> QED
    BY <2>1, <2>2, LenProperties
<1>2. \A p \in R : \E b \in S : \E i \in D(b) : p = at(b, i)
  BY DEF Returned, PoliciesOf, Range
<1>3. \A b, c \in S : \A i \in D(b), j \in D(c) : at(b, i) = at(c, j) => b = c /\ i = j
  <2> TAKE b, c \in S
  <2> TAKE i \in D(b), j \in D(c)
  <2>1. at(b, i) \in PoliciesOf(q, b) /\ at(c, j) \in PoliciesOf(q, c)
    BY DEF PoliciesOf, Range
  <2>2. at(b, i) = at(c, j) => b = c
    BY <2>1 DEF BatchesDisjoint
  <2> QED
    BY <2>2 DEF BatchesDisjoint, IsInjective
<1>4. \A b, c \in S : \A i \in D(b), j \in D(c) :
        before(at(b, i), at(c, j)) <=> b > c \/ (b = c /\ i < j)
  <2> TAKE b, c \in S
  <2> TAKE i \in D(b), j \in D(c)
  <2>1. \A d \in S : /\ at(b, i) \in PoliciesOf(q, d) <=> d = b
                     /\ at(c, j) \in PoliciesOf(q, d) <=> d = c
    BY <1>3 DEF PoliciesOf, Range
  <2>2. \A d \in S : \A m, n \in D(d) :
          m < n /\ at(b, i) = at(d, m) /\ at(c, j) = at(d, n)
            <=> m < n /\ b = d /\ i = m /\ c = d /\ j = n
    BY <1>3
  <2>3. (\E d, e \in S :
           d > e /\ at(b, i) \in PoliciesOf(q, d) /\ at(c, j) \in PoliciesOf(q, e)) <=> b > c
    <3> HIDE DEF at, D
    <3> QED
      BY <2>1
  <2>4. (\E d \in S : \E m, n \in D(d) :
           m < n /\ at(b, i) = at(d, m) /\ at(c, j) = at(d, n)) <=> b = c /\ i < j
    <3> HIDE DEF at, D
    <3> QED
      BY <2>2
  <2> QED
    BY <2>3, <2>4 DEF RequeuedBefore
<1>5. \A p, r \in R : <<p, r>> \in RequeueOrder(q, S) <=> before(p, r)
  BY DEF RequeueOrder
<1> HIDE DEF R, before, at, D
<1>6. \A x \in R : ~before(x, x)
  BY <1>1, <1>2, <1>3, <1>4
<1>7. \A x, y \in R : x # y => before(x, y) \/ before(y, x)
  <2> TAKE x, y \in R
  <2>1a. PICK b \in S : \E i \in D(b) : x = at(b, i)
    BY <1>2
  <2>1. PICK i \in D(b) : x = at(b, i)
    BY <2>1a
  <2>2a. PICK c \in S : \E j \in D(c) : y = at(c, j)
    BY <1>2
  <2>2. PICK j \in D(c) : y = at(c, j)
    BY <2>2a
  <2>3. b \in Nat /\ c \in Nat /\ i \in Nat /\ j \in Nat
    BY <1>1, <2>1, <2>2
  <2>4. b > c \/ c > b \/ b = c
    BY <2>3
  <2>5. i < j \/ j < i \/ i = j
    BY <2>3
  <2> QED
    BY <2>1, <2>2, <2>4, <2>5, <1>4
<1>8. \A x, y, z \in R : before(x, y) /\ before(y, z) => before(x, z)
  <2> TAKE x, y, z \in R
  <2>1a. PICK b \in S : \E i \in D(b) : x = at(b, i)
    BY <1>2
  <2>1. PICK i \in D(b) : x = at(b, i)
    BY <2>1a
  <2>2a. PICK c \in S : \E j \in D(c) : y = at(c, j)
    BY <1>2
  <2>2. PICK j \in D(c) : y = at(c, j)
    BY <2>2a
  <2>3a. PICK d \in S : \E k \in D(d) : z = at(d, k)
    BY <1>2
  <2>3. PICK k \in D(d) : z = at(d, k)
    BY <2>3a
  <2>4. b \in Nat /\ c \in Nat /\ d \in Nat /\ i \in Nat /\ j \in Nat /\ k \in Nat
    BY <1>1, <2>1, <2>2, <2>3
  <2>5. /\ before(x, y) <=> b > c \/ (b = c /\ i < j)
        /\ before(y, z) <=> c > d \/ (c = d /\ j < k)
        /\ before(x, z) <=> b > d \/ (b = d /\ i < k)
    BY <1>4, <2>1, <2>2, <2>3
  <2> QED
    BY <2>4, <2>5
<1>9. \A K \in SUBSET R : StrictTotal(K, RequeueOrder(q, S))
  BY <1>5, <1>6, <1>7, <1>8 DEF StrictTotal
<1>10. R \subseteq InFlightPolicies(q)
  BY DEF R, Returned, InFlightPolicies
<1>11. InFlightPolicies(q) \subseteq Policy
  <2>1. \A c \in DOMAIN q.inFlight : q.inFlight[c].policies \in Seq(Policy)
    BY DEF QueueTypeOK, Batch
  <2>2. \A s \in Seq(Policy) : Range(s) \subseteq Policy
    BY LenProperties DEF Range
  <2> QED
    BY <2>1, <2>2 DEF InFlightPolicies, PoliciesOf
<1> QED
  BY <1>9, <1>10, <1>11 DEF R

Lost(q, S, countAttemptFailure) ==
  IF countAttemptFailure
  THEN {p \in Returned(q, S) : q.attempts[p] >= MAX_POLICY_ATTEMPTS} ELSE {}

(* What requeueBatch and requeueAllForPeer change.                         *)
LEMMA RequeueFields ==
  ASSUME NEW q, QueueTypeOK(q), BatchesDisjoint(q), IsInjective(q.pending),
         NEW S \in SUBSET DOMAIN q.inFlight,
         Range(q.pending) \cap Returned(q, S) = {}, NEW count \in BOOLEAN
  PROVE  LET q2   == Requeue(q, S, count)
             lost == Lost(q, S, count)
         IN  /\ DOMAIN q2.inFlight = DOMAIN q.inFlight \ S
             /\ \A c \in DOMAIN q2.inFlight : q2.inFlight[c] = q.inFlight[c]
             /\ Range(q2.pending) = (Returned(q, S) \ lost) \cup Range(q.pending)
             /\ IsInjective(q2.pending)
             /\ \A p \in Policy :
                  q2.attempts[p] = IF p \in lost THEN 0
                                   ELSE IF p \in Returned(q, S) /\ ~count
                                   THEN (IF q.attempts[p] <= 1 THEN 0 ELSE q.attempts[p] - 1)
                                   ELSE q.attempts[p]
             /\ q2.evaluatedCount = q.evaluatedCount
             /\ q2.totalPolicies = q.totalPolicies
             /\ q2.nextBatchSeq = q.nextBatchSeq
             /\ q2.evaluated = q.evaluated
             /\ \A d \in q.deadLetters : d \in q2.deadLetters
             /\ \A d \in q2.deadLetters :
                  \/ d \in q.deadLetters
                  \/ d.policy \in lost /\ d.attempts = q.attempts[d.policy]
             /\ \A d, e \in q2.deadLetters :
                  d.policy \in lost /\ e.policy \in lost
                    => d \in q.deadLetters \/ e \in q.deadLetters \/ (d.policy = e.policy => d = e)
             /\ Dropped(q2) = Dropped(q) \cup lost
             /\ QueueTypeOK(q2)
<1> DEFINE q2   == Requeue(q, S, count)
           lost == Lost(q, S, count)
           back == Listing(Returned(q, S) \ lost, RequeueOrder(q, S))
           D    == DOMAIN q.inFlight \ S
           rest == [c \in D |-> q.inFlight[c]]
           home(p) == CHOOSE b \in S : p \in PoliciesOf(q, b)
           letter(p) == [policy |-> p, attempts |-> q.attempts[p],
                         lastPeer |-> q.inFlight[home(p)].peer]
           letters == {letter(p) : p \in lost}
           att  == [p \in Policy |->
                      IF p \in lost THEN 0
                      ELSE IF p \in Returned(q, S) /\ ~count
                      THEN (IF q.attempts[p] <= 1 THEN 0 ELSE q.attempts[p] - 1)
                      ELSE q.attempts[p]]
<1>1. /\ lost \subseteq Returned(q, S)
      /\ Returned(q, S) \subseteq Policy
      /\ StrictTotal(Returned(q, S) \ lost, RequeueOrder(q, S))
  <2>1. lost \subseteq Returned(q, S)
    BY DEF Lost
  <2>2. Returned(q, S) \ lost \in SUBSET Returned(q, S)
    OBVIOUS
  <2> QED
    BY <2>1, <2>2, RequeueOrderTotal
<1>2. IsFiniteSet(Returned(q, S) \ lost)
  BY <1>1, QueueAssumption, FS_Subset
<1> HIDE DEF lost
<1>3. /\ back \in Seq(Returned(q, S) \ lost)
      /\ IsInjective(back) /\ Range(back) = Returned(q, S) \ lost
  BY <1>1, <1>2, ListingProperties
<1>4. back \in Seq(Policy)
  BY <1>1, <1>3, SeqMonotonic
<1> HIDE DEF back
<1>5. /\ back \o q.pending \in Seq(Policy)
      /\ Range(back \o q.pending) = (Returned(q, S) \ lost) \cup Range(q.pending)
      /\ IsInjective(back \o q.pending)
  <2>1. q.pending \in Seq(Policy)
    BY DEF QueueTypeOK
  <2>2. Range(back) \cap Range(q.pending) = {}
    BY <1>3
  <2> QED
    BY <1>3, <1>4, <2>1, <2>2, JoinSequences
<1>6. \A p \in lost : letter(p) \in [policy : Policy, attempts : Nat, lastPeer : Peer]
  <2> TAKE p \in lost
  <2>1. \E b \in S : p \in PoliciesOf(q, b)
    BY <1>1 DEF Returned
  <2>2. home(p) \in S
    BY <2>1
  <2>3. q.inFlight[home(p)].peer \in Peer
    BY <2>2 DEF QueueTypeOK, Batch
  <2> QED
    BY <2>3, <1>1 DEF QueueTypeOK
<1>7. /\ rest \in [D -> Batch] /\ D \subseteq 1 .. q.nextBatchSeq
      /\ att \in [Policy -> Nat]
      /\ q.deadLetters \cup letters \in SUBSET [policy : Policy, attempts : Nat, lastPeer : Peer]
  <2>1. att \in [Policy -> Nat]
    <3>1. \A p \in Policy : q.attempts[p] \in Nat
      BY DEF QueueTypeOK
    <3> QED
      BY <3>1
  <2>2. letters \in SUBSET [policy : Policy, attempts : Nat, lastPeer : Peer]
    <3> HIDE DEF letter
    <3> QED
      BY <1>6
  <2> QED
    BY <2>1, <2>2 DEF QueueTypeOK
<1>8. q2 = [q EXCEPT !.inFlight = rest, !.pending = back \o q.pending,
                     !.deadLetters = q.deadLetters \cup letters, !.attempts = att]
  BY DEF Requeue, Restrict, Lost, lost, back, QueueTypeOK
<1>9. /\ \A p \in lost : letter(p).policy = p /\ letter(p).attempts = q.attempts[p]
      /\ \A d \in letters : d = letter(d.policy) /\ d.policy \in lost
                            /\ d.attempts = q.attempts[d.policy]
      /\ {d.policy : d \in letters} = lost
  <2>1. \A p \in lost : letter(p).policy = p /\ letter(p).attempts = q.attempts[p]
    OBVIOUS
  <2> HIDE DEF letter
  <2>2. \A d \in letters : /\ d = letter(d.policy)
                          /\ d.policy \in lost
                          /\ d.attempts = q.attempts[d.policy]
    <3> TAKE d \in letters
    <3>1. PICK p \in lost : d = letter(p)
      OBVIOUS
    <3> QED
      BY <2>1, <3>1
  <2>3. \A p \in lost : letter(p) \in letters
    OBVIOUS
  <2> HIDE DEF letters
  <2>4. {d.policy : d \in letters} = lost
    BY <2>1, <2>2, <2>3
  <2> QED
    BY <2>1, <2>2, <2>4
<1> HIDE DEF q2, rest, letters, letter, att, D
<1>10. /\ q2.inFlight = rest /\ q2.evaluatedCount = q.evaluatedCount
       /\ q2.evaluated = q.evaluated /\ q2.attempts = att
       /\ q2.pending = back \o q.pending
       /\ q2.totalPolicies = q.totalPolicies
       /\ q2.deadLetters = q.deadLetters \cup letters
       /\ q2.nextBatchSeq = q.nextBatchSeq
  BY <1>8 DEF QueueTypeOK
<1>11. DOMAIN q2.inFlight = D
  BY <1>7, <1>10
<1>12. QueueTypeOK(q2)
  <2>1. q2 \in [ pending        : Seq(Policy),
                inFlight       : [D -> Batch],
                attempts       : [Policy -> Nat],
                evaluatedCount : Nat,
                totalPolicies  : Nat,
                deadLetters    : SUBSET [policy : Policy, attempts : Nat, lastPeer : Peer],
                nextBatchSeq   : Nat,
                evaluated      : SUBSET Policy ]
    BY <1>5, <1>7, <1>8 DEF QueueTypeOK
  <2> QED
    BY <2>1, <1>7, <1>10, <1>11 DEF QueueTypeOK
<1>13. Dropped(q2) = Dropped(q) \cup lost
  BY <1>9, <1>10 DEF Dropped
<1>14. /\ \A d \in q.deadLetters : d \in q2.deadLetters
       /\ \A d \in q2.deadLetters :
            \/ d \in q.deadLetters
            \/ d.policy \in lost /\ d.attempts = q.attempts[d.policy]
       /\ \A d, e \in q2.deadLetters :
            d.policy \in lost /\ e.policy \in lost
              => d \in q.deadLetters \/ e \in q.deadLetters \/ (d.policy = e.policy => d = e)
  BY <1>9, <1>10
<1>15. \A c \in DOMAIN q2.inFlight : q2.inFlight[c] = q.inFlight[c]
  BY <1>10, <1>11 DEF rest
<1>16. \A p \in Policy :
         q2.attempts[p] = IF p \in lost THEN 0
                          ELSE IF p \in Returned(q, S) /\ ~count
                          THEN (IF q.attempts[p] <= 1 THEN 0 ELSE q.attempts[p] - 1)
                          ELSE q.attempts[p]
  BY <1>10 DEF att
<1>17. DOMAIN q2.inFlight = DOMAIN q.inFlight \ S
  BY <1>11 DEF D
<1> QED
  BY <1>5, <1>10, <1>12, <1>13, <1>14, <1>15, <1>16, <1>17 DEF q2, lost

(* Batches given back, or swept with their peer: each policy waits again,  *)
(* or is given up if its failures are used up.                             *)
LEMMA RequeueKeepsInv ==
  ASSUME NEW q, NEW policies, NEW prior \in Nat, QueueInv(q, policies, prior),
         NEW S \in SUBSET DOMAIN q.inFlight, NEW count \in BOOLEAN
  PROVE  QueueInv(Requeue(q, S, count), policies, prior)
<1> DEFINE q2   == Requeue(q, S, count)
           lost == Lost(q, S, count)
           R    == Returned(q, S)
<1>1. /\ QueueTypeOK(q) /\ BatchesDisjoint(q) /\ OnePlaceEach(q, policies)
      /\ AttemptsBounded(q) /\ TalliesMatch(q, prior)
  BY DEF QueueInv
<1>2. R \subseteq InFlightPolicies(q) /\ InFlightPolicies(q) \subseteq Policy
  BY <1>1, RequeueOrderTotal
<1>3. /\ IsInjective(q.pending) /\ Range(q.pending) \cap R = {}
      /\ Range(q.pending) \subseteq Policy
  <2>1. q.pending \in Seq(Policy)
    BY <1>1 DEF QueueTypeOK
  <2> QED
    BY <2>1, <1>1, <1>2, LenProperties DEF OnePlaceEach, Range
<1>4. /\ DOMAIN q2.inFlight = DOMAIN q.inFlight \ S
      /\ \A c \in DOMAIN q2.inFlight : q2.inFlight[c] = q.inFlight[c]
      /\ Range(q2.pending) = (R \ lost) \cup Range(q.pending)
      /\ IsInjective(q2.pending)
      /\ \A p \in Policy :
           q2.attempts[p] = IF p \in lost THEN 0
                            ELSE IF p \in R /\ ~count
                            THEN (IF q.attempts[p] <= 1 THEN 0 ELSE q.attempts[p] - 1)
                            ELSE q.attempts[p]
      /\ q2.evaluatedCount = q.evaluatedCount
      /\ q2.evaluated = q.evaluated
      /\ \A d \in q.deadLetters : d \in q2.deadLetters
      /\ \A d \in q2.deadLetters :
           \/ d \in q.deadLetters
           \/ d.policy \in lost /\ d.attempts = q.attempts[d.policy]
      /\ \A d, e \in q2.deadLetters :
           d.policy \in lost /\ e.policy \in lost
             => d \in q.deadLetters \/ e \in q.deadLetters \/ (d.policy = e.policy => d = e)
      /\ Dropped(q2) = Dropped(q) \cup lost
      /\ QueueTypeOK(q2)
  BY <1>1, <1>3, RequeueFields
<1>5. /\ lost \subseteq R
      /\ \A p \in lost : q.attempts[p] >= MAX_POLICY_ATTEMPTS
      /\ \A p \in R \ lost : count => ~(q.attempts[p] >= MAX_POLICY_ATTEMPTS)
  BY DEF Lost
<1>6. R = UNION {PoliciesOf(q, b) : b \in S}
  BY DEF Returned
<1> HIDE DEF q2, lost, R
<1>7. \A c \in DOMAIN q2.inFlight : PoliciesOf(q2, c) = PoliciesOf(q, c)
  BY <1>4 DEF PoliciesOf
<1>8. InFlightPolicies(q) = InFlightPolicies(q2) \cup R
  BY <1>4, <1>6, <1>7 DEF InFlightPolicies
<1>9. InFlightPolicies(q2) \cap R = {}
  <2>1. \A c \in DOMAIN q2.inFlight, b \in S : PoliciesOf(q2, c) \cap PoliciesOf(q, b) = {}
    BY <1>1, <1>4, <1>7 DEF BatchesDisjoint
  <2> QED
    BY <2>1, <1>6 DEF InFlightPolicies
<1>10. BatchesDisjoint(q2)
  BY <1>1, <1>4, <1>7 DEF BatchesDisjoint
<1>11. OnePlaceEach(q2, policies)
  <2>1. /\ Range(q.pending) \cap InFlightPolicies(q) = {}
        /\ Range(q.pending) \cap (q.evaluated \cup Dropped(q)) = {}
        /\ InFlightPolicies(q) \cap (q.evaluated \cup Dropped(q)) = {}
        /\ q.evaluated \cap Dropped(q) = {}
        /\ policies = Range(q.pending) \cup InFlightPolicies(q)
                        \cup q.evaluated \cup Dropped(q)
    BY <1>1 DEF OnePlaceEach
  <2>2. policies = Range(q2.pending) \cup InFlightPolicies(q2)
                     \cup q2.evaluated \cup Dropped(q2)
    BY <2>1, <1>4, <1>5, <1>8
  <2>3. Range(q2.pending) \cap InFlightPolicies(q2) = {}
    BY <2>1, <1>4, <1>8, <1>9
  <2>4. Range(q2.pending) \cap (q2.evaluated \cup Dropped(q2)) = {}
    BY <2>1, <1>4, <1>5, <1>8
  <2>5. /\ InFlightPolicies(q2) \cap (q2.evaluated \cup Dropped(q2)) = {}
        /\ q2.evaluated \cap Dropped(q2) = {}
    BY <2>1, <1>4, <1>5, <1>8, <1>9
  <2> QED
    BY <2>2, <2>3, <2>4, <2>5, <1>4 DEF OnePlaceEach
<1>12. AttemptsBounded(q2)
  <2>1. \A p \in Policy : q.attempts[p] \in Nat
    BY <1>1 DEF QueueTypeOK
  <2>2. ASSUME NEW p \in Range(q2.pending) PROVE q2.attempts[p] < MAX_POLICY_ATTEMPTS
    <3>1. CASE p \in Range(q.pending)
      <4>1. q2.attempts[p] = q.attempts[p]
        BY <3>1, <1>3, <1>4, <1>5
      <4> QED
        BY <4>1, <3>1, <1>1 DEF AttemptsBounded
    <3>2. CASE p \in R \ lost
      <4>1. q.attempts[p] \in 1 .. MAX_POLICY_ATTEMPTS /\ p \in Policy
        BY <3>2, <1>1, <1>2 DEF AttemptsBounded
      <4>2. CASE count
        <5>1. q2.attempts[p] = q.attempts[p] /\ ~(q.attempts[p] >= MAX_POLICY_ATTEMPTS)
          BY <3>2, <4>1, <4>2, <1>4, <1>5
        <5> QED
          BY <5>1, <4>1, QueueAssumption
      <4>3. CASE ~count
        <5>1. q2.attempts[p] = IF q.attempts[p] <= 1 THEN 0 ELSE q.attempts[p] - 1
          BY <3>2, <4>1, <4>3, <1>4
        <5> QED
          BY <5>1, <4>1, QueueAssumption
      <4> QED
        BY <4>2, <4>3
    <3> QED
      BY <3>1, <3>2, <1>4
  <2>3. ASSUME NEW p \in InFlightPolicies(q2)
        PROVE  q2.attempts[p] \in 1 .. MAX_POLICY_ATTEMPTS
    <3>1. p \notin R /\ p \in InFlightPolicies(q) /\ p \in Policy
      BY <1>2, <1>8, <1>9
    <3>2. q2.attempts[p] = q.attempts[p]
      BY <3>1, <1>4, <1>5
    <3> QED
      BY <3>1, <3>2, <1>1 DEF AttemptsBounded
  <2>4. ASSUME NEW d \in q2.deadLetters PROVE d.attempts = MAX_POLICY_ATTEMPTS
    <3>1. CASE d \in q.deadLetters
      BY <3>1, <1>1 DEF AttemptsBounded
    <3>2. CASE d.policy \in lost /\ d.attempts = q.attempts[d.policy]
      <4>1. q.attempts[d.policy] \in 1 .. MAX_POLICY_ATTEMPTS
        BY <3>2, <1>1, <1>2, <1>5 DEF AttemptsBounded
      <4>2. q.attempts[d.policy] >= MAX_POLICY_ATTEMPTS
        BY <3>2, <1>5
      <4> QED
        BY <3>2, <4>1, <4>2, QueueAssumption
    <3> QED
      BY <3>1, <3>2, <1>4
  <2> QED
    BY <2>2, <2>3, <2>4 DEF AttemptsBounded
<1>13. TalliesMatch(q2, prior)
  <2>1. ASSUME NEW d \in q2.deadLetters, NEW e \in q2.deadLetters, d.policy = e.policy
        PROVE  d = e
    <3>1. lost \cap Dropped(q) = {}
      BY <1>1, <1>2, <1>5 DEF OnePlaceEach
    <3>2. \A f \in q.deadLetters : f.policy \in Dropped(q)
      BY DEF Dropped
    <3>3. CASE d.policy \in lost
      BY <3>1, <3>2, <3>3, <2>1, <1>4
    <3>4. CASE d.policy \notin lost
      <4>1. d \in q.deadLetters /\ e \in q.deadLetters
        BY <3>4, <2>1, <1>4
      <4> QED
        BY <4>1, <2>1, <1>1 DEF TalliesMatch
    <3> QED
      BY <3>3, <3>4
  <2> QED
    BY <2>1, <1>1, <1>4 DEF TalliesMatch
<1> QED
  BY <1>4, <1>10, <1>11, <1>12, <1>13 DEF QueueInv, q2

(* Under QueueInv the numbers add up: the queue is a partition of its      *)
(* policies, and the counters count its parts.                             *)
LEMMA QueueInvCounts ==
  ASSUME NEW q, NEW policies, NEW prior \in Nat, QueueInv(q, policies, prior)
  PROVE  /\ IsFiniteSet(policies)
         /\ Len(q.pending) + Cardinality(InFlightPolicies(q))
              + q.evaluatedCount + Cardinality(q.deadLetters)
              = Cardinality(policies) + prior
<1> DEFINE W == Range(q.pending)
           F == InFlightPolicies(q)
           E == q.evaluated
           X == Dropped(q)
<1>1. /\ QueueTypeOK(q) /\ BatchesDisjoint(q) /\ OnePlaceEach(q, policies)
      /\ TalliesMatch(q, prior)
  BY DEF QueueInv
<1>2. q.pending \in Seq(Policy) /\ E \subseteq Policy /\ X \subseteq Policy
  BY <1>1 DEF QueueTypeOK, Dropped
<1>3. F \subseteq Policy /\ W \subseteq Policy
  <2>1. F \subseteq Policy
    BY <1>1, RequeueOrderTotal
  <2>2. W \subseteq Policy
    BY <1>2, LenProperties DEF Range
  <2> QED
    BY <2>1, <2>2
<1>4. /\ IsFiniteSet(W) /\ IsFiniteSet(F) /\ IsFiniteSet(E) /\ IsFiniteSet(X)
      /\ Cardinality(W) \in Nat /\ Cardinality(F) \in Nat
      /\ Cardinality(E) \in Nat /\ Cardinality(X) \in Nat
  <2>1. IsFiniteSet(W) /\ IsFiniteSet(F) /\ IsFiniteSet(E) /\ IsFiniteSet(X)
    BY <1>2, <1>3, QueueAssumption, FS_Subset
  <2> QED
    BY <2>1, FS_CardinalityType
<1>5. Cardinality(W) = Len(q.pending)
  BY <1>1, <1>2, InjectiveLength DEF OnePlaceEach
<1>6. Cardinality(q.deadLetters) = Cardinality(X)
  <2> DEFINE f == [d \in q.deadLetters |-> d.policy]
  <2>1. f \in Injection(q.deadLetters, X)
    <3>1. f \in [q.deadLetters -> X]
      BY DEF Dropped
    <3>2. IsInjective(f)
      BY <1>1 DEF TalliesMatch, IsInjective
    <3> QED
      BY <3>1, <3>2 DEF Injection
  <2>2. f \in Surjection(q.deadLetters, X)
    <3>1. f \in [q.deadLetters -> X]
      BY <2>1 DEF Injection
    <3>2. \A x \in X : \E d \in q.deadLetters : f[d] = x
      BY DEF Dropped
    <3> QED
      BY <3>1, <3>2 DEF Surjection
  <2> HIDE DEF f
  <2> QED
    BY <2>1, <2>2, <1>4, FS_Injection
<1>7. /\ W \cap F = {} /\ (W \cup F) \cap E = {} /\ ((W \cup F) \cup E) \cap X = {}
      /\ policies = ((W \cup F) \cup E) \cup X
  BY <1>1 DEF OnePlaceEach
<1> HIDE DEF W, F, E, X
<1>8. /\ IsFiniteSet(W \cup F)
      /\ Cardinality(W \cup F) = Cardinality(W) + Cardinality(F)
  <2>1. /\ IsFiniteSet(W \cup F)
        /\ Cardinality(W \cup F) = Cardinality(W) + Cardinality(F) - Cardinality(W \cap F)
    BY <1>4, FS_Union
  <2>2. Cardinality(W \cap F) = 0
    BY <1>7, FS_EmptySet
  <2> QED
    BY <2>1, <2>2, <1>4
<1>9. /\ IsFiniteSet((W \cup F) \cup E)
      /\ Cardinality((W \cup F) \cup E) = Cardinality(W) + Cardinality(F) + Cardinality(E)
  <2> DEFINE WF == W \cup F
  <2>0. IsFiniteSet(WF) /\ Cardinality(WF) = Cardinality(W) + Cardinality(F) /\ WF \cap E = {}
    BY <1>7, <1>8
  <2> HIDE DEF WF
  <2>1. /\ IsFiniteSet(WF \cup E)
        /\ Cardinality(WF \cup E) = Cardinality(WF) + Cardinality(E) - Cardinality(WF \cap E)
    BY <2>0, <1>4, FS_Union
  <2>2. Cardinality(WF \cap E) = 0
    BY <2>0, FS_EmptySet
  <2>3. /\ IsFiniteSet(WF \cup E)
        /\ Cardinality(WF \cup E) = Cardinality(W) + Cardinality(F) + Cardinality(E)
    BY <2>0, <2>1, <2>2, <1>4
  <2> QED
    BY <2>3 DEF WF
<1>10. /\ IsFiniteSet(policies)
       /\ Cardinality(policies)
            = Cardinality(W) + Cardinality(F) + Cardinality(E) + Cardinality(X)
  <2> DEFINE WFE == (W \cup F) \cup E
  <2>0. /\ IsFiniteSet(WFE) /\ WFE \cap X = {} /\ policies = WFE \cup X
        /\ Cardinality(WFE) = Cardinality(W) + Cardinality(F) + Cardinality(E)
    BY <1>7, <1>9
  <2> HIDE DEF WFE
  <2>1. /\ IsFiniteSet(WFE \cup X)
        /\ Cardinality(WFE \cup X) = Cardinality(WFE) + Cardinality(X) - Cardinality(WFE \cap X)
    BY <2>0, <1>4, FS_Union
  <2>2. Cardinality(WFE \cap X) = 0
    BY <2>0, FS_EmptySet
  <2> QED
    BY <2>0, <2>1, <2>2, <1>4
<1>11. q.evaluatedCount = prior + Cardinality(E)
  BY <1>1 DEF TalliesMatch, E
<1> QED
  BY <1>4, <1>5, <1>6, <1>10, <1>11 DEF F
=============================================================================
