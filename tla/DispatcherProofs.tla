-------------------------- MODULE DispatcherProofs --------------------------
(***************************************************************************)
(* The safety properties of module Dispatcher, for every enumeration, set  *)
(* of peers, depth, batch size, survivor set, number of sessions and       *)
(* faults, and for every handout a pump may choose.                        *)
(*                                                                         *)
(* Every message handler ends in a pump, so the argument is about what a   *)
(* pump is given: a session, host records, messages and a corpus that fit  *)
(* together (Ready).  A handler makes them fit before it pumps, and the    *)
(* pump keeps it so, through a change of stage, a handout or the end of    *)
(* the session.  Between handlers the same holds of the variables (DInv).  *)
(*                                                                         *)
(* A coarse answer that arrives late, in the fine stage, is the case the   *)
(* code gets wrong, so the theorems are about configurations without a     *)
(* coarse stage or without late answers.                                   *)
(*                                                                         *)
(* The last sections are about module PumpLoop: the loops of pumpDispatch  *)
(* make one of those handouts, so they are a pump of module Dispatcher,    *)
(* and a second pump makes an empty one.                                   *)
(***************************************************************************)
EXTENDS Dispatcher, PumpLoop, WorkQueueLemmas, CommonLemmas

(* What a pump's handout does to the queue and to the host records, for    *)
(* every set of cuts through the pending list: it keeps the invariant of   *)
(* the queue, and the new batches have new ids.                            *)

(* A handout of queue q to hosts: any cuts, any host for each. *)
Cuts(q, hosts, to) ==
  /\ DOMAIN to \subseteq 1 .. Len(q.pending)
  /\ to \in [DOMAIN to -> hosts]

(* Max of numbers up to n, counting 0. *)
LEMMA MaxUpTo ==
  ASSUME NEW n \in Nat, NEW D \in SUBSET (1 .. n)
  PROVE  /\ Max({0} \cup D) \in {0} \cup D
         /\ Max({0} \cup D) \in 0 .. n
         /\ \A d \in D : d <= Max({0} \cup D)
<1>1. {0} \cup D \in SUBSET Nat /\ {0} \cup D # {}
  OBVIOUS
<1>2. IsFiniteSet({0} \cup D)
  <2>1. \A s \in {0} \cup D : s <= n
    OBVIOUS
  <2> QED
    BY <1>1, <2>1, FS_BoundedSetOfNaturals
<1>3. \E m \in {0} \cup D : \A x \in {0} \cup D : m >= x
  BY <1>1, <1>2, ExtremesExist
<1>4. /\ Max({0} \cup D) \in {0} \cup D
      /\ \A x \in {0} \cup D : Max({0} \cup D) >= x
  BY <1>3 DEF Max
<1>5. \A m \in {0} \cup D : m \in 0 .. n
  OBVIOUS
<1>6. \A d \in D : \A m \in {0} \cup D : m >= d => d <= m
  OBVIOUS
<1> QED
  BY <1>4, <1>5, <1>6

(* The cuts part the handed out positions: every position up to the last   *)
(* cut is in the batch of exactly one cut.                                 *)
LEMMA CutsPart ==
  ASSUME NEW q, NEW hosts, NEW to, Cuts(q, hosts, to), Len(q.pending) \in Nat
  PROVE  LET given == Max({0} \cup DOMAIN to)
         IN  /\ given \in 0 .. Len(q.pending)
             /\ \A e \in DOMAIN to :
                  /\ CutBefore(to, e) \in 0 .. e - 1 /\ e <= given
                  /\ e \in 1 .. Len(q.pending)
             /\ \A d, e \in DOMAIN to : d < e => d <= CutBefore(to, e)
             /\ \A i \in 1 .. given : \E e \in DOMAIN to : CutBefore(to, e) < i /\ i <= e
<1> DEFINE n == Len(q.pending)
           E == DOMAIN to
           given == Max({0} \cup E)
<1>1. E \in SUBSET (1 .. n) /\ n \in Nat
  BY DEF Cuts
<1> HIDE DEF n
<1>2. given \in {0} \cup E /\ given \in 0 .. n /\ \A e \in E : e <= given
  BY <1>1, MaxUpTo
<1>3. ASSUME NEW e \in E
      PROVE  /\ CutBefore(to, e) \in {0} \cup {d \in E : d < e}
             /\ \A d \in E : d < e => d <= CutBefore(to, e)
  <2>1. {d \in E : d < e} \in SUBSET (1 .. n)
    BY <1>1
  <2> QED
    BY <1>1, <2>1, MaxUpTo DEF CutBefore
<1>4. ASSUME NEW e \in E PROVE CutBefore(to, e) \in 0 .. e - 1
  BY <1>1, <1>3
<1>5. ASSUME NEW i \in 1 .. given
      PROVE  \E e \in E : CutBefore(to, e) < i /\ i <= e
  <2> DEFINE above == {d \in E : i <= d}
  <2>1. above \in SUBSET Nat /\ \A s \in above : s <= n
    BY <1>1
  <2>2. given \in above
    BY <1>1, <1>2
  <2>3. IsFiniteSet(above)
    BY <1>1, <2>1, FS_BoundedSetOfNaturals
  <2>4. PICK e \in above : \A x \in above : e <= x
    BY <2>1, <2>2, <2>3, ExtremesExist
  <2>5. CutBefore(to, e) \in {0} \cup {d \in E : d < e}
    BY <1>3
  <2>6. CutBefore(to, e) < i
    BY <2>1, <2>4, <2>5, <1>1
  <2> QED
    BY <2>4, <2>6
<1> QED
  BY <1>1, <1>2, <1>3, <1>4, <1>5 DEF n

(* The batches of a handout, and their ids.                                *)
LEMMA NewIds ==
  ASSUME NEW q, NEW hosts, NEW to, Cuts(q, hosts, to), Len(q.pending) \in Nat,
         q.nextBatchSeq \in Nat
  PROVE  /\ Cardinality(DOMAIN to) \in Nat
         /\ \A e \in DOMAIN to :
              BatchSeq(q, to, e) \in q.nextBatchSeq + 1 .. q.nextBatchSeq + Cardinality(DOMAIN to)
         /\ \A d, e \in DOMAIN to : BatchSeq(q, to, d) = BatchSeq(q, to, e) => d = e
         /\ \A e \in DOMAIN to : BatchEnd(q, to, BatchSeq(q, to, e)) = e
<1> DEFINE E == DOMAIN to
           upto(e) == {d \in E : d <= e}
           n == Len(q.pending)
<1>1. E \in SUBSET (1 .. n) /\ n \in Nat
  BY DEF Cuts
<1> HIDE DEF n
<1>2. IsFiniteSet(E) /\ Cardinality(E) \in Nat
  <2>1. IsFiniteSet(1 .. n)
    BY <1>1, FS_Interval
  <2>2. IsFiniteSet(E)
    BY <1>1, <2>1, FS_Subset
  <2> QED
    BY <2>2, FS_CardinalityType
<1>3. ASSUME NEW e \in E
      PROVE  IsFiniteSet(upto(e)) /\ Cardinality(upto(e)) \in 1 .. Cardinality(E)
  <2>1. upto(e) \in SUBSET E
    OBVIOUS
  <2>2. /\ IsFiniteSet(upto(e)) /\ Cardinality(upto(e)) <= Cardinality(E)
        /\ Cardinality(upto(e)) \in Nat
    BY <1>2, <2>1, FS_Subset, FS_CardinalityType
  <2>3. e \in upto(e)
    BY <1>1
  <2>4. Cardinality(upto(e)) # 0
    BY <2>2, <2>3, FS_EmptySet
  <2> QED
    BY <1>2, <2>2, <2>4
<1>4. ASSUME NEW d \in E, NEW e \in E, d < e
      PROVE  Cardinality(upto(d)) # Cardinality(upto(e))
  <2>1. upto(d) \in SUBSET upto(e)
    BY <1>1, <1>4
  <2>2. e \in upto(e) /\ e \notin upto(d)
    BY <1>1, <1>4
  <2>3. IsFiniteSet(upto(e))
    BY <1>3
  <2>4. Cardinality(upto(e)) = Cardinality(upto(d)) => upto(e) = upto(d)
    BY <2>1, <2>3, FS_Subset
  <2> QED
    BY <2>2, <2>4
<1>5. ASSUME NEW e \in E
      PROVE  BatchSeq(q, to, e) \in q.nextBatchSeq + 1 .. q.nextBatchSeq + Cardinality(E)
  <2>1. BatchSeq(q, to, e) = q.nextBatchSeq + Cardinality(upto(e))
    BY DEF BatchSeq
  <2> HIDE DEF upto
  <2> QED
    BY <1>2, <1>3, <2>1
<1>6. ASSUME NEW d \in E, NEW e \in E, BatchSeq(q, to, d) = BatchSeq(q, to, e)
      PROVE  d = e
  <2>1. /\ BatchSeq(q, to, d) = q.nextBatchSeq + Cardinality(upto(d))
        /\ BatchSeq(q, to, e) = q.nextBatchSeq + Cardinality(upto(e))
    BY DEF BatchSeq
  <2> HIDE DEF upto
  <2>2. Cardinality(upto(d)) \in Nat /\ Cardinality(upto(e)) \in Nat
    BY <1>2, <1>3
  <2>3. Cardinality(upto(d)) = Cardinality(upto(e))
    <3>1. PICK x \in Nat, y \in Nat : x = Cardinality(upto(d)) /\ y = Cardinality(upto(e))
      BY <2>2
    <3>2. q.nextBatchSeq + x = q.nextBatchSeq + y
      BY <1>6, <2>1, <3>1
    <3> QED
      BY <3>1, <3>2
  <2>4. ~(d < e) /\ ~(e < d)
    BY <1>4, <2>3
  <2> QED
    BY <2>4, <1>1
<1>7. ASSUME NEW e \in E PROVE BatchEnd(q, to, BatchSeq(q, to, e)) = e
  <2>1. \E d \in E : BatchSeq(q, to, d) = BatchSeq(q, to, e)
    OBVIOUS
  <2>2. \A d \in E : BatchSeq(q, to, d) = BatchSeq(q, to, e) => d = e
    BY <1>6
  <2> QED
    BY <2>1, <2>2 DEF BatchEnd
<1> QED
  BY <1>2, <1>5, <1>6, <1>7

(* A stretch of a list that repeats nothing. *)
LEMMA Stretch ==
  ASSUME NEW S, NEW s \in Seq(S), IsInjective(s), NEW j \in Nat, NEW k \in Nat,
         j <= k, k <= Len(s)
  PROVE  LET u == SubSeq(s, j + 1, k)
         IN  /\ u \in Seq(S) /\ IsInjective(u)
             /\ Range(u) = {s[i] : i \in j + 1 .. k}
<1> DEFINE u == SubSeq(s, j + 1, k)
<1>1. /\ Len(s) \in Nat /\ DOMAIN s = 1 .. Len(s)
      /\ \A i \in j + 1 .. k : s[i] \in S /\ i \in DOMAIN s
  BY LenProperties
<1>2. /\ u \in Seq(S)
      /\ Len(u) = IF j + 1 <= k THEN k - (j + 1) + 1 ELSE 0
      /\ \A i \in 1 .. k - (j + 1) + 1 : u[i] = s[j + 1 + i - 1]
  BY <1>1, SubSeqProperties
<1> HIDE DEF u
<1>3. Len(u) = k - j
  BY <1>2
<1>4. DOMAIN u = 1 .. k - j
  BY <1>2, <1>3, LenProperties
<1>5. ASSUME NEW i \in 1 .. k - j
      PROVE  j + i \in j + 1 .. k /\ u[i] = s[j + i]
  <2>1. i \in 1 .. k - (j + 1) + 1 /\ j + 1 + i - 1 = j + i /\ j + i \in j + 1 .. k
    OBVIOUS
  <2>2. u[i] = s[j + 1 + i - 1]
    BY <1>2, <2>1
  <2> QED
    BY <2>1, <2>2
<1>6. IsInjective(u)
  <2>1. ASSUME NEW a \in 1 .. k - j, NEW b \in 1 .. k - j, u[a] = u[b]
        PROVE  a = b
    <3>1. s[j + a] = s[j + b] /\ j + a \in DOMAIN s /\ j + b \in DOMAIN s
      BY <1>1, <1>5, <2>1
    <3>2. j + a = j + b
      BY <3>1 DEF IsInjective
    <3> QED
      BY <3>2
  <2> QED
    BY <1>4, <2>1 DEF IsInjective
<1>7. Range(u) = {s[i] : i \in j + 1 .. k}
  <2>1. ASSUME NEW x \in Range(u) PROVE x \in {s[i] : i \in j + 1 .. k}
    <3>1. PICK i \in 1 .. k - j : x = u[i]
      BY <1>4 DEF Range
    <3> QED
      BY <3>1, <1>5
  <2>2. ASSUME NEW i \in j + 1 .. k PROVE s[i] \in Range(u)
    <3>1. i - j \in 1 .. k - j /\ j + (i - j) = i
      OBVIOUS
    <3>2. u[i - j] = s[i]
      BY <1>5, <3>1
    <3> QED
      BY <3>1, <3>2, <1>4 DEF Range
  <2> QED
    BY <2>1, <2>2
<1> QED
  BY <1>2, <1>6, <1>7 DEF u

(* The policies of the batches of a handout part the ones handed out.      *)
LEMMA PiecesPart ==
  ASSUME NEW q, QueueTypeOK(q), IsInjective(q.pending), NEW hosts, NEW to,
         Cuts(q, hosts, to)
  PROVE  LET given == Max({0} \cup DOMAIN to)
             out   == Range(SubSeq(q.pending, 1, given))
         IN  /\ \A e \in DOMAIN to :
                  /\ PoliciesUpTo(q, to, e) \in Seq(Policy)
                  /\ IsInjective(PoliciesUpTo(q, to, e))
                  /\ Range(PoliciesUpTo(q, to, e)) \subseteq out
             /\ \A d, e \in DOMAIN to : d # e =>
                  Range(PoliciesUpTo(q, to, d)) \cap Range(PoliciesUpTo(q, to, e)) = {}
             /\ \A p \in out : \E e \in DOMAIN to : p \in Range(PoliciesUpTo(q, to, e))
             /\ out = {q.pending[i] : i \in 1 .. given}
<1> DEFINE n == Len(q.pending)
           E == DOMAIN to
           given == Max({0} \cup E)
           out == Range(SubSeq(q.pending, 1, given))
<1>1. /\ q.pending \in Seq(Policy) /\ IsInjective(q.pending)
      /\ n \in Nat /\ DOMAIN q.pending = 1 .. n
  BY LenProperties DEF QueueTypeOK
<1>1a. ASSUME NEW j \in Nat, NEW k \in Nat, j <= k, k <= n
       PROVE  /\ SubSeq(q.pending, j + 1, k) \in Seq(Policy)
              /\ IsInjective(SubSeq(q.pending, j + 1, k))
              /\ Range(SubSeq(q.pending, j + 1, k)) = {q.pending[i] : i \in j + 1 .. k}
  <2> DEFINE s == q.pending
  <2>1. s \in Seq(Policy) /\ IsInjective(s) /\ k <= Len(s)
    BY <1>1, <1>1a
  <2> HIDE DEF s
  <2>2. /\ SubSeq(s, j + 1, k) \in Seq(Policy) /\ IsInjective(SubSeq(s, j + 1, k))
        /\ Range(SubSeq(s, j + 1, k)) = {s[i] : i \in j + 1 .. k}
    BY <1>1a, <2>1, Stretch
  <2> QED
    BY <2>2 DEF s
<1>2. /\ given \in 0 .. n
      /\ \A e \in E : CutBefore(to, e) \in 0 .. e - 1 /\ e <= given /\ e \in 1 .. n
      /\ \A d, e \in E : d < e => d <= CutBefore(to, e)
      /\ \A i \in 1 .. given : \E e \in E : CutBefore(to, e) < i /\ i <= e
  BY <1>1, CutsPart
<1>2a. E \subseteq Nat
  BY <1>1, <1>2
<1>2b. ASSUME NEW e \in E
       PROVE  /\ CutBefore(to, e) \in Nat /\ e \in Nat /\ given \in Nat
              /\ CutBefore(to, e) <= e /\ e <= n /\ e <= given
  <2> DEFINE c == CutBefore(to, e)
  <2>1. c \in 0 .. e - 1 /\ e <= given /\ e \in 1 .. n /\ given \in 0 .. n /\ n \in Nat
    BY <1>1, <1>2
  <2> HIDE DEF c, n, given, E
  <2>2. c \in Nat /\ e \in Nat /\ given \in Nat /\ c <= e /\ e <= n /\ e <= given
    BY ONLY <2>1
  <2> QED
    BY <2>2 DEF c
<1> HIDE DEF given, n
<1>3. ASSUME NEW e \in E
      PROVE  /\ PoliciesUpTo(q, to, e) \in Seq(Policy)
             /\ IsInjective(PoliciesUpTo(q, to, e))
             /\ Range(PoliciesUpTo(q, to, e))
                  = {q.pending[i] : i \in CutBefore(to, e) + 1 .. e}
  <2>1. /\ CutBefore(to, e) \in Nat /\ e \in Nat
        /\ CutBefore(to, e) <= e /\ e <= n
    BY <1>2b
  <2> QED
    BY <1>1a, <2>1 DEF PoliciesUpTo
<1>4. out = {q.pending[i] : i \in 1 .. given}
  <2>1. given \in Nat /\ 0 \in Nat /\ 0 <= given /\ given <= n /\ 0 + 1 = 1
    BY <1>1, <1>2
  <2>2. Range(SubSeq(q.pending, 0 + 1, given)) = {q.pending[i] : i \in 0 + 1 .. given}
    BY <1>1a, <2>1
  <2> QED
    BY <2>1, <2>2
<1>5. ASSUME NEW e \in E PROVE CutBefore(to, e) + 1 .. e \subseteq 1 .. given
  <2> DEFINE c == CutBefore(to, e)
  <2>1. c \in Nat /\ e \in Nat /\ given \in Nat /\ e <= given
    BY <1>2b
  <2> HIDE DEF c, E
  <2>2. c + 1 .. e \subseteq 1 .. given
    BY ONLY <2>1
  <2> QED
    BY <2>2 DEF c
<1>6. ASSUME NEW e \in E PROVE Range(PoliciesUpTo(q, to, e)) \subseteq out
  BY <1>3, <1>4, <1>5
<1>7. ASSUME NEW d \in E, NEW e \in E, d # e
      PROVE  Range(PoliciesUpTo(q, to, d)) \cap Range(PoliciesUpTo(q, to, e)) = {}
  <2>1. ASSUME NEW i \in CutBefore(to, d) + 1 .. d, NEW j \in CutBefore(to, e) + 1 .. e
        PROVE  i # j
    <3>1. d < e \/ e < d
      <4>1. d \in Nat /\ e \in Nat
        BY <1>2a
      <4> QED
        BY <4>1, <1>7
    <3> QED
      BY <3>1, <1>2
  <2>2. ASSUME NEW i \in CutBefore(to, d) + 1 .. d, NEW j \in CutBefore(to, e) + 1 .. e
        PROVE  q.pending[i] # q.pending[j]
    <3>1. i # j /\ i \in 1 .. given /\ j \in 1 .. given
      BY <2>1, <1>5
    <3>2. i \in DOMAIN q.pending /\ j \in DOMAIN q.pending
      BY <3>1, <1>1, <1>2
    <3> QED
      BY <3>1, <3>2 DEF IsInjective
  <2> QED
    BY <2>2, <1>3
<1>8. ASSUME NEW p \in out PROVE \E e \in E : p \in Range(PoliciesUpTo(q, to, e))
  <2>1. PICK i \in 1 .. given : p = q.pending[i]
    BY <1>4
  <2>2. PICK e \in E : CutBefore(to, e) < i /\ i <= e
    BY <1>2
  <2>3. i \in CutBefore(to, e) + 1 .. e
    BY <2>2, <1>1, <1>2
  <2> QED
    BY <2>1, <2>3, <1>3
<1> QED
  BY <1>3, <1>4, <1>6, <1>7, <1>8 DEF given

(* What the batches of a handout change: queue q becomes q2.               *)
HandedOut(q, q2, to) ==
  LET new == NewBatches(q, to)
      out == Range(SubSeq(q.pending, 1, Max({0} \cup DOMAIN to)))
  IN  /\ new \cap DOMAIN q.inFlight = {}
      /\ new \subseteq q.nextBatchSeq + 1 .. q2.nextBatchSeq
      /\ DOMAIN q2.inFlight = DOMAIN q.inFlight \cup new
      /\ \A b \in DOMAIN q.inFlight : q2.inFlight[b] = q.inFlight[b]
      /\ \A e \in DOMAIN to :
           q2.inFlight[BatchSeq(q, to, e)]
             = [peer |-> to[e], policies |-> PoliciesUpTo(q, to, e)]
      /\ out \cap Range(q2.pending) = {}
      /\ Range(q.pending) = out \cup Range(q2.pending)
      /\ IsInjective(q2.pending)
      /\ \A p \in Policy : q2.attempts[p] = q.attempts[p] + IF p \in out THEN 1 ELSE 0
      /\ q2.evaluatedCount = q.evaluatedCount
      /\ q2.deadLetters = q.deadLetters
      /\ q2.evaluated = q.evaluated
      /\ q2.nextBatchSeq \in Nat /\ q.nextBatchSeq <= q2.nextBatchSeq
      /\ QueueTypeOK(q2)

LEMMA HandOutFields ==
  ASSUME NEW q, QueueTypeOK(q), IsInjective(q.pending), NEW hosts \in SUBSET Peer,
         NEW to, Cuts(q, hosts, to)
  PROVE  HandedOut(q, HandOut(q, to), to)
<1> DEFINE q2    == HandOut(q, to)
           new   == NewBatches(q, to)
           E     == DOMAIN to
           given == Max({0} \cup E)
           out   == Range(SubSeq(q.pending, 1, given))
           rest  == SubSeq(q.pending, given + 1, Len(q.pending))
           att   == [p \in Policy |-> q.attempts[p] +
                       IF \E i \in 1 .. given : q.pending[i] = p THEN 1 ELSE 0]
           batch(e) == [peer |-> to[e], policies |-> PoliciesUpTo(q, to, e)]
           inf   == [b \in DOMAIN q.inFlight \cup new |->
                       IF b \notin new THEN q.inFlight[b] ELSE batch(BatchEnd(q, to, b))]
           seq   == q.nextBatchSeq + Cardinality(E)
<1>1. /\ q.pending \in Seq(Policy) /\ Len(q.pending) \in Nat /\ q.nextBatchSeq \in Nat
      /\ DOMAIN q.inFlight \subseteq 1 .. q.nextBatchSeq
      /\ q.attempts \in [Policy -> Nat] /\ q.inFlight \in [DOMAIN q.inFlight -> Batch]
  BY LenProperties DEF QueueTypeOK
<1>2. given \in 0 .. Len(q.pending)
  BY <1>1, CutsPart
<1>3. /\ \A e \in E : PoliciesUpTo(q, to, e) \in Seq(Policy)
      /\ out = {q.pending[i] : i \in 1 .. given}
  BY PiecesPart
<1>4. /\ Cardinality(E) \in Nat
      /\ \A e \in E : BatchSeq(q, to, e) \in q.nextBatchSeq + 1 .. q.nextBatchSeq + Cardinality(E)
      /\ \A e \in E : BatchEnd(q, to, BatchSeq(q, to, e)) = e
  BY <1>1, NewIds
<1>5. /\ rest \in Seq(Policy) /\ IsInjective(rest)
      /\ out \cap Range(rest) = {} /\ Range(q.pending) = out \cup Range(rest)
  <2> HIDE DEF given
  <2> QED
    BY <1>1, <1>2, SplitSequence
<1>6. q2 = [q EXCEPT !.pending = rest, !.attempts = att, !.inFlight = inf,
                     !.nextBatchSeq = seq]
  BY DEF HandOut
<1>7. \A e \in E : to[e] \in Peer
  BY DEF Cuts
<1> HIDE DEF given
<1>8. /\ new \cap DOMAIN q.inFlight = {}
      /\ new \subseteq q.nextBatchSeq + 1 .. seq /\ seq \in Nat /\ q.nextBatchSeq <= seq
  <2>1. ASSUME NEW b \in new PROVE b \in q.nextBatchSeq + 1 .. seq
    BY <1>4 DEF NewBatches
  <2>2. seq \in Nat /\ q.nextBatchSeq <= seq
    BY <1>1, <1>4
  <2> HIDE DEF seq, new
  <2> QED
    BY <2>1, <2>2, <1>1
<1>9. \A b \in new : batch(BatchEnd(q, to, b)) \in Batch
  <2>1. ASSUME NEW b \in new PROVE BatchEnd(q, to, b) \in E
    BY <1>4 DEF NewBatches
  <2> QED
    BY <2>1, <1>3, <1>7 DEF Batch
<1>10. inf \in [DOMAIN q.inFlight \cup new -> Batch]
  <2> HIDE DEF batch, new
  <2> QED
    BY <1>1, <1>9
<1>11. \A e \in E : BatchSeq(q, to, e) \in new /\ inf[BatchSeq(q, to, e)] = batch(e)
  <2>1. \A e \in E : BatchSeq(q, to, e) \in new
    BY DEF NewBatches
  <2> HIDE DEF batch, new
  <2> QED
    BY <2>1, <1>4
<1>12. \A b \in DOMAIN q.inFlight : inf[b] = q.inFlight[b]
  <2> HIDE DEF batch, new
  <2> QED
    BY <1>8
<1>13. /\ att \in [Policy -> Nat]
       /\ \A p \in Policy : att[p] = q.attempts[p] + IF p \in out THEN 1 ELSE 0
  <2>1. \A p \in Policy : (\E i \in 1 .. given : q.pending[i] = p) <=> p \in out
    BY <1>3
  <2> HIDE DEF out
  <2> QED
    BY <2>1, <1>1
<1> DEFINE D == DOMAIN q.inFlight \cup new
<1>14. inf \in [D -> Batch] /\ DOMAIN inf = D /\ D \subseteq 1 .. seq
  <2>1. inf \in [D -> Batch] /\ DOMAIN inf = D
    BY <1>10
  <2> HIDE DEF inf, seq, new
  <2>2. \A b \in DOMAIN q.inFlight : b \in 1 .. seq
    BY <1>1, <1>8
  <2>3. \A b \in new : b \in 1 .. seq
    BY <1>1, <1>8
  <2> QED
    BY <2>1, <2>2, <2>3
<1> HIDE DEF q2, rest, att, inf, seq, D
<1>15. /\ q2.pending = rest /\ q2.attempts = att /\ q2.inFlight = inf
       /\ q2.nextBatchSeq = seq /\ q2.evaluatedCount = q.evaluatedCount
       /\ q2.totalPolicies = q.totalPolicies /\ q2.deadLetters = q.deadLetters
       /\ q2.evaluated = q.evaluated
  BY <1>6 DEF QueueTypeOK
<1>16. QueueTypeOK(q2)
  <2>1. q2 \in [ pending        : Seq(Policy),
                inFlight       : [D -> Batch],
                attempts       : [Policy -> Nat],
                evaluatedCount : Nat,
                totalPolicies  : Nat,
                deadLetters    : SUBSET [policy : Policy, attempts : Nat, lastPeer : Peer],
                nextBatchSeq   : Nat,
                evaluated      : SUBSET Policy ]
    BY <1>5, <1>8, <1>13, <1>14, <1>6 DEF QueueTypeOK
  <2> QED
    BY <2>1, <1>14, <1>15 DEF QueueTypeOK
<1>17. /\ DOMAIN q2.inFlight = DOMAIN q.inFlight \cup new
       /\ \A b \in DOMAIN q.inFlight : q2.inFlight[b] = q.inFlight[b]
       /\ \A e \in E : q2.inFlight[BatchSeq(q, to, e)] = batch(e)
  BY <1>11, <1>12, <1>14, <1>15 DEF D
<1> HIDE DEF new, out, batch
<1>18. /\ new \cap DOMAIN q.inFlight = {}
       /\ new \subseteq q.nextBatchSeq + 1 .. q2.nextBatchSeq
       /\ out \cap Range(q2.pending) = {}
       /\ Range(q.pending) = out \cup Range(q2.pending)
       /\ IsInjective(q2.pending)
       /\ \A p \in Policy : q2.attempts[p] = q.attempts[p] + IF p \in out THEN 1 ELSE 0
       /\ q2.nextBatchSeq \in Nat /\ q.nextBatchSeq <= q2.nextBatchSeq
  BY <1>5, <1>8, <1>13, <1>15
<1> QED
  BY <1>15, <1>16, <1>17, <1>18, Zenon DEF HandedOut, new, out, batch, q2, given

(* A handout: no policy is lost, doubled or over its budget.               *)
LEMMA HandOutKeepsInv ==
  ASSUME NEW q, NEW policies, NEW prior, QueueInv(q, policies, prior),
         NEW hosts \in SUBSET Peer, NEW to, Cuts(q, hosts, to)
  PROVE  /\ QueueInv(HandOut(q, to), policies, prior)
         /\ InFlightPolicies(q) \subseteq InFlightPolicies(HandOut(q, to))
         /\ Range(HandOut(q, to).pending) \cup InFlightPolicies(HandOut(q, to))
              = Range(q.pending) \cup InFlightPolicies(q)
<1> DEFINE q2  == HandOut(q, to)
           new == NewBatches(q, to)
           E   == DOMAIN to
           out == Range(SubSeq(q.pending, 1, Max({0} \cup DOMAIN to)))
           id(e) == BatchSeq(q, to, e)
           piece(e) == PoliciesUpTo(q, to, e)
<1>1. /\ QueueTypeOK(q) /\ BatchesDisjoint(q) /\ OnePlaceEach(q, policies)
      /\ AttemptsBounded(q) /\ TalliesMatch(q, prior) /\ IsInjective(q.pending)
  BY DEF QueueInv, OnePlaceEach
<1>2. /\ new \cap DOMAIN q.inFlight = {}
      /\ DOMAIN q2.inFlight = DOMAIN q.inFlight \cup new
      /\ \A b \in DOMAIN q.inFlight : q2.inFlight[b] = q.inFlight[b]
      /\ \A e \in E : q2.inFlight[id(e)] = [peer |-> to[e], policies |-> piece(e)]
      /\ out \cap Range(q2.pending) = {}
      /\ Range(q.pending) = out \cup Range(q2.pending)
      /\ IsInjective(q2.pending)
      /\ \A p \in Policy : q2.attempts[p] = q.attempts[p] + IF p \in out THEN 1 ELSE 0
      /\ q2.evaluatedCount = q.evaluatedCount
      /\ q2.deadLetters = q.deadLetters
      /\ q2.evaluated = q.evaluated
      /\ QueueTypeOK(q2)
  <2>1. HandedOut(q, q2, to)
    BY <1>1, HandOutFields
  <2> QED
    BY ONLY <2>1 DEF HandedOut
<1>3. /\ \A e \in E : piece(e) \in Seq(Policy) /\ IsInjective(piece(e))
                      /\ Range(piece(e)) \subseteq out
      /\ \A d, e \in E : d # e => Range(piece(d)) \cap Range(piece(e)) = {}
      /\ \A p \in out : \E e \in E : p \in Range(piece(e))
  BY <1>1, PiecesPart
<1>4. \A b \in new : \E e \in E : b = id(e)
  BY DEF NewBatches
<1>5. \A e \in E : id(e) \in new
  BY DEF NewBatches
<1> HIDE DEF q2, new, E, out, id, piece
<1>6. /\ \A e \in E : PoliciesOf(q2, id(e)) = Range(piece(e))
                      /\ q2.inFlight[id(e)].policies = piece(e)
      /\ \A b \in DOMAIN q.inFlight : PoliciesOf(q2, b) = PoliciesOf(q, b)
  <2>1. ASSUME NEW e \in E
        PROVE  PoliciesOf(q2, id(e)) = Range(piece(e)) /\ q2.inFlight[id(e)].policies = piece(e)
    <3>1. q2.inFlight[id(e)] = [peer |-> to[e], policies |-> piece(e)]
      BY <1>2
    <3> QED
      BY <3>1 DEF PoliciesOf
  <2> QED
    BY <2>1, <1>2 DEF PoliciesOf
<1>7. InFlightPolicies(q2) = InFlightPolicies(q) \cup out
  <2>1. ASSUME NEW p \in InFlightPolicies(q2) PROVE p \in InFlightPolicies(q) \cup out
    <3>1. PICK b \in DOMAIN q2.inFlight : p \in PoliciesOf(q2, b)
      BY DEF InFlightPolicies
    <3>2. CASE b \in DOMAIN q.inFlight
      BY <3>1, <3>2, <1>6 DEF InFlightPolicies
    <3>3. CASE b \in new
      BY <3>1, <3>3, <1>3, <1>4, <1>6
    <3> QED
      BY <3>2, <3>3, <1>2
  <2>2. ASSUME NEW p \in InFlightPolicies(q) PROVE p \in InFlightPolicies(q2)
    BY <1>2, <1>6 DEF InFlightPolicies
  <2>3. ASSUME NEW p \in out PROVE p \in InFlightPolicies(q2)
    <3>1. PICK e \in E : p \in Range(piece(e))
      BY <1>3
    <3>2. id(e) \in DOMAIN q2.inFlight /\ p \in PoliciesOf(q2, id(e))
      BY <3>1, <1>2, <1>5, <1>6
    <3> QED
      BY <3>2 DEF InFlightPolicies
  <2> QED
    BY <2>1, <2>2, <2>3
<1>8. Dropped(q2) = Dropped(q)
  BY <1>2 DEF Dropped
<1>9. out \cap InFlightPolicies(q) = {}
  BY <1>1, <1>2 DEF OnePlaceEach
<1>10. BatchesDisjoint(q2)
  <2>1. \A b \in DOMAIN q.inFlight : PoliciesOf(q, b) \subseteq InFlightPolicies(q)
    BY DEF InFlightPolicies
  <2>2. ASSUME NEW b \in DOMAIN q2.inFlight PROVE IsInjective(q2.inFlight[b].policies)
    <3>1. CASE b \in DOMAIN q.inFlight
      BY <3>1, <1>1, <1>2 DEF BatchesDisjoint
    <3>2. CASE b \in new
      BY <3>2, <1>3, <1>4, <1>6
    <3> QED
      BY <3>1, <3>2, <1>2
  <2>3. ASSUME NEW b \in DOMAIN q2.inFlight, NEW c \in DOMAIN q2.inFlight, b # c
        PROVE  PoliciesOf(q2, b) \cap PoliciesOf(q2, c) = {}
    <3>1. CASE b \in DOMAIN q.inFlight /\ c \in DOMAIN q.inFlight
      BY <3>1, <2>3, <1>1, <1>6 DEF BatchesDisjoint
    <3>2. CASE b \in DOMAIN q.inFlight /\ c \in new
      <4>1. PoliciesOf(q2, b) \subseteq InFlightPolicies(q)
        BY <3>2, <2>1, <1>6
      <4>2. PoliciesOf(q2, c) \subseteq out
        BY <3>2, <1>3, <1>4, <1>6
      <4> QED
        BY <4>1, <4>2, <1>9
    <3>3. CASE b \in new /\ c \in DOMAIN q.inFlight
      <4>1. PoliciesOf(q2, c) \subseteq InFlightPolicies(q)
        BY <3>3, <2>1, <1>6
      <4>2. PoliciesOf(q2, b) \subseteq out
        BY <3>3, <1>3, <1>4, <1>6
      <4> QED
        BY <4>1, <4>2, <1>9
    <3>4. CASE b \in new /\ c \in new
      <4>1. PICK d \in E : b = id(d)
        BY <3>4, <1>4
      <4>2. PICK e \in E : c = id(e)
        BY <3>4, <1>4
      <4> QED
        BY <4>1, <4>2, <2>3, <1>3, <1>6
    <3> QED
      BY <3>1, <3>2, <3>3, <3>4, <1>2
  <2> QED
    BY <2>2, <2>3 DEF BatchesDisjoint
<1>11. OnePlaceEach(q2, policies)
  BY <1>1, <1>2, <1>7, <1>8, <1>9 DEF OnePlaceEach
<1>12. AttemptsBounded(q2)
  <2>1. Range(q.pending) \subseteq Policy /\ InFlightPolicies(q) \subseteq Policy
    <3>1. \A b \in DOMAIN q.inFlight : q.inFlight[b].policies \in Seq(Policy)
      BY <1>1 DEF QueueTypeOK, Batch
    <3>2. \A s \in Seq(Policy) : Range(s) \subseteq Policy
      BY LenProperties DEF Range
    <3>3. q.pending \in Seq(Policy)
      BY <1>1 DEF QueueTypeOK
    <3> QED
      BY <3>1, <3>2, <3>3 DEF InFlightPolicies, PoliciesOf
  <2>2. \A p \in Policy : q.attempts[p] \in Nat
    BY <1>1 DEF QueueTypeOK
  <2>3. ASSUME NEW p \in Range(q2.pending) PROVE q2.attempts[p] < MAX_POLICY_ATTEMPTS
    BY <1>1, <1>2, <2>1, <2>2 DEF AttemptsBounded
  <2>4. ASSUME NEW p \in InFlightPolicies(q2)
        PROVE  q2.attempts[p] \in 1 .. MAX_POLICY_ATTEMPTS
    <3>1. CASE p \in out
      <4>1. p \in Range(q.pending) /\ q2.attempts[p] = q.attempts[p] + 1
        BY <1>2, <2>1, <3>1
      <4>2. q.attempts[p] < MAX_POLICY_ATTEMPTS /\ q.attempts[p] \in Nat
        BY <1>1, <2>1, <2>2, <4>1 DEF AttemptsBounded
      <4> QED
        BY <4>1, <4>2, QueueAssumption
    <3>2. CASE p \in InFlightPolicies(q)
      <4>1. q2.attempts[p] = q.attempts[p]
        BY <1>2, <1>9, <2>1, <2>2, <3>2
      <4> QED
        BY <4>1, <3>2, <1>1 DEF AttemptsBounded
    <3> QED
      BY <3>1, <3>2, <1>7
  <2> QED
    BY <2>3, <2>4, <1>1, <1>2 DEF AttemptsBounded
<1>13. TalliesMatch(q2, prior)
  BY <1>1, <1>2 DEF TalliesMatch
<1>14. Range(q2.pending) \cup InFlightPolicies(q2) = Range(q.pending) \cup InFlightPolicies(q)
  BY <1>2, <1>7
<1> QED
  BY <1>2, <1>7, <1>10, <1>11, <1>12, <1>13, <1>14 DEF QueueInv, q2
-----------------------------------------------------------------------------
(* Slots. *)

LEMMA SlotsMember ==
  ASSUME NEW r
  PROVE  \A x : x \in SlotsOf(r) <=> \E b \in DOMAIN r : \E i \in 1 .. r[b] : x = <<b, i>>
<1> TAKE x
<1>1. \A b : x \in {b} \X (1 .. r[b]) <=> \E i \in 1 .. r[b] : x = <<b, i>>
  OBVIOUS
<1>2. x \in SlotsOf(r) <=> \E b \in DOMAIN r : x \in {b} \X (1 .. r[b])
  BY DEF SlotsOf
<1> QED
  BY <1>1, <1>2

(* Finitely many batches have finitely many slots. *)
LEMMA SlotsFinite ==
  ASSUME NEW D, IsFiniteSet(D), NEW r \in [D -> Nat]
  PROVE  IsFiniteSet(SlotsOf(r)) /\ Cardinality(SlotsOf(r)) \in Nat
<1> DEFINE part(b) == {b} \X (1 .. r[b])
           parts == {part(b) : b \in D}
           f == [b \in D |-> part(b)]
<1>1. f \in Surjection(D, parts)
  <2> HIDE DEF part
  <2> QED
    BY DEF Surjection
<1>2. IsFiniteSet(parts)
  BY <1>1, FS_Surjection
<1>3. \A T \in parts : IsFiniteSet(T)
  <2> SUFFICES ASSUME NEW b \in D PROVE IsFiniteSet(part(b))
    OBVIOUS
  <2>1. IsFiniteSet({b}) /\ IsFiniteSet(1 .. r[b])
    <3>1. r[b] \in Int /\ 1 \in Int
      OBVIOUS
    <3> QED
      BY <3>1, FS_Singleton, FS_Interval
  <2> QED
    BY <2>1, FS_Product
<1>4. SlotsOf(r) = UNION parts
  BY DEF SlotsOf
<1> HIDE DEF parts
<1>5. IsFiniteSet(SlotsOf(r))
  BY <1>2, <1>3, <1>4, FS_UNION
<1> QED
  BY <1>5, FS_CardinalityType

(* Fewer batches have no more slots. *)
LEMMA SlotsShrink ==
  ASSUME NEW D, IsFiniteSet(D), NEW r \in [D -> Nat], NEW w, DOMAIN w \subseteq D,
         \A b \in DOMAIN w : w[b] = r[b]
  PROVE  Cardinality(SlotsOf(w)) \in Nat /\ Cardinality(SlotsOf(w)) <= Cardinality(SlotsOf(r))
<1>1. SlotsOf(w) \in SUBSET SlotsOf(r)
  BY SlotsMember
<1>2. IsFiniteSet(SlotsOf(r))
  BY SlotsFinite
<1> QED
  BY <1>1, <1>2, FS_Subset, FS_CardinalityType

(* Batches that take what others took, under any names, take no more.      *)
LEMMA SlotsRenamed ==
  ASSUME NEW D, IsFiniteSet(D), NEW r \in [D -> Nat], NEW B, NEW w \in [B -> Nat],
         NEW name \in [D -> B],
         \A b \in B : \E d \in D : b = name[d], \A d \in D : w[name[d]] = r[d]
  PROVE  /\ IsFiniteSet(SlotsOf(w)) /\ Cardinality(SlotsOf(w)) \in Nat
         /\ Cardinality(SlotsOf(w)) <= Cardinality(SlotsOf(r))
<1> DEFINE f == [x \in SlotsOf(r) |-> <<name[x[1]], x[2]>>]
<1>1. ASSUME NEW x \in SlotsOf(r) PROVE f[x] \in SlotsOf(w)
  <2>1. PICK d \in D : \E i \in 1 .. r[d] : x = <<d, i>>
    BY SlotsMember
  <2>1a. PICK i \in 1 .. r[d] : x = <<d, i>>
    BY <2>1
  <2>2. f[x] = <<name[d], i>> /\ i \in 1 .. w[name[d]]
    BY <2>1a
  <2> QED
    BY <2>2, SlotsMember
<1>2. ASSUME NEW y \in SlotsOf(w) PROVE \E x \in SlotsOf(r) : f[x] = y
  <2>1. PICK b \in DOMAIN w : \E i \in 1 .. w[b] : y = <<b, i>>
    BY SlotsMember
  <2>1a. PICK i \in 1 .. w[b] : y = <<b, i>>
    BY <2>1
  <2>2. PICK d \in D : b = name[d]
    OBVIOUS
  <2>3. <<d, i>> \in SlotsOf(r)
    <3>1. i \in 1 .. r[d]
      BY <2>2
    <3> QED
      BY <3>1, SlotsMember
  <2>4. f[<<d, i>>] = y
    BY <2>1a, <2>2, <2>3
  <2> QED
    BY <2>3, <2>4
<1>3. f \in Surjection(SlotsOf(r), SlotsOf(w))
  <2>1. f \in [SlotsOf(r) -> SlotsOf(w)]
    BY <1>1
  <2> QED
    BY <1>2, <2>1 DEF Surjection
<1>4. IsFiniteSet(SlotsOf(r)) /\ Cardinality(SlotsOf(r)) \in Nat
  BY SlotsFinite
<1>5. IsFiniteSet(SlotsOf(w)) /\ Cardinality(SlotsOf(w)) <= Cardinality(SlotsOf(r))
  BY <1>3, <1>4, FS_Surjection
<1> QED
  BY <1>5, FS_CardinalityType

(* Two sets of batches together have no more slots than both. *)
LEMMA SlotsJoin ==
  ASSUME NEW A, IsFiniteSet(A), NEW r \in [A -> Nat],
         NEW B, IsFiniteSet(B), NEW t \in [B -> Nat],
         NEW w, DOMAIN w = A \cup B,
         \A b \in A \ B : w[b] = r[b], \A b \in B : w[b] = t[b]
  PROVE  Cardinality(SlotsOf(w)) \in Nat
         /\ Cardinality(SlotsOf(w)) <= Cardinality(SlotsOf(r)) + Cardinality(SlotsOf(t))
<1> DEFINE R == SlotsOf(r)
           T == SlotsOf(t)
<1>1. SlotsOf(w) \in SUBSET (R \cup T)
  BY SlotsMember
<1>2. /\ IsFiniteSet(R) /\ Cardinality(R) \in Nat
      /\ IsFiniteSet(T) /\ Cardinality(T) \in Nat
  BY SlotsFinite
<1> HIDE DEF R, T
<1>3. /\ IsFiniteSet(R \cup T)
      /\ Cardinality(R \cup T) = Cardinality(R) + Cardinality(T) - Cardinality(R \cap T)
  BY <1>2, FS_Union
<1>4. Cardinality(R \cap T) \in Nat
  BY <1>2, FS_Intersection, FS_CardinalityType
<1>5. IsFiniteSet(SlotsOf(w)) /\ Cardinality(SlotsOf(w)) <= Cardinality(R \cup T)
  BY <1>1, <1>3, FS_Subset
<1>6. Cardinality(SlotsOf(w)) \in Nat
  BY <1>5, FS_CardinalityType
<1> QED
  BY <1>2, <1>3, <1>4, <1>5, <1>6 DEF R, T

(* The slots of one batch. *)
LEMMA SlotsOfOne ==
  ASSUME NEW b, NEW n \in Nat
  PROVE  Cardinality(SlotsOf([x \in {b} |-> n])) = n
<1> DEFINE r == [x \in {b} |-> n]
           f == [i \in 1 .. n |-> <<b, i>>]
<1>1. SlotsOf(r) = {<<b, i>> : i \in 1 .. n}
  BY SlotsMember
<1>2. f \in Bijection(1 .. n, SlotsOf(r))
  <2>1. f \in [1 .. n -> SlotsOf(r)] /\ \A y \in SlotsOf(r) : \E i \in 1 .. n : f[i] = y
    BY <1>1
  <2>2. \A i, j \in 1 .. n : f[i] = f[j] => i = j
    OBVIOUS
  <2> QED
    BY <2>1, <2>2 DEF Bijection, Injection, Surjection, IsInjective
<1>3. ExistsBijection(1 .. n, SlotsOf(r))
  BY <1>2 DEF ExistsBijection
<1>4. IsFiniteSet(1 .. n) /\ Cardinality(1 .. n) = n
  BY FS_Interval
<1> QED
  BY <1>3, <1>4, FS_Bijection

(* A batch's share is a worker at least. *)
LEMMA ShareIsPositive ==
  ASSUME NEW p \in Peer, NEW depth \in Nat \ {0}
  PROVE  BatchShare(p, depth) \in Nat \ {0}
<1> DEFINE w == IF Workers[p] = 0 THEN 1 ELSE Workers[p]
<1>1. w \in Nat \ {0}
  BY PumpAssumption
<1>2. BatchShare(p, depth) = (w + depth - 1) \div depth
  BY DEF BatchShare, Ceil
<1> HIDE DEF w
<1>3. w + depth - 1 \in Nat /\ w + depth - 1 >= depth
  BY <1>1
<1> DEFINE x == w + depth - 1
<1> HIDE DEF x
<1>4. x \div depth \in Nat /\ x \div depth >= 1
  BY <1>3 DEF x
<1> QED
  BY <1>2, <1>4 DEF x

(* The first host by name is one of the hosts. *)
LEMMA FirstIsOneOf ==
  ASSUME NEW S \in SUBSET Peer, S # {}
  PROVE  FirstByName(S) \in S
<1> DEFINE ranks == {Rank[p] : p \in S}
<1>1. Rank \in [Peer -> Nat]
  BY PumpAssumption
<1>2. ranks \in SUBSET Nat /\ ranks # {}
  BY <1>1
<1>3. PICK n \in ranks : \A m \in ranks : n <= m
  <2>1. PICK k \in ranks : TRUE
    BY <1>2
  <2> DEFINE low == {m \in ranks : m <= k}
  <2>2. low \in SUBSET Nat /\ k \in low /\ k \in Nat /\ \A m \in low : m <= k
    BY <1>2
  <2>3. PICK n \in low : \A m \in low : n <= m
    <3>1. IsFiniteSet(low)
      BY <2>2, FS_BoundedSetOfNaturals
    <3> HIDE DEF low
    <3> QED
      BY <2>2, <3>1, ExtremesExist
  <2> QED
    BY <1>2, <2>2, <2>3
<1>4. \E p \in S : \A r \in S : Rank[p] <= Rank[r]
  BY <1>3
<1> QED
  BY <1>4 DEF FirstByName

(* The batches that handout `to` gives host p leave it within its depth    *)
(* and, but for the last one, within its workers.                          *)
Fits(h, hosts, to, p) ==
  LET Ep == {e \in DOMAIN to : to[e] = p}
      T  == TargetDepth(h, hosts, p)
      taken == SlotsTaken(h, hosts, to, p, DOMAIN to)
  IN  /\ IsFiniteSet(Ep) /\ Cardinality(Ep) \in Nat \ {0}
      /\ taken \in Nat /\ SlotsReserved(h, p) \in Nat /\ Workers[p] \in Nat \ {0}
      /\ NeedsWarmup(h, hosts) => ~h[p].warmed
      /\ Cardinality(DOMAIN h[p].reserved) + Cardinality(Ep) <= T
      /\ SlotsReserved(h, p) + taken < Workers[p] + BatchShare(p, T)
      /\ Cardinality(Ep) = 1 => taken <= BatchShare(p, T)

(* What a handout gives host p fits: at the last batch it gets there was   *)
(* room for one more.                                                      *)
LEMMA HandoutFits ==
  ASSUME NEW q, Len(q.pending) \in Nat, NEW h, NEW hosts \in SUBSET Peer,
         NEW to \in Handouts(q, h, hosts), NEW p \in hosts,
         \E e \in DOMAIN to : to[e] = p,
         IsFiniteSet(DOMAIN h[p].reserved),
         h[p].reserved \in [DOMAIN h[p].reserved -> Nat]
  PROVE  Fits(h, hosts, to, p)
<1> DEFINE n  == Len(q.pending)
           E  == DOMAIN to
           Ep == {e \in E : to[e] = p}
           T  == TargetDepth(h, hosts, p)
           D  == DOMAIN h[p].reserved
           res(e) == ReservationFor(p, T, SizeOf(to, e))
<1>1. /\ to \in [E -> hosts] /\ E \in SUBSET (1 .. n)
      /\ \E limit \in Limits(h, hosts) : IsHandout(q, h, hosts, limit, to)
  BY DEF Handouts
<1>2. PICK limit \in Limits(h, hosts) : IsHandout(q, h, hosts, limit, to)
  BY <1>1
<1>3. Cuts(q, hosts, to)
  BY <1>1 DEF Cuts
<1>4. /\ IsFiniteSet(Ep) /\ Cardinality(Ep) \in Nat /\ Ep \in SUBSET Nat
  <2>1. Ep \in SUBSET (1 .. n) /\ 1 \in Int /\ n \in Int
    BY <1>1
  <2> HIDE DEF Ep, n
  <2>2. IsFiniteSet(1 .. n)
    BY <2>1, FS_Interval
  <2>3. IsFiniteSet(Ep)
    BY <2>1, <2>2, FS_Subset
  <2>4. Ep \in SUBSET Nat
    BY <2>1
  <2> QED
    BY <2>3, <2>4, FS_CardinalityType
<1>5. PICK last \in Ep : \A e \in Ep : e <= last
  BY <1>4, ExtremesExist
<1> DEFINE F == {d \in E : d < last}
           Fp == {e \in F : to[e] = p}
<1>6. Fp = Ep \ {last}
  BY <1>4, <1>5
<1>7. HasRoom(h, hosts, to, F, p)
  <2> DEFINE S == Hungry(q, h, hosts, limit, to, F)
  <2>1. S # {} /\ to[last] = FirstByName(S)
    BY <1>2 DEF IsHandout
  <2>2. S \in SUBSET Peer
    BY DEF Hungry
  <2>3. p \in S
    <3> HIDE DEF S
    <3>1. FirstByName(S) \in S
      BY <2>1, <2>2, FirstIsOneOf
    <3> QED
      BY <2>1, <3>1
  <2> QED
    BY <2>3 DEF Hungry
<1>8. /\ NeedsWarmup(h, hosts) => ~h[p].warmed
      /\ Cardinality(D) + Cardinality(Fp) < T
      /\ SlotsReserved(h, p) + SlotsTaken(h, hosts, to, p, F) < Workers[p]
  BY <1>7 DEF HasRoom
<1>9. /\ T \in Nat \ {0} /\ Workers[p] \in Nat
      /\ BatchShare(p, T) \in Nat \ {0}
      /\ \A k \in Nat : ReservationFor(p, T, k) \in Nat /\ ReservationFor(p, T, k) <= BatchShare(p, T)
  <2>1. T \in Nat \ {0} /\ Workers[p] \in Nat
    BY PumpAssumption DEF TargetDepth
  <2> HIDE DEF T
  <2>2. BatchShare(p, T) \in Nat \ {0}
    BY <2>1, ShareIsPositive
  <2>3. ASSUME NEW k \in Nat
        PROVE ReservationFor(p, T, k) \in Nat /\ ReservationFor(p, T, k) <= BatchShare(p, T)
    BY <2>2 DEF ReservationFor, LesserOf
  <2> QED
    BY <2>1, <2>2, <2>3
<1>10. \A e \in Ep : res(e) \in Nat /\ res(e) <= BatchShare(p, T)
  <2> TAKE e \in Ep
  <2>1. CutBefore(to, e) \in 0 .. e - 1 /\ e \in Nat
    BY <1>1, <1>3, <1>4, CutsPart
  <2>2. SizeOf(to, e) \in Nat
    BY <2>1 DEF SizeOf
  <2> QED
    BY <2>2, <1>9
<1> DEFINE before == [e \in Fp |-> res(e)]
           one    == [e \in {last} |-> res(last)]
           all    == [e \in Ep |-> res(e)]
<1>11. /\ SlotsTaken(h, hosts, to, p, F) = Cardinality(SlotsOf(before))
       /\ SlotsTaken(h, hosts, to, p, E) = Cardinality(SlotsOf(all))
  BY DEF SlotsTaken
<1>12. Cardinality(SlotsOf(one)) = res(last)
  <2>1. res(last) \in Nat
    BY <1>10
  <2> HIDE DEF res
  <2> QED
    BY <2>1, SlotsOfOne
<1> HIDE DEF res, T
<1>13. /\ IsFiniteSet(Fp) /\ Cardinality(Fp) = Cardinality(Ep) - 1
  <2> HIDE DEF Fp, Ep
  <2>1. /\ IsFiniteSet(Ep \ {last})
        /\ Cardinality(Ep \ {last}) = Cardinality(Ep) - 1
    BY <1>4, FS_RemoveElement
  <2> QED
    BY <1>6, <2>1
<1>14. /\ before \in [Fp -> Nat] /\ one \in [{last} -> Nat] /\ Ep = Fp \cup {last}
       /\ \A e \in Fp \ {last} : all[e] = before[e]
       /\ \A e \in {last} : all[e] = one[e]
  BY <1>6, <1>10
<1>15. /\ Cardinality(SlotsOf(all)) \in Nat
       /\ Cardinality(SlotsOf(all)) <= Cardinality(SlotsOf(before)) + Cardinality(SlotsOf(one))
  <2>1. DOMAIN all = Fp \cup {last} /\ IsFiniteSet({last})
    BY <1>14, FS_Singleton
  <2> HIDE DEF all, before, one, Fp
  <2> QED
    BY <1>13, <1>14, <2>1, SlotsJoin
<1>16. Cardinality(SlotsOf(before)) \in Nat
  <2> HIDE DEF before, Fp
  <2> QED
    BY <1>13, <1>14, SlotsFinite
<1>17. SlotsReserved(h, p) \in Nat /\ Cardinality(D) \in Nat
  BY SlotsFinite, FS_CardinalityType DEF SlotsReserved
<1>20. Cardinality(Ep) # 0
  BY <1>4, <1>5, FS_EmptySet
<1>21. ASSUME Cardinality(Ep) = 1 PROVE Cardinality(SlotsOf(all)) <= BatchShare(p, T)
  <2>1. Fp = {}
    <3> HIDE DEF Fp, Ep
    <3>1. IsFiniteSet(Fp) /\ Cardinality(Fp) = 0
      BY <1>13, <1>21
    <3> QED
      BY <3>1, FS_EmptySet
  <2>2. SlotsOf(before) = {}
    BY <2>1 DEF SlotsOf
  <2>3. Cardinality(SlotsOf(before)) = 0
    BY <2>2, FS_EmptySet
  <2>4. res(last) \in Nat /\ res(last) <= BatchShare(p, T)
    BY <1>10
  <2> HIDE DEF all, before, one
  <2> QED
    BY <2>3, <2>4, <1>9, <1>12, <1>15
<1> HIDE DEF all, before, one, Ep, Fp, F, D, E
<1>22. Workers[p] # 0
  <2>1. SlotsReserved(h, p) \in Nat /\ SlotsTaken(h, hosts, to, p, F) \in Nat
    BY <1>11, <1>16, <1>17
  <2>2. \A a, x, w \in Nat : a + x < w => w # 0
    OBVIOUS
  <2> QED
    BY <2>1, <2>2, <1>8, <1>9
<1>18. Cardinality(D) + Cardinality(Ep) <= T
  BY <1>4, <1>8, <1>9, <1>13, <1>17
<1>19. SlotsReserved(h, p) + SlotsTaken(h, hosts, to, p, E) < Workers[p] + BatchShare(p, T)
  <2>1. res(last) \in Nat /\ res(last) <= BatchShare(p, T)
    BY <1>10
  <2>2. SlotsTaken(h, hosts, to, p, E) <= SlotsTaken(h, hosts, to, p, F) + res(last)
    BY <1>11, <1>12, <1>15
  <2>3. SlotsTaken(h, hosts, to, p, E) \in Nat /\ SlotsTaken(h, hosts, to, p, F) \in Nat
    BY <1>11, <1>15, <1>16
  <2>4. \A a, x, y, w, s, r \in Nat :
          a + x < w /\ y <= x + r /\ r <= s => a + y < w + s
    OBVIOUS
  <2> QED
    BY <1>8, <1>9, <1>17, <2>1, <2>2, <2>3, <2>4
<1> QED
  BY <1>4, <1>8, <1>9, <1>11, <1>15, <1>17, <1>18, <1>19, <1>20, <1>21, <1>22 DEF Fits, Ep, E, D, T
-----------------------------------------------------------------------------
(* The session, its hosts, its messages and its corpus.                    *)

RecordType(r) ==
  r \in [ reserved : {r.reserved}, warmed : BOOLEAN, cooling : BOOLEAN,
          incomplete : 0 .. INCOMPLETE_RESULT_QUARANTINE_THRESHOLD ]

(* What host p, of record r, has outstanding is within its capacity.       *)
WithinCapacity(p, r) ==
  /\ Cardinality(DOMAIN r.reserved) <= IF r.warmed THEN Depth[p] ELSE 1
  /\ Cardinality(SlotsOf(r.reserved)) < Workers[p] + BatchShare(p, Depth[p])

HostRecord(p, r) ==
  /\ RecordType(r)
  /\ DOMAIN r.reserved \subseteq Nat /\ IsFiniteSet(DOMAIN r.reserved)
  /\ r.reserved \in [DOMAIN r.reserved -> Nat]
  /\ WithinCapacity(p, r)

(* Nothing is kept of a host that is not connected. *)
HostsOK(h, live) ==
  /\ DOMAIN h = Peer /\ h = [p \in Peer |-> h[p]]
  /\ \A p \in Peer : HostRecord(p, h[p])
  /\ \A p \in Peer \ live : h[p] = FreshHost

(* The queue's book of batches and the hosts' books agree.                 *)
BooksAgree(q, h, live) ==
  /\ \A b \in DOMAIN q.inFlight : q.inFlight[b].peer \in live
  /\ \A p \in live : DOMAIN h[p].reserved = BatchesOf(q, p)

CorpusType ==
  [ opened : BOOLEAN, refused : BOOLEAN, givenUp : SUBSET Policy,
    summary : {"none", "completed", "cancelled"},
    full : [Policy -> Nat], coarse : [Policy -> Nat] ]

Covered(f) ==
  \A p \in Policy : \/ f.full[p] > 0
                    \/ p \in f.givenUp
                    \/ TwoStage /\ p \notin Survivor

FileOK(f) ==
  /\ \A p \in Policy : f.coarse[p] = 0 /\ f.full[p] <= 1
  /\ f.summary = "completed" => Covered(f)

CorpusOK(c) ==
  /\ c \in [SessionId -> CorpusType]
  /\ \A r \in SessionId : FileOK(c[r])

(* What each stage of session s knows of its policies, f being its files.  *)
StageOK(s, f) ==
  /\ s.stage = "single" =>
       \A p \in Policy : p \in s.built \/ f.full[p] > 0
  /\ s.stage = "coarse" =>
       /\ TwoStage
       /\ s.built = Policy /\ s.givenUp = {}
       /\ \A p \in Policy : f.full[p] = 0
       /\ IsInjective(s.buffer) /\ Range(s.buffer) = s.queue.evaluated
  /\ s.stage = "fine" =>
       TwoStage /\ s.built = Survivor \ s.givenUp
  /\ s.stage # "coarse" =>
       /\ \A p \in s.queue.evaluated : f.full[p] > 0
       /\ \A p \in Range(s.queue.pending) \cup InFlightPolicies(s.queue) : f.full[p] = 0

SessionOK(s, c) ==
  /\ s \in [ id : SessionId, stage : {"single", "coarse", "fine"}, queue : {s.queue},
             buffer : Seq(Policy), built : SUBSET Policy, prior : Nat,
             givenUp : SUBSET Policy ]
  /\ QueueInv(s.queue, s.built, s.prior)
  /\ c[s.id].opened /\ c[s.id].summary = "none"
  /\ StageOK(s, c[s.id])

Message ==
  [ peer : Peer, session : SessionId, batch : Nat, policies : Seq(Policy), coarse : BOOLEAN ]

(* A message about session s and a batch that is still out is about that   *)
(* batch, and in a session of two stages no message outlives its batch.    *)
MessageFits(s, a) ==
  /\ a.batch \in 1 .. s.queue.nextBatchSeq
  /\ a.coarse <=> s.stage = "coarse"
  /\ a.batch \in DOMAIN s.queue.inFlight =>
       s.queue.inFlight[a.batch] = [peer |-> a.peer, policies |-> a.policies]
  /\ TwoStage => a.batch \in DOMAIN s.queue.inFlight

MessagesFit(s, m) == \A a \in m : a.session = s.id => MessageFits(s, a)

(* Of the sessions without a summary only `id` can be taken up again, and  *)
(* it is the newest; ids from `next` on are unused.                        *)
Held(c, id, next) ==
  /\ \A r \in SessionId : r >= next => c[r] = NoCorpus
  /\ \A r \in SessionId : c[r].opened /\ c[r].summary = "none" /\ ~c[r].refused =>
       /\ r = id
       /\ \A o \in SessionId : c[o].opened /\ c[o].summary = "none" => o <= r

MessagesOK(m, next) == m \in SUBSET Message /\ \A a \in m : a.session < next

(* What a pump may be given. *)
Ready(s, h, m, c, live, next) ==
  /\ live \in SUBSET Peer /\ next \in 1 .. MaxSessions + 1
  /\ SessionOK(s, c) /\ s.id < next
  /\ HostsOK(h, live) /\ BooksAgree(s.queue, h, live)
  /\ MessagesOK(m, next) /\ MessagesFit(s, m)
  /\ CorpusOK(c) /\ Held(c, s.id, next)

(* Between two handlers. *)
Idle(h, m, c, live, next, held) ==
  /\ live \in SUBSET Peer /\ next \in 1 .. MaxSessions + 1
  /\ HostsOK(h, live) /\ \A p \in Peer : h[p].reserved = NoSlots
  /\ MessagesOK(m, next)
  /\ CorpusOK(c) /\ Held(c, held, next)
  /\ held \in {0} \cup SessionId
  /\ held # 0 => c[held].opened /\ c[held].summary = "none" /\ m = {}

DInv ==
  /\ status \in [Peer -> {"new", "live", "swept", "gone"}]
  /\ faults \in 0 .. MaxFaults
  /\ IF session = NoSession
     THEN Idle(host, owed, corpus, Live, nextSession, resumable)
     ELSE resumable = 0 /\ Ready(session, host, owed, corpus, Live, nextSession)
-----------------------------------------------------------------------------
(* Lists and records. *)

(* What a filter over a list that repeats nothing keeps.                   *)
LEMMA KeepOnlyProperties ==
  ASSUME NEW S, IsFiniteSet(S), NEW s \in Seq(S), IsInjective(s), NEW K
  PROVE  /\ KeepOnly(s, K) \in Seq(S)
         /\ IsInjective(KeepOnly(s, K))
         /\ Range(KeepOnly(s, K)) = Range(s) \cap K
<1> DEFINE R == Range(s)
           t == KeepOnly(s, K)
<1>1. DOMAIN s \subseteq Nat /\ R \subseteq S
  BY LenProperties DEF Range
<1>2. \A x \in R : \E i \in DOMAIN s : x = s[i]
  BY DEF Range
<1>3. \A i, j \in DOMAIN s : s[i] = s[j] => i = j
  BY DEF IsInjective
<1>4. \A i, j \in DOMAIN s : <<s[i], s[j]>> \in Precedes(s) <=> i < j
  <2> TAKE i, j \in DOMAIN s
  <2>1. s[i] \in R /\ s[j] \in R
    BY DEF Range
  <2>2. ASSUME i < j PROVE <<s[i], s[j]>> \in Precedes(s)
    BY <2>1, <2>2 DEF Precedes
  <2>3. ASSUME <<s[i], s[j]>> \in Precedes(s) PROVE i < j
    <3>1. PICK m, n \in DOMAIN s : m < n /\ s[i] = s[m] /\ s[j] = s[n]
      BY <2>3 DEF Precedes
    <3> QED
      BY <3>1, <1>3
  <2> QED
    BY <2>2, <2>3
<1> HIDE DEF R
<1>5. StrictTotal(R, Precedes(s))
  <2>1. \A x \in R : <<x, x>> \notin Precedes(s)
    <3> TAKE x \in R
    <3>1. PICK i \in DOMAIN s : x = s[i]
      BY <1>2
    <3>2. <<s[i], s[i]>> \in Precedes(s) <=> i < i
      BY <1>4
    <3> QED
      BY <3>1, <3>2, <1>1
  <2>2. \A x, y \in R : x # y => <<x, y>> \in Precedes(s) \/ <<y, x>> \in Precedes(s)
    <3> TAKE x, y \in R
    <3>1. PICK i \in DOMAIN s : x = s[i]
      BY <1>2
    <3>2. PICK j \in DOMAIN s : y = s[j]
      BY <1>2
    <3>3. i < j \/ j < i \/ i = j
      BY <1>1
    <3> QED
      BY <3>1, <3>2, <3>3, <1>4
  <2>3. \A x, y, z \in R :
          <<x, y>> \in Precedes(s) /\ <<y, z>> \in Precedes(s) => <<x, z>> \in Precedes(s)
    <3> TAKE x, y, z \in R
    <3>1. PICK i \in DOMAIN s : x = s[i]
      BY <1>2
    <3>2. PICK j \in DOMAIN s : y = s[j]
      BY <1>2
    <3>3. PICK k \in DOMAIN s : z = s[k]
      BY <1>2
    <3>4. i \in Nat /\ j \in Nat /\ k \in Nat
      BY <1>1
    <3>5. /\ <<x, y>> \in Precedes(s) <=> i < j
          /\ <<y, z>> \in Precedes(s) <=> j < k
          /\ <<x, z>> \in Precedes(s) <=> i < k
      BY <3>1, <3>2, <3>3, <1>4
    <3> QED
      BY <3>4, <3>5
  <2> QED
    BY <2>1, <2>2, <2>3 DEF StrictTotal
<1>6. StrictTotal(R \cap K, Precedes(s))
  BY <1>5 DEF StrictTotal
<1>7. IsFiniteSet(R \cap K)
  BY <1>1, FS_Subset
<1>8. t = Listing(R \cap K, Precedes(s))
  BY DEF KeepOnly, R
<1> HIDE DEF t
<1> DEFINE RK == R \cap K
<1>9. t \in Seq(RK) /\ IsInjective(t) /\ Range(t) = RK
  <2>1. StrictTotal(RK, Precedes(s)) /\ IsFiniteSet(RK) /\ t = Listing(RK, Precedes(s))
    BY <1>6, <1>7, <1>8
  <2> HIDE DEF RK
  <2> QED
    BY ONLY <2>1, ListingProperties
<1>10. t \in Seq(S)
  BY <1>1, <1>9, SeqMonotonic
<1> QED
  BY <1>9, <1>10 DEF R, t

(* A session with an id is not the absence of one. *)
LEMMA RealSession == ASSUME NEW s, s.id \in SessionId PROVE s # NoSession
<1>1. NoSession.id = 0
  BY DEF NoSession
<1> QED
  BY <1>1, DispatcherAssumption DEF SessionId

(* A queue with nothing left. *)
LEMMA CompleteQueue ==
  ASSUME NEW q, IsComplete(q)
  PROVE  DOMAIN q.inFlight = {} /\ InFlightPolicies(q) = {} /\ Range(q.pending) = {}
<1>1. q.inFlight = [b \in {} |-> {}] /\ q.pending = <<>>
  BY DEF IsComplete
<1>2. DOMAIN q.inFlight = {}
  BY <1>1
<1>3. Range(q.pending) = {}
  BY <1>1 DEF Range
<1> QED
  BY <1>2, <1>3 DEF InFlightPolicies

(* A session that changes its queue only.                                  *)
LEMMA SwapQueue ==
  ASSUME NEW s, NEW c, SessionOK(s, c), NEW q
  PROVE  LET t == [s EXCEPT !.queue = q]
         IN  /\ t.id = s.id /\ t.stage = s.stage /\ t.queue = q /\ t.buffer = s.buffer
             /\ t.built = s.built /\ t.prior = s.prior /\ t.givenUp = s.givenUp
             /\ t \in [ id : SessionId, stage : {"single", "coarse", "fine"},
                        queue : {t.queue}, buffer : Seq(Policy), built : SUBSET Policy,
                        prior : Nat, givenUp : SUBSET Policy ]
BY DEF SessionOK

(* A queue over the same policies that finished the same ones leaves the   *)
(* session in order.                                                       *)
LEMMA SwapQueueKeepsSession ==
  ASSUME NEW s, NEW c, SessionOK(s, c), NEW q, QueueInv(q, s.built, s.prior),
         q.evaluated = s.queue.evaluated,
         Range(q.pending) \cup InFlightPolicies(q)
           \subseteq Range(s.queue.pending) \cup InFlightPolicies(s.queue)
  PROVE  SessionOK([s EXCEPT !.queue = q], c)
<1> DEFINE t == [s EXCEPT !.queue = q]
<1>1. /\ t.id = s.id /\ t.stage = s.stage /\ t.queue = q /\ t.buffer = s.buffer
      /\ t.built = s.built /\ t.prior = s.prior /\ t.givenUp = s.givenUp
      /\ t \in [ id : SessionId, stage : {"single", "coarse", "fine"},
                 queue : {t.queue}, buffer : Seq(Policy), built : SUBSET Policy,
                 prior : Nat, givenUp : SUBSET Policy ]
  BY SwapQueue
<1> HIDE DEF t
<1>2. c[s.id].opened /\ c[s.id].summary = "none" /\ StageOK(s, c[s.id])
  BY DEF SessionOK
<1>3. StageOK(t, c[s.id])
  BY <1>1, <1>2 DEF StageOK
<1> QED
  BY <1>1, <1>2, <1>3 DEF SessionOK, t

(* The facts a session's queue offers to the lemmas about it.              *)
LEMMA QueueOf ==
  ASSUME NEW s, NEW c, SessionOK(s, c)
  PROVE  /\ QueueInv(s.queue, s.built, s.prior) /\ s.prior \in Nat /\ s.built \subseteq Policy
         /\ QueueTypeOK(s.queue) /\ BatchesDisjoint(s.queue)
         /\ OnePlaceEach(s.queue, s.built) /\ IsInjective(s.queue.pending)
         /\ Range(s.queue.pending) \cap InFlightPolicies(s.queue) = {}
         /\ s.id \in SessionId /\ s.stage \in {"single", "coarse", "fine"}
         /\ s.givenUp \subseteq Policy /\ s.buffer \in Seq(Policy)
         /\ c[s.id].opened /\ c[s.id].summary = "none" /\ StageOK(s, c[s.id])
BY DEF SessionOK, QueueInv, OnePlaceEach

(* Batches given back: the session stays in order, and only their hosts'   *)
(* books change.                                                           *)
LEMMA RequeueKeepsSession ==
  ASSUME NEW s, NEW c, SessionOK(s, c), NEW S \in SUBSET DOMAIN s.queue.inFlight,
         NEW count \in BOOLEAN
  PROVE  LET q == Requeue(s.queue, S, count)
         IN  /\ SessionOK([s EXCEPT !.queue = q], c)
             /\ DOMAIN q.inFlight = DOMAIN s.queue.inFlight \ S
             /\ \A b \in DOMAIN q.inFlight : q.inFlight[b] = s.queue.inFlight[b]
             /\ q.nextBatchSeq = s.queue.nextBatchSeq
<1> DEFINE q == Requeue(s.queue, S, count)
<1>1. /\ QueueInv(s.queue, s.built, s.prior) /\ s.prior \in Nat
      /\ QueueTypeOK(s.queue) /\ BatchesDisjoint(s.queue) /\ IsInjective(s.queue.pending)
      /\ Range(s.queue.pending) \cap InFlightPolicies(s.queue) = {}
  BY QueueOf
<1>2. Returned(s.queue, S) \subseteq InFlightPolicies(s.queue)
  BY DEF Returned, InFlightPolicies
<1>3. QueueInv(q, s.built, s.prior)
  BY <1>1, RequeueKeepsInv
<1>4. /\ DOMAIN q.inFlight = DOMAIN s.queue.inFlight \ S
      /\ \A b \in DOMAIN q.inFlight : q.inFlight[b] = s.queue.inFlight[b]
      /\ Range(q.pending) \subseteq Returned(s.queue, S) \cup Range(s.queue.pending)
      /\ q.evaluated = s.queue.evaluated
      /\ q.nextBatchSeq = s.queue.nextBatchSeq
  <2>1. Range(s.queue.pending) \cap Returned(s.queue, S) = {}
    BY <1>1, <1>2
  <2> QED
    BY <1>1, <2>1, RequeueFields
<1> HIDE DEF q
<1>5. InFlightPolicies(q) \subseteq InFlightPolicies(s.queue)
  BY <1>4 DEF InFlightPolicies, PoliciesOf
<1>6. SessionOK([s EXCEPT !.queue = q], c)
  BY <1>2, <1>3, <1>4, <1>5, SwapQueueKeepsSession
<1> QED
  BY <1>4, <1>6 DEF q

(* Batches handed out.                                                     *)
LEMMA HandOutKeepsSession ==
  ASSUME NEW s, NEW c, SessionOK(s, c), NEW hosts \in SUBSET Peer, NEW to,
         Cuts(s.queue, hosts, to)
  PROVE  /\ SessionOK([s EXCEPT !.queue = HandOut(s.queue, to)], c)
         /\ HandedOut(s.queue, HandOut(s.queue, to), to)
<1> DEFINE q == HandOut(s.queue, to)
<1>1. QueueInv(s.queue, s.built, s.prior) /\ QueueTypeOK(s.queue) /\ IsInjective(s.queue.pending)
  BY QueueOf
<1>2. HandedOut(s.queue, q, to)
  BY <1>1, HandOutFields
<1>3. /\ QueueInv(q, s.built, s.prior)
      /\ Range(q.pending) \cup InFlightPolicies(q)
           = Range(s.queue.pending) \cup InFlightPolicies(s.queue)
  BY <1>1, HandOutKeepsInv
<1>4. q.evaluated = s.queue.evaluated
  BY <1>2 DEF HandedOut
<1> HIDE DEF q
<1>5. SessionOK([s EXCEPT !.queue = q], c)
  BY <1>3, <1>4, SwapQueueKeepsSession
<1> QED
  BY <1>2, <1>5 DEF q

(* The empty list repeats nothing. *)
LEMMA EmptyList == <<>> \in Seq(Policy) /\ IsInjective(<<>>) /\ Range(<<>>) = {}
<1>1. <<>> \in Seq(Policy) /\ DOMAIN <<>> = {}
  OBVIOUS
<1> QED
  BY <1>1 DEF IsInjective, Range

(* The end of the coarse stage: the fine stage is over the survivors.      *)
LEMMA FineKeepsSession ==
  ASSUME NEW s, NEW c, SessionOK(s, c), StageDone(s)
  PROVE  /\ SessionOK(FineSession(s), c)
         /\ FineSession(s).id = s.id /\ FineSession(s).stage = "fine"
         /\ DOMAIN FineSession(s).queue.inFlight = {}
<1> DEFINE t == FineSession(s)
           u == KeepOnly(s.buffer, Survivor)
           q == NewQueue(u, 0)
<1>1. /\ OnePlaceEach(s.queue, s.built) /\ StageOK(s, c[s.id])
      /\ c[s.id].opened /\ c[s.id].summary = "none"
      /\ s.buffer \in Seq(Policy) /\ s.id \in SessionId
  BY QueueOf
<1>2. s.stage = "coarse" /\ IsComplete(s.queue)
  BY DEF StageDone
<1>3. /\ TwoStage /\ s.built = Policy /\ s.givenUp = {}
      /\ \A p \in Policy : c[s.id].full[p] = 0
      /\ IsInjective(s.buffer) /\ Range(s.buffer) = s.queue.evaluated
  BY <1>1, <1>2 DEF StageOK
<1>4. Policy = s.queue.evaluated \cup Dropped(s.queue) /\ s.queue.evaluated \cap Dropped(s.queue) = {}
  BY <1>1, <1>2, <1>3, CompleteQueue DEF OnePlaceEach
<1>5. u \in Seq(Policy) /\ IsInjective(u) /\ Range(u) = Range(s.buffer) \cap Survivor
  BY <1>1, <1>3, KeepOnlyProperties, QueueAssumption
<1>6. Range(u) = Survivor \ Dropped(s.queue) /\ Range(u) \subseteq Policy /\ Dropped(s.queue) \subseteq Policy
  BY <1>3, <1>4, <1>5, DispatcherAssumption
<1>7. /\ QueueInv(q, Range(u), 0)
      /\ q.inFlight = [b \in {} |-> {}] /\ q.evaluated = {} /\ q.pending = u
  BY <1>5, NewQueueProperties DEF NewQueue
<1>8. t = [s EXCEPT !.stage = "fine", !.queue = q, !.buffer = <<>>, !.built = Range(u),
                    !.prior = 0, !.givenUp = s.givenUp \cup Dropped(s.queue)]
  BY DEF FineSession
<1> DEFINE B == Range(u)
           G == s.givenUp \cup Dropped(s.queue)
<1>9. B \subseteq Policy /\ G \subseteq Policy
  BY <1>3, <1>6
<1> HIDE DEF q, u, t, B, G
<1>10. /\ t.id = s.id /\ t.stage = "fine" /\ t.queue = q /\ t.buffer = <<>>
       /\ t.built = B /\ t.prior = 0 /\ t.givenUp = G
       /\ t \in [ id : SessionId, stage : {"single", "coarse", "fine"}, queue : {t.queue},
                  buffer : Seq(Policy), built : SUBSET Policy, prior : Nat,
                  givenUp : SUBSET Policy ]
  <2>1. t = [s EXCEPT !.stage = "fine", !.queue = q, !.buffer = <<>>, !.built = B,
                      !.prior = 0, !.givenUp = G]
    BY <1>8 DEF B, G
  <2>2. s \in [ id : SessionId, stage : {"single", "coarse", "fine"}, queue : {s.queue},
                buffer : Seq(Policy), built : SUBSET Policy, prior : Nat,
                givenUp : SUBSET Policy ]
    BY DEF SessionOK
  <2> QED
    BY <2>1, <2>2, <1>9, EmptyList
<1>11. DOMAIN q.inFlight = {} /\ InFlightPolicies(q) = {}
  <2>1. DOMAIN q.inFlight = {}
    BY <1>7
  <2> QED
    BY <2>1 DEF InFlightPolicies
<1>12. StageOK(t, c[s.id])
  BY <1>3, <1>6, <1>7, <1>10, <1>11 DEF StageOK, B, G
<1>13. QueueInv(t.queue, t.built, t.prior)
  BY <1>7, <1>10 DEF B
<1>14. SessionOK(t, c)
  BY <1>1, <1>10, <1>12, <1>13 DEF SessionOK
<1> QED
  BY <1>10, <1>11, <1>14 DEF t

(* A session that starts.                                                  *)
LEMMA NewSessionOK ==
  ASSUME NEW c, NEW id \in SessionId, NEW stage \in {"single", "coarse"},
         NEW policies \in Seq(Policy), IsInjective(policies), NEW prior \in Nat,
         c[id].opened, c[id].summary = "none",
         \A p \in Policy : p \in Range(policies) \/ c[id].full[p] > 0,
         \A p \in Range(policies) : c[id].full[p] = 0,
         stage = "coarse" => TwoStage /\ Range(policies) = Policy
  PROVE  LET s == NewSession(id, stage, policies, prior)
         IN  /\ SessionOK(s, c) /\ s.id = id
             /\ DOMAIN s.queue.inFlight = {}
<1> DEFINE s == NewSession(id, stage, policies, prior)
           q == NewQueue(policies, prior)
<1>1. /\ QueueInv(q, Range(policies), prior)
      /\ q.inFlight = [b \in {} |-> {}] /\ q.evaluated = {} /\ q.pending = policies
  BY NewQueueProperties DEF NewQueue
<1>2. DOMAIN q.inFlight = {} /\ InFlightPolicies(q) = {}
  <2>1. DOMAIN q.inFlight = {}
    BY <1>1
  <2> QED
    BY <2>1 DEF InFlightPolicies
<1>3. Range(policies) \subseteq Policy
  BY LenProperties DEF Range
<1> HIDE DEF q
<1> DEFINE B == Range(policies)
<1>4. s = [ id |-> id, stage |-> stage, queue |-> q, buffer |-> <<>>, built |-> B,
            prior |-> prior, givenUp |-> {} ]
  BY DEF NewSession, q
<1> HIDE DEF s, B
<1>5. /\ s.id = id /\ s.stage = stage /\ s.queue = q /\ s.buffer = <<>>
      /\ s.built = B /\ s.prior = prior /\ s.givenUp = {}
      /\ s \in [ id : SessionId, stage : {"single", "coarse", "fine"}, queue : {s.queue},
                 buffer : Seq(Policy), built : SUBSET Policy, prior : Nat,
                 givenUp : SUBSET Policy ]
  <2>1. B \subseteq Policy
    BY <1>3 DEF B
  <2> QED
    BY <1>4, <2>1, EmptyList
<1>6. StageOK(s, c[id])
  BY <1>1, <1>2, <1>5, EmptyList DEF StageOK, B
<1>7. SessionOK(s, c)
  BY <1>1, <1>5, <1>6 DEF SessionOK, B
<1> QED
  BY <1>2, <1>5, <1>7 DEF s

(* Session s after its batch b came back with the evaluations u, and what  *)
(* that does to its files: f becomes f2.                                   *)
Finished(s, b, u) ==
  [s EXCEPT !.queue = CompleteBatch(s.queue, b),
            !.buffer = IF s.stage = "coarse" THEN s.buffer \o u ELSE s.buffer]

Recorded(s, b, f, f2) ==
  \A p \in Policy : f2.full[p] = f.full[p] +
    IF s.stage # "coarse" /\ p \in PoliciesOf(s.queue, b) THEN 1 ELSE 0

(* A batch completed: outside the coarse stage its policies are on disk by *)
(* then.                                                                   *)
LEMMA CompleteKeepsSession ==
  ASSUME NEW s, NEW c, SessionOK(s, c), NEW b \in DOMAIN s.queue.inFlight,
         NEW u \in Seq(Policy), IsInjective(u), Range(u) = PoliciesOf(s.queue, b),
         NEW c2, c2[s.id].opened, c2[s.id].summary = "none",
         \A p \in Policy : c[s.id].full[p] \in Nat,
         Recorded(s, b, c[s.id], c2[s.id])
  PROVE  SessionOK(Finished(s, b, u), c2)
<1> DEFINE q == CompleteBatch(s.queue, b)
           v == IF s.stage = "coarse" THEN s.buffer \o u ELSE s.buffer
           t == [s EXCEPT !.queue = q, !.buffer = v]
           P == PoliciesOf(s.queue, b)
           f == c[s.id]
           f2 == c2[s.id]
<1>1. /\ QueueInv(s.queue, s.built, s.prior) /\ s.prior \in Nat
      /\ QueueTypeOK(s.queue) /\ BatchesDisjoint(s.queue)
      /\ OnePlaceEach(s.queue, s.built) /\ StageOK(s, f)
      /\ s.buffer \in Seq(Policy) /\ s.stage \in {"single", "coarse", "fine"}
  BY QueueOf
<1>2. QueueInv(q, s.built, s.prior)
  BY <1>1, CompleteBatchKeepsInv
<1>3. /\ DOMAIN q.inFlight = DOMAIN s.queue.inFlight \ {b}
      /\ \A d \in DOMAIN q.inFlight : q.inFlight[d] = s.queue.inFlight[d]
      /\ q.pending = s.queue.pending
      /\ q.evaluated = s.queue.evaluated \cup P /\ P \subseteq Policy
  BY <1>1, CompleteBatchFields
<1>4. P \subseteq InFlightPolicies(s.queue)
  BY DEF InFlightPolicies
<1>5. /\ P \cap s.queue.evaluated = {} /\ P \cap Range(q.pending) = {}
      /\ Range(q.pending) \subseteq Policy /\ s.queue.evaluated \subseteq Policy
  <2>1. \A x \in Seq(Policy) : Range(x) \subseteq Policy
    BY LenProperties DEF Range
  <2> QED
    BY <2>1, <1>1, <1>3, <1>4 DEF OnePlaceEach, QueueTypeOK
<1> HIDE DEF q, P
<1>6. InFlightPolicies(q) \subseteq InFlightPolicies(s.queue) /\ InFlightPolicies(q) \cap P = {}
  <2>1. \A d \in DOMAIN q.inFlight :
          /\ PoliciesOf(q, d) = PoliciesOf(s.queue, d)
          /\ d \in DOMAIN s.queue.inFlight /\ d # b
    BY <1>3 DEF PoliciesOf
  <2>2. \A d \in DOMAIN s.queue.inFlight : d # b => PoliciesOf(s.queue, d) \cap P = {}
    BY <1>1 DEF BatchesDisjoint, P
  <2> QED
    BY <2>1, <2>2 DEF InFlightPolicies
<1>7. InFlightPolicies(q) \subseteq Policy
  BY <1>6, <1>1, RequeueOrderTotal
<1>8. /\ v \in Seq(Policy)
      /\ s.stage = "coarse" => IsInjective(v) /\ Range(v) = q.evaluated
  <2>1. CASE s.stage = "coarse"
    <3>1. IsInjective(s.buffer) /\ Range(s.buffer) = s.queue.evaluated
      BY <1>1, <2>1 DEF StageOK
    <3>2. Range(u) = P
      BY DEF P
    <3>3. v = s.buffer \o u
      BY <2>1
    <3> HIDE DEF v
    <3> QED
      BY <1>1, <1>3, <1>5, <3>1, <3>2, <3>3, JoinSequences
  <2>2. CASE s.stage # "coarse"
    BY <1>1, <2>2
  <2> QED
    BY <2>1, <2>2
<1> HIDE DEF v, t
<1>9. /\ t.id = s.id /\ t.stage = s.stage /\ t.queue = q /\ t.buffer = v
      /\ t.built = s.built /\ t.prior = s.prior /\ t.givenUp = s.givenUp
      /\ t \in [ id : SessionId, stage : {"single", "coarse", "fine"}, queue : {t.queue},
                 buffer : Seq(Policy), built : SUBSET Policy, prior : Nat,
                 givenUp : SUBSET Policy ]
  BY <1>8 DEF SessionOK, t
<1>10. \A p \in Policy : /\ f.full[p] \in Nat
                         /\ s.stage = "coarse" \/ p \notin P => f2.full[p] = f.full[p]
                         /\ s.stage # "coarse" /\ p \in P => f2.full[p] = f.full[p] + 1
  BY DEF P, Recorded
<1> HIDE DEF f, f2
<1>11. StageOK(t, f2)
  <2>1. t.stage = "single" => \A p \in Policy : p \in t.built \/ f2.full[p] > 0
    BY <1>1, <1>9, <1>10 DEF StageOK
  <2>2. t.stage = "coarse" =>
          /\ TwoStage /\ t.built = Policy /\ t.givenUp = {}
          /\ \A p \in Policy : f2.full[p] = 0
          /\ IsInjective(t.buffer) /\ Range(t.buffer) = t.queue.evaluated
    BY <1>1, <1>8, <1>9, <1>10 DEF StageOK
  <2>3. t.stage = "fine" => TwoStage /\ t.built = Survivor \ t.givenUp
    BY <1>1, <1>9 DEF StageOK
  <2>4. ASSUME t.stage # "coarse", NEW p \in t.queue.evaluated PROVE f2.full[p] > 0
    <3>1. s.stage # "coarse" /\ p \in s.queue.evaluated \cup P /\ p \in Policy
      BY <2>4, <1>3, <1>5, <1>9
    <3>2. CASE p \in P
      BY <3>1, <3>2, <1>10
    <3>3. CASE p \in s.queue.evaluated
      <4>1. f.full[p] > 0 /\ p \notin P
        BY <3>1, <3>3, <1>1, <1>5 DEF StageOK
      <4> QED
        BY <4>1, <3>1, <1>10
    <3> QED
      BY <3>1, <3>2, <3>3
  <2>5. ASSUME t.stage # "coarse", NEW p \in Range(t.queue.pending) \cup InFlightPolicies(t.queue)
        PROVE  f2.full[p] = 0
    BY <2>5, <1>1, <1>3, <1>5, <1>6, <1>7, <1>9, <1>10 DEF StageOK
  <2> QED
    BY <2>1, <2>2, <2>3, <2>4, <2>5 DEF StageOK
<1>12. SessionOK(t, c2)
  BY <1>2, <1>9, <1>11 DEF SessionOK, f2
<1> QED
  BY <1>12 DEF t, q, v, Finished
-----------------------------------------------------------------------------
(* What a pump makes of what it is given. *)

LEMMA ReservationIsNat ==
  ASSUME NEW p \in Peer, NEW depth \in Nat \ {0}, NEW n \in Nat
  PROVE  ReservationFor(p, depth, n) \in Nat
<1>1. BatchShare(p, depth) \in Nat
  BY ShareIsPositive
<1> QED
  BY <1>1 DEF ReservationFor, LesserOf

(* A record that reserves no more, of a host that is measured if it was,   *)
(* or has nothing outstanding.                                             *)
LEMMA LesserRecord ==
  ASSUME NEW p \in Peer, NEW r, HostRecord(p, r), NEW rec, RecordType(rec),
         DOMAIN rec.reserved \subseteq DOMAIN r.reserved,
         rec.reserved = [b \in DOMAIN rec.reserved |-> r.reserved[b]],
         r.warmed => rec.warmed \/ DOMAIN rec.reserved = {}
  PROVE  HostRecord(p, rec)
<1> DEFINE D == DOMAIN r.reserved
           K == DOMAIN rec.reserved
           old == r.reserved
           new == rec.reserved
<1>1. /\ D \subseteq Nat /\ IsFiniteSet(D) /\ old \in [D -> Nat]
      /\ Cardinality(D) <= IF r.warmed THEN Depth[p] ELSE 1
      /\ Cardinality(SlotsOf(old)) < Workers[p] + BatchShare(p, Depth[p])
  BY DEF HostRecord, WithinCapacity
<1>2. /\ K \subseteq D /\ new = [b \in K |-> old[b]] /\ DOMAIN new = K
  OBVIOUS
<1>3. Depth[p] \in Nat \ {0} /\ Workers[p] \in Nat
  BY PumpAssumption
<1>4. BatchShare(p, Depth[p]) \in Nat
  BY <1>3, ShareIsPositive
<1> HIDE DEF D, K, old, new
<1>5. IsFiniteSet(K) /\ Cardinality(K) <= Cardinality(D) /\ Cardinality(K) \in Nat
      /\ Cardinality(D) \in Nat
  BY <1>1, <1>2, FS_Subset, FS_CardinalityType
<1>6. new \in [K -> Nat]
  BY <1>1, <1>2
<1>7. /\ Cardinality(SlotsOf(new)) \in Nat
      /\ Cardinality(SlotsOf(new)) <= Cardinality(SlotsOf(old))
  <2>1. DOMAIN new \subseteq D /\ \A b \in DOMAIN new : new[b] = old[b]
    BY <1>2
  <2> QED
    BY <1>1, <2>1, SlotsShrink
<1>8. IsFiniteSet(D) /\ Cardinality(SlotsOf(old)) \in Nat
  BY <1>1, SlotsFinite
<1>9. Cardinality(SlotsOf(new)) < Workers[p] + BatchShare(p, Depth[p])
  BY <1>1, <1>3, <1>4, <1>7, <1>8
<1>10. Cardinality(K) <= IF rec.warmed THEN Depth[p] ELSE 1
  <2>1. CASE K = {}
    BY <2>1, <1>3, FS_EmptySet
  <2>2. CASE K # {}
    <3>1. r.warmed => rec.warmed
      BY <2>2 DEF K
    <3> QED
      BY <3>1, <1>1, <1>3, <1>5
  <2> QED
    BY <2>1, <2>2
<1>11. K \subseteq Nat
  BY <1>1, <1>2
<1> QED
  BY <1>5, <1>6, <1>9, <1>10, <1>11 DEF HostRecord, WithinCapacity, K, new

(* The record of a host nothing is known of. *)
LEMMA FreshHostOK ==
  /\ RecordType(FreshHost) /\ \A p \in Peer : HostRecord(p, FreshHost)
  /\ FreshHost.reserved = NoSlots
  /\ DOMAIN FreshHost.reserved = {} /\ DOMAIN NoSlots = {}
  /\ NoSlots = [b \in {} |-> 0]
<1>1. NoSlots \in [{} -> Nat] /\ DOMAIN NoSlots = {}
  BY DEF NoSlots
<1>2. FreshHost.reserved = NoSlots /\ RecordType(FreshHost) /\ FreshHost.warmed = FALSE
  BY DispatcherAssumption DEF RecordType, FreshHost
<1>3. SlotsOf(NoSlots) = {}
  BY <1>1, SlotsMember
<1>4. /\ IsFiniteSet(DOMAIN NoSlots) /\ Cardinality(DOMAIN NoSlots) = 0
      /\ Cardinality(SlotsOf(NoSlots)) = 0
  BY <1>1, <1>3, FS_EmptySet
<1>5. ASSUME NEW p \in Peer PROVE WithinCapacity(p, FreshHost)
  <2>1. Depth[p] \in Nat \ {0} /\ Workers[p] \in Nat
    BY PumpAssumption
  <2>2. BatchShare(p, Depth[p]) \in Nat \ {0}
    BY <2>1, ShareIsPositive
  <2> QED
    BY <1>2, <1>4, <2>1, <2>2 DEF WithinCapacity
<1> QED
  BY <1>1, <1>2, <1>4, <1>5 DEF HostRecord, NoSlots

(* What a pump gives a host stays within its capacity.                     *)
LEMMA HandoutWithinCapacity ==
  ASSUME NEW q, Len(q.pending) \in Nat, q.nextBatchSeq \in Nat,
         NEW h, NEW hosts \in SUBSET Peer, NEW to \in Handouts(q, h, hosts),
         NEW p \in hosts, HostRecord(p, h[p]), BatchesFor(q, to, p) # {},
         NEW rec, rec.warmed = h[p].warmed,
         rec.reserved =
           [b \in DOMAIN h[p].reserved \cup BatchesFor(q, to, p) |->
              IF b \notin BatchesFor(q, to, p) THEN h[p].reserved[b]
              ELSE ReservationFor(p, TargetDepth(h, hosts, p), SizeOf(to, BatchEnd(q, to, b)))]
  PROVE  IsFiniteSet(DOMAIN rec.reserved) /\ WithinCapacity(p, rec)
<1> DEFINE E   == DOMAIN to
           Ep  == {e \in E : to[e] = p}
           T   == TargetDepth(h, hosts, p)
           old == h[p].reserved
           D   == DOMAIN old
           new == BatchesFor(q, to, p)
           res(e) == ReservationFor(p, T, SizeOf(to, e))
           all == [e \in Ep |-> res(e)]
           got == [b \in new |-> res(BatchEnd(q, to, b))]
           name == [e \in Ep |-> BatchSeq(q, to, e)]
<1>1. /\ D \subseteq Nat /\ IsFiniteSet(D) /\ old \in [D -> Nat]
      /\ h[p].warmed \in BOOLEAN
  BY DEF HostRecord, RecordType
<1>2. Cuts(q, hosts, to)
  BY DEF Handouts, Cuts
<1>3. \A e \in E : BatchEnd(q, to, BatchSeq(q, to, e)) = e
  BY <1>2, NewIds
<1>4. new = {name[e] : e \in Ep} /\ \E e \in E : to[e] = p
  BY DEF BatchesFor
<1>5. /\ IsFiniteSet(Ep) /\ Cardinality(Ep) \in Nat /\ Cardinality(Ep) # 0
      /\ NeedsWarmup(h, hosts) => ~h[p].warmed
      /\ Cardinality(D) + Cardinality(Ep) <= T
      /\ Cardinality(SlotsOf(old)) + Cardinality(SlotsOf(all)) < Workers[p] + BatchShare(p, T)
      /\ Cardinality(SlotsOf(all)) \in Nat /\ Cardinality(SlotsOf(old)) \in Nat
      /\ Workers[p] \in Nat \ {0}
      /\ Cardinality(Ep) = 1 => Cardinality(SlotsOf(all)) <= BatchShare(p, T)
  <2>1. /\ SlotsReserved(h, p) = Cardinality(SlotsOf(old))
        /\ SlotsTaken(h, hosts, to, p, E) = Cardinality(SlotsOf(all))
    BY DEF SlotsReserved, SlotsTaken
  <2>2. Fits(h, hosts, to, p)
    BY <1>1, <1>4, HandoutFits
  <2> DEFINE taken == SlotsTaken(h, hosts, to, p, E)
  <2>3. /\ IsFiniteSet(Ep) /\ Cardinality(Ep) \in Nat \ {0}
        /\ taken \in Nat /\ SlotsReserved(h, p) \in Nat /\ Workers[p] \in Nat \ {0}
        /\ NeedsWarmup(h, hosts) => ~h[p].warmed
        /\ Cardinality(D) + Cardinality(Ep) <= T
        /\ SlotsReserved(h, p) + taken < Workers[p] + BatchShare(p, T)
        /\ Cardinality(Ep) = 1 => taken <= BatchShare(p, T)
    BY <2>2 DEF Fits
  <2> HIDE DEF Ep, D, T, all, old
  <2> QED
    BY <2>1, <2>3
<1>6. all \in [Ep -> Nat]
  <2>1. T \in Nat \ {0}
    BY PumpAssumption DEF TargetDepth
  <2>2. ASSUME NEW e \in Ep PROVE SizeOf(to, e) \in Nat
    <3>1. CutBefore(to, e) \in 0 .. e - 1 /\ e \in 1 .. Len(q.pending)
      BY <1>2, CutsPart
    <3> QED
      BY <3>1 DEF SizeOf
  <2> HIDE DEF T
  <2>3. \A e \in Ep : res(e) \in Nat
    BY <2>1, <2>2, ReservationIsNat
  <2> HIDE DEF res, Ep
  <2> QED
    BY <2>3
<1> HIDE DEF res, T
<1>7. \A e \in Ep : name[e] \in new /\ got[name[e]] = all[e]
  BY <1>3, <1>4
<1>8. got \in [new -> Nat]
  <2>1. \A b \in new : got[b] \in Nat
    <3> HIDE DEF got, all, new, name, Ep
    <3> QED
      BY <1>4, <1>6, <1>7
  <2> QED
    BY <2>1
<1>9. IsFiniteSet(new) /\ Cardinality(new) <= Cardinality(Ep) /\ Cardinality(new) \in Nat
  <2>1. DOMAIN name = Ep
    OBVIOUS
  <2>2. name = [e \in Ep |-> name[e]]
    OBVIOUS
  <2> HIDE DEF name, new, Ep
  <2>3. name \in Surjection(Ep, new)
    BY <1>4, <2>1, <2>2 DEF Surjection
  <2>4. IsFiniteSet(new) /\ Cardinality(new) <= Cardinality(Ep)
    BY <1>5, <2>3, FS_Surjection
  <2> QED
    BY <2>4, FS_CardinalityType
<1>10. Cardinality(SlotsOf(got)) <= Cardinality(SlotsOf(all)) /\ Cardinality(SlotsOf(got)) \in Nat
  <2>1. name \in [Ep -> new]
    BY <1>7
  <2>2. /\ \A b \in new : \E e \in Ep : b = name[e]
        /\ \A e \in Ep : got[name[e]] = all[e]
    <3> HIDE DEF name, got, all, new, Ep
    <3> QED
      BY <1>4, <1>7
  <2>3. IsFiniteSet(Ep)
    BY <1>5
  <2> HIDE DEF name, got, all, new, Ep
  <2> QED
    BY ONLY <1>6, <1>8, <2>1, <2>2, <2>3, SlotsRenamed
<1> DEFINE w == rec.reserved
<1>11. /\ DOMAIN w = D \cup new
       /\ \A b \in D \ new : w[b] = old[b]
       /\ \A b \in new : w[b] = got[b]
  BY DEF res, T
<1> HIDE DEF w, got, all, new, Ep, D, old, name
<1>12. /\ Cardinality(SlotsOf(w)) \in Nat
       /\ Cardinality(SlotsOf(w)) <= Cardinality(SlotsOf(old)) + Cardinality(SlotsOf(got))
  BY <1>1, <1>8, <1>9, <1>11, SlotsJoin
<1>13. /\ IsFiniteSet(DOMAIN w) /\ Cardinality(DOMAIN w) \in Nat
       /\ Cardinality(DOMAIN w) <= Cardinality(D) + Cardinality(new)
       /\ Cardinality(D) \in Nat
  <2>1. /\ IsFiniteSet(D \cup new)
        /\ Cardinality(D \cup new) = Cardinality(D) + Cardinality(new) - Cardinality(D \cap new)
    BY <1>1, <1>9, FS_Union
  <2>2. Cardinality(D \cap new) \in Nat /\ Cardinality(D) \in Nat
    BY <1>1, FS_Intersection, FS_CardinalityType
  <2> QED
    BY <1>9, <1>11, <2>1, <2>2, FS_CardinalityType
<1>14. /\ Depth[p] \in Nat \ {0} /\ BatchShare(p, Depth[p]) \in Nat \ {0}
  <2>1. Depth[p] \in Nat \ {0}
    BY PumpAssumption
  <2> QED
    BY <2>1, ShareIsPositive
<1>15. CASE NeedsWarmup(h, hosts)
  <2>1. T = 1 /\ ~rec.warmed
    BY <1>5, <1>15 DEF TargetDepth, T
  <2>2. BatchShare(p, T) = Workers[p]
    <3>1. Workers[p] \in Nat \ {0}
      BY <1>5
    <3> DEFINE x == Workers[p]
    <3>2. BatchShare(p, T) = (x + 1 - 1) \div 1
      BY <2>1, <3>1 DEF BatchShare, Ceil
    <3> HIDE DEF x
    <3>3. x \in Nat => (x + 1 - 1) \div 1 = x
      OBVIOUS
    <3> QED
      BY <3>1, <3>2, <3>3 DEF x
  <2>3. Cardinality(D) = 0 /\ Cardinality(Ep) = 1
    BY <1>5, <1>13, <2>1
  <2>4. Cardinality(SlotsOf(old)) = 0
    <3>1. D = {}
      BY <1>1, <2>3, FS_EmptySet
    <3>2. SlotsOf(old) = {}
      BY <3>1, SlotsMember DEF D
    <3> QED
      BY <3>2, FS_EmptySet
  <2>5. Cardinality(DOMAIN w) <= 1
    BY <2>3, <1>9, <1>13
  <2>6. Cardinality(SlotsOf(w)) <= Workers[p]
    BY <1>5, <1>10, <1>12, <2>2, <2>3, <2>4
  <2>7. Cardinality(SlotsOf(w)) < Workers[p] + BatchShare(p, Depth[p])
    BY <1>5, <1>12, <1>14, <2>6
  <2> QED
    BY <1>13, <2>1, <2>5, <2>7 DEF WithinCapacity, w
<1>16. CASE ~NeedsWarmup(h, hosts)
  <2>1. h[p].warmed
    BY <1>16 DEF NeedsWarmup
  <2>2. T = Depth[p] /\ rec.warmed
    BY <1>16, <2>1 DEF TargetDepth, T
  <2>3. Cardinality(DOMAIN w) <= Depth[p]
    BY <1>5, <1>9, <1>13, <1>14, <2>2
  <2>4. Cardinality(SlotsOf(w)) < Workers[p] + BatchShare(p, Depth[p])
    <3>1. Cardinality(SlotsOf(w)) <= Cardinality(SlotsOf(old)) + Cardinality(SlotsOf(all))
      BY <1>5, <1>10, <1>12
    <3> QED
      BY <3>1, <1>5, <1>12, <1>14, <2>2
  <2> QED
    BY <1>13, <2>2, <2>3, <2>4 DEF WithinCapacity, w
<1> QED
  BY <1>15, <1>16

(* The slots of the new batches are reserved on their hosts.               *)
LEMMA ReserveFields ==
  ASSUME NEW q, QueueTypeOK(q), NEW live \in SUBSET Peer, NEW hosts \in SUBSET live,
         NEW h, NEW to \in Handouts(q, h, hosts), HostsOK(h, live)
  PROVE  /\ HostsOK(Reserve(q, h, hosts, to), live)
         /\ \A p \in Peer : DOMAIN Reserve(q, h, hosts, to)[p].reserved
                              = DOMAIN h[p].reserved \cup BatchesFor(q, to, p)
<1> DEFINE r == Reserve(q, h, hosts, to)
           E == DOMAIN to
<1>1. Len(q.pending) \in Nat /\ q.nextBatchSeq \in Nat
  BY LenProperties DEF QueueTypeOK
<1>1a. Cuts(q, hosts, to)
  BY DEF Handouts, Cuts
<1>2. \A e \in E : /\ CutBefore(to, e) \in 0 .. e - 1 /\ e \in 1 .. Len(q.pending)
                   /\ to[e] \in hosts
  BY <1>1, <1>1a, CutsPart DEF Cuts
<1>3. /\ Cardinality(E) \in Nat
      /\ \A e \in E : BatchSeq(q, to, e) \in q.nextBatchSeq + 1 .. q.nextBatchSeq + Cardinality(E)
      /\ \A e \in E : BatchEnd(q, to, BatchSeq(q, to, e)) = e
  BY <1>1, <1>1a, NewIds
<1>4. \A e \in E : BatchSeq(q, to, e) \in Nat /\ SizeOf(to, e) \in Nat
  <2> TAKE e \in E
  <2>1. BatchSeq(q, to, e) \in Nat
    <3>1. BatchSeq(q, to, e) \in q.nextBatchSeq + 1 .. q.nextBatchSeq + Cardinality(E)
      BY <1>3
    <3> HIDE DEF E
    <3> QED
      BY <3>1, <1>1, <1>3
  <2>2. CutBefore(to, e) \in 0 .. e - 1 /\ e \in Nat
    BY <1>1, <1>2
  <2> QED
    BY <2>1, <2>2 DEF SizeOf
<1>5. ASSUME NEW p \in Peer
      PROVE  /\ HostRecord(p, r[p])
             /\ DOMAIN r[p].reserved = DOMAIN h[p].reserved \cup BatchesFor(q, to, p)
             /\ p \notin live => r[p] = h[p]
  <2> DEFINE old == h[p].reserved
             new == BatchesFor(q, to, p)
             D   == DOMAIN old \cup new
             slots(b) == ReservationFor(p, TargetDepth(h, hosts, p), SizeOf(to, BatchEnd(q, to, b)))
             g   == [b \in D |-> IF b \notin new THEN old[b] ELSE slots(b)]
  <2>1. r[p] = IF new = {} THEN h[p] ELSE [h[p] EXCEPT !.reserved = g]
    BY DEF Reserve, HostsOK
  <2>2. HostRecord(p, h[p])
    BY DEF HostsOK
  <2>3. \A b \in new : \E e \in E : b = BatchSeq(q, to, e) /\ to[e] = p
    BY DEF BatchesFor
  <2>4. \A b \in new : b \in Nat /\ slots(b) \in Nat
    <3> TAKE b \in new
    <3>1. PICK e \in E : b = BatchSeq(q, to, e)
      BY <2>3
    <3>2. BatchEnd(q, to, b) = e
      BY <1>3, <3>1
    <3>3. TargetDepth(h, hosts, p) \in Nat \ {0}
      BY PumpAssumption DEF TargetDepth
    <3>4. b \in Nat /\ SizeOf(to, BatchEnd(q, to, b)) \in Nat
      BY <1>4, <3>1, <3>2
    <3> QED
      BY <3>3, <3>4, ReservationIsNat
  <2> HIDE DEF slots, new
  <2>5. g \in [D -> Nat] /\ D \subseteq Nat
    BY <2>2, <2>4 DEF HostRecord
  <2>6. CASE new = {}
    <3>1. r[p] = h[p] /\ D = DOMAIN old
      BY <2>1, <2>6
    <3> QED
      BY <3>1, <2>2 DEF new
  <2>7. CASE new # {}
    <3>1. r[p] = [h[p] EXCEPT !.reserved = g]
      BY <2>1, <2>7
    <3> HIDE DEF g, D, r
    <3>2. r[p].reserved = g /\ r[p].warmed = h[p].warmed /\ RecordType(r[p])
      BY <2>2, <3>1 DEF HostRecord, RecordType
    <3>3. DOMAIN g = D
      BY <2>5
    <3>5. p \in live /\ p \in hosts
      BY <2>3, <2>7, <1>2
    <3>6. IsFiniteSet(DOMAIN r[p].reserved) /\ WithinCapacity(p, r[p])
      <4>1. hosts \in SUBSET Peer
        OBVIOUS
      <4>2. r[p].reserved =
              [b \in DOMAIN h[p].reserved \cup BatchesFor(q, to, p) |->
                 IF b \notin BatchesFor(q, to, p) THEN h[p].reserved[b]
                 ELSE ReservationFor(p, TargetDepth(h, hosts, p),
                                     SizeOf(to, BatchEnd(q, to, b)))]
        BY <3>2 DEF g, D, slots, new
      <4>3. BatchesFor(q, to, p) # {}
        BY <2>7 DEF new
      <4> QED
        BY <1>1, <2>2, <3>2, <3>5, <4>1, <4>2, <4>3, HandoutWithinCapacity
    <3>4. HostRecord(p, r[p])
      BY <2>5, <3>2, <3>3, <3>6 DEF HostRecord
    <3> QED
      BY <3>2, <3>3, <3>4, <3>5 DEF D, new
  <2> QED
    BY <2>6, <2>7
<1>6. DOMAIN r = Peer /\ r = [p \in Peer |-> r[p]]
  BY DEF Reserve, HostsOK
<1> HIDE DEF r
<1>7. \A p \in Peer \ live : r[p] = FreshHost
  BY <1>5 DEF HostsOK
<1> QED
  BY <1>5, <1>6, <1>7 DEF HostsOK, r

(* The messages about the batches of a handout. *)
Sent(s, q, to) == {Assignment(s, q, b) : b \in NewBatches(s.queue, to)}

(* A pump that hands out batches.                                          *)
LEMMA HandOutKeepsReady ==
  ASSUME NEW s, NEW h, NEW m, NEW c, NEW live, NEW next, Ready(s, h, m, c, live, next),
         NEW to \in Handouts(s.queue, h, Dispatchable(h, live))
  PROVE  Ready([s EXCEPT !.queue = HandOut(s.queue, to)],
               Reserve(s.queue, h, Dispatchable(h, live), to),
               m \cup Sent(s, HandOut(s.queue, to), to),
               c, live, next)
<1> DEFINE q == HandOut(s.queue, to)
           hosts == Dispatchable(h, live)
           t == [s EXCEPT !.queue = q]
           r == Reserve(s.queue, h, hosts, to)
           sent == Sent(s, q, to)
<1>1. /\ live \in SUBSET Peer /\ next \in 1 .. MaxSessions + 1
      /\ SessionOK(s, c) /\ s.id < next /\ HostsOK(h, live) /\ BooksAgree(s.queue, h, live)
      /\ MessagesOK(m, next) /\ MessagesFit(s, m) /\ CorpusOK(c) /\ Held(c, s.id, next)
  BY DEF Ready
<1>2. hosts \in SUBSET live
  BY DEF Dispatchable
<1> HIDE DEF hosts
<1>3. Cuts(s.queue, hosts, to)
  <2>1. to \in UNION {[E -> hosts] : E \in SUBSET (1 .. Len(s.queue.pending))}
    BY DEF Handouts, hosts
  <2> QED
    BY <2>1 DEF Cuts
<1>4. SessionOK(t, c) /\ HandedOut(s.queue, q, to)
  <2>1. hosts \in SUBSET Peer
    BY <1>1, <1>2
  <2> QED
    BY <1>1, <1>3, <2>1, HandOutKeepsSession
<1>5. QueueTypeOK(s.queue) /\ s.id \in SessionId
  BY <1>1, QueueOf
<1>6. /\ HostsOK(r, live)
      /\ \A p \in Peer : DOMAIN r[p].reserved
                           = DOMAIN h[p].reserved \cup BatchesFor(s.queue, to, p)
  <2> DEFINE x == s.queue
  <2>1. QueueTypeOK(x) /\ to \in Handouts(x, h, hosts) /\ HostsOK(h, live)
    BY <1>1, <1>5 DEF hosts
  <2>2. live \in SUBSET Peer /\ hosts \in SUBSET live
    BY <1>1, <1>2
  <2>3. r = Reserve(x, h, hosts, to)
    OBVIOUS
  <2> HIDE DEF x, r
  <2>4. /\ HostsOK(Reserve(x, h, hosts, to), live)
        /\ \A p \in Peer : DOMAIN Reserve(x, h, hosts, to)[p].reserved
                             = DOMAIN h[p].reserved \cup BatchesFor(x, to, p)
    BY <2>1, <2>2, ReserveFields
  <2> QED
    BY <2>3, <2>4 DEF x
<1>7. t.id = s.id /\ t.stage = s.stage /\ t.queue = q
  BY <1>1, SwapQueue
<1> DEFINE old == s.queue
           new == NewBatches(old, to)
           E   == DOMAIN to
<1>8. /\ new \cap DOMAIN old.inFlight = {}
      /\ new \subseteq old.nextBatchSeq + 1 .. q.nextBatchSeq
      /\ DOMAIN q.inFlight = DOMAIN old.inFlight \cup new
      /\ \A b \in DOMAIN old.inFlight : q.inFlight[b] = old.inFlight[b]
      /\ \A e \in E : q.inFlight[BatchSeq(old, to, e)]
                        = [peer |-> to[e], policies |-> PoliciesUpTo(old, to, e)]
      /\ q.nextBatchSeq \in Nat /\ old.nextBatchSeq <= q.nextBatchSeq
      /\ QueueTypeOK(q)
  BY <1>4 DEF HandedOut
<1>9. old.nextBatchSeq \in Nat /\ DOMAIN old.inFlight \subseteq 1 .. old.nextBatchSeq
  BY <1>5 DEF QueueTypeOK
<1>10. \A b \in new : \E e \in E : b = BatchSeq(old, to, e)
  BY DEF NewBatches
<1>11. \A e \in E : BatchSeq(old, to, e) \in new /\ to[e] \in hosts
  BY <1>3 DEF NewBatches, Cuts
<1>12. \A p \in Peer : BatchesFor(old, to, p) = {b \in new : q.inFlight[b].peer = p}
  <2> TAKE p \in Peer
  <2>1. \A e \in E : q.inFlight[BatchSeq(old, to, e)].peer = to[e]
    <3> TAKE e \in E
    <3>1. q.inFlight[BatchSeq(old, to, e)]
            = [peer |-> to[e], policies |-> PoliciesUpTo(old, to, e)]
      BY <1>8
    <3> QED
      BY <3>1
  <2> QED
    BY <2>1, <1>10, <1>11 DEF BatchesFor
<1> HIDE DEF q, r, t, new, old, E, sent
<1>13. BooksAgree(q, r, live)
  <2>1. ASSUME NEW b \in DOMAIN q.inFlight PROVE q.inFlight[b].peer \in live
    <3>1. CASE b \in DOMAIN old.inFlight
      BY <3>1, <1>1, <1>8 DEF BooksAgree, old
    <3>2. CASE b \in new
      <4>1. PICK e \in E : b = BatchSeq(old, to, e)
        BY <3>2, <1>10
      <4>2. q.inFlight[b].peer = to[e]
        <5>1. q.inFlight[BatchSeq(old, to, e)]
                = [peer |-> to[e], policies |-> PoliciesUpTo(old, to, e)]
          BY <1>8
        <5> QED
          BY <4>1, <5>1
      <4> QED
        BY <4>2, <1>2, <1>11
    <3> QED
      BY <3>1, <3>2, <1>8
  <2>2. ASSUME NEW p \in live PROVE DOMAIN r[p].reserved = BatchesOf(q, p)
    <3>1. DOMAIN r[p].reserved = BatchesOf(old, p) \cup {b \in new : q.inFlight[b].peer = p}
      BY <1>1, <1>6, <1>12 DEF BooksAgree, old
    <3> QED
      BY <3>1, <1>8 DEF BatchesOf
  <2> QED
    BY <2>1, <2>2 DEF BooksAgree
<1>14. ASSUME NEW b \in new
       PROVE  /\ Assignment(s, q, b) \in Message
              /\ Assignment(s, q, b).session = s.id
              /\ MessageFits(t, Assignment(s, q, b))
  <2> DEFINE a == Assignment(s, q, b)
  <2>1. b \in DOMAIN q.inFlight /\ b \in 1 .. q.nextBatchSeq
    BY <1>8, <1>9
  <2>2. q.inFlight[b] \in Batch
    BY <2>1, <1>8 DEF QueueTypeOK
  <2>3. a = [ peer |-> q.inFlight[b].peer, session |-> s.id, batch |-> b,
              policies |-> q.inFlight[b].policies, coarse |-> (s.stage = "coarse") ]
    BY DEF Assignment
  <2>4. q.inFlight[b] = [peer |-> q.inFlight[b].peer, policies |-> q.inFlight[b].policies]
    BY <2>2 DEF Batch
  <2>5. a \in Message
    BY <2>1, <2>2, <2>3, <1>5, <1>8 DEF Message, Batch
  <2>6. /\ a.session = s.id /\ a.batch = b /\ (a.coarse <=> s.stage = "coarse")
        /\ a.peer = q.inFlight[b].peer /\ a.policies = q.inFlight[b].policies
    <3> HIDE DEF a
    <3> QED
      BY <2>3, Zenon
  <2>7. MessageFits(t, a)
    BY <2>1, <2>4, <2>6, <1>7 DEF MessageFits
  <2> QED
    BY <2>5, <2>6, <2>7
<1>15. ASSUME NEW a \in m, a.session = s.id PROVE MessageFits(t, a)
  <2>1. /\ a.batch \in 1 .. old.nextBatchSeq
        /\ a.coarse <=> s.stage = "coarse"
        /\ a.batch \in DOMAIN old.inFlight =>
             old.inFlight[a.batch] = [peer |-> a.peer, policies |-> a.policies]
        /\ TwoStage => a.batch \in DOMAIN old.inFlight
    BY <1>1, <1>15 DEF MessagesFit, MessageFits, old
  <2>2. a.batch \in 1 .. q.nextBatchSeq /\ a.batch \notin new
    BY <2>1, <1>8, <1>9
  <2> QED
    BY <2>1, <2>2, <1>7, <1>8 DEF MessageFits
<1>16. MessagesOK(m \cup sent, next) /\ MessagesFit(t, m \cup sent)
  <2>1. \A a \in sent : a \in Message /\ a.session = s.id /\ MessageFits(t, a)
    BY <1>14 DEF new, old, sent, Sent
  <2>2. MessagesFit(t, m \cup sent)
    BY <2>1, <1>7, <1>15 DEF MessagesFit
  <2> QED
    BY <2>1, <2>2, <1>1 DEF MessagesOK
<1>17. Ready(t, r, m \cup sent, c, live, next)
  BY <1>1, <1>4, <1>6, <1>7, <1>13, <1>16 DEF Ready
<1> QED
  BY <1>17 DEF t, r, q, hosts, sent

(* A host record whose measurement is forgotten. *)
LEMMA UnmeasuredHosts ==
  ASSUME NEW live \in SUBSET Peer, NEW h, HostsOK(h, live),
         \A p \in live : DOMAIN h[p].reserved = {}
  PROVE  /\ HostsOK(Unmeasured(h, live), live)
         /\ \A p \in Peer : Unmeasured(h, live)[p].reserved = h[p].reserved
<1> DEFINE r == Unmeasured(h, live)
<1>1. \A p \in Peer : HostRecord(p, h[p])
  BY DEF HostsOK
<1>2. \A p \in Peer : r[p] = IF p \in live THEN [h[p] EXCEPT !.warmed = FALSE] ELSE h[p]
  BY DEF Unmeasured
<1>3. DOMAIN r = Peer /\ r = [p \in Peer |-> r[p]]
  BY DEF Unmeasured
<1> HIDE DEF r
<1>4. ASSUME NEW p \in Peer
      PROVE  HostRecord(p, r[p]) /\ r[p].reserved = h[p].reserved
  <2>1. CASE p \in live
    <3>1. RecordType(h[p]) /\ h[p].reserved = [b \in DOMAIN h[p].reserved |-> h[p].reserved[b]]
      BY <1>1 DEF HostRecord
    <3>2. r[p].reserved = h[p].reserved /\ RecordType(r[p])
      BY <1>2, <2>1, <3>1 DEF RecordType
    <3> QED
      BY <1>1, <2>1, <3>1, <3>2, LesserRecord
  <2>2. CASE p \notin live
    BY <1>1, <1>2, <2>2
  <2> QED
    BY <2>1, <2>2
<1> QED
  BY <1>2, <1>3, <1>4 DEF HostsOK, r

(* The change of stage keeps everything in order: no coarse batch is out   *)
(* any more, so no message about one is left.                              *)
LEMMA FineKeepsReady ==
  ASSUME NEW s, NEW h, NEW m, NEW c, NEW live, NEW next, Ready(s, h, m, c, live, next),
         StageDone(s)
  PROVE  Ready(FineSession(s), Unmeasured(h, live), m, c, live, next)
<1> DEFINE t == FineSession(s)
           r == Unmeasured(h, live)
<1>1. /\ live \in SUBSET Peer /\ next \in 1 .. MaxSessions + 1
      /\ SessionOK(s, c) /\ s.id < next /\ HostsOK(h, live) /\ BooksAgree(s.queue, h, live)
      /\ MessagesOK(m, next) /\ MessagesFit(s, m) /\ CorpusOK(c) /\ Held(c, s.id, next)
  BY DEF Ready
<1>2. SessionOK(t, c) /\ t.id = s.id /\ DOMAIN t.queue.inFlight = {}
  BY <1>1, FineKeepsSession
<1>4. DOMAIN s.queue.inFlight = {} /\ TwoStage
  <2>1. IsComplete(s.queue) /\ s.stage = "coarse" /\ StageOK(s, c[s.id])
    BY <1>1, QueueOf DEF StageDone
  <2> QED
    BY <2>1, CompleteQueue DEF StageOK
<1>3. HostsOK(r, live) /\ \A p \in Peer : r[p].reserved = h[p].reserved
  <2>1. \A p \in live : DOMAIN h[p].reserved = {}
    BY <1>1, <1>4 DEF BooksAgree, BatchesOf
  <2> QED
    BY <1>1, <2>1, UnmeasuredHosts
<1> HIDE DEF t, r
<1>5. BooksAgree(t.queue, r, live)
  BY <1>1, <1>2, <1>3, <1>4 DEF BooksAgree, BatchesOf
<1>6. MessagesFit(t, m)
  BY <1>1, <1>2, <1>4 DEF MessagesFit, MessageFits
<1> QED
  BY <1>1, <1>2, <1>3, <1>5, <1>6 DEF Ready, t, r

(* The end of a session: its books are empty and its summary is true.      *)
LEMMA EndIsIdle ==
  ASSUME NEW s, NEW h, NEW m, NEW c, NEW live, NEW next, Ready(s, h, m, c, live, next),
         NEW state \in {"completed", "cancelled"},
         state = "completed" => IsComplete(s.queue) /\ s.stage # "coarse",
         EndSession(s, h, c, state, live)
  PROVE  /\ Idle(host', m, corpus', live, next, 0)
         /\ \A r \in SessionId : r # s.id => corpus'[r] = c[r]
<1>1. /\ live \in SUBSET Peer /\ next \in 1 .. MaxSessions + 1
      /\ SessionOK(s, c) /\ s.id < next /\ HostsOK(h, live)
      /\ MessagesOK(m, next) /\ CorpusOK(c) /\ Held(c, s.id, next)
  BY DEF Ready
<1>2. /\ OnePlaceEach(s.queue, s.built) /\ QueueTypeOK(s.queue)
      /\ s.id \in SessionId /\ s.stage \in {"single", "coarse", "fine"}
      /\ s.givenUp \subseteq Policy
      /\ c[s.id].opened /\ c[s.id].summary = "none" /\ StageOK(s, c[s.id])
  BY <1>1, QueueOf
<1>3. host' = [p \in Peer |-> IF p \in live THEN [h[p] EXCEPT !.reserved = NoSlots] ELSE h[p]]
  BY DEF EndSession
<1>4. HostsOK(host', live) /\ \A p \in Peer : host'[p].reserved = NoSlots
  <2>1. NoSlots \in [{} -> Nat] /\ DOMAIN NoSlots = {}
    BY DEF NoSlots
  <2>2. ASSUME NEW p \in Peer
        PROVE  /\ HostRecord(p, host'[p]) /\ host'[p].reserved = NoSlots
               /\ p \notin live => host'[p] = FreshHost
    <3>1. HostRecord(p, h[p]) /\ (p \notin live => h[p] = FreshHost)
      BY <1>1 DEF HostsOK
    <3>2. CASE p \in live
      <4>1. host'[p] = [h[p] EXCEPT !.reserved = NoSlots]
        BY <1>3, <3>2
      <4>2. /\ RecordType(host'[p]) /\ host'[p].reserved = NoSlots
            /\ host'[p].reserved = [b \in DOMAIN host'[p].reserved |-> h[p].reserved[b]]
        BY <4>1, <3>1, <2>1 DEF HostRecord, RecordType
      <4> QED
        BY <3>1, <3>2, <4>2, <2>1, LesserRecord
    <3>3. CASE p \notin live
      <4>1. host'[p] = FreshHost /\ host'[p] = h[p]
        BY <1>3, <3>1, <3>3
      <4> QED
        BY <4>1, <3>1, <3>3 DEF FreshHost
    <3> QED
      BY <3>2, <3>3
  <2>3. DOMAIN host' = Peer /\ host' = [p \in Peer |-> host'[p]]
    BY <1>3
  <2> QED
    BY <2>2, <2>3 DEF HostsOK
<1> DEFINE f  == c[s.id]
           X  == s.givenUp \cup Dropped(s.queue)
           f2 == [f EXCEPT !.summary = state, !.givenUp = f.givenUp \cup X]
<1>5. /\ c \in [SessionId -> CorpusType] /\ \A r \in SessionId : FileOK(c[r])
      /\ f \in CorpusType /\ X \subseteq Policy
  <2>1. Dropped(s.queue) \subseteq Policy
    BY <1>2 DEF QueueTypeOK, Dropped
  <2> QED
    BY <2>1, <1>1, <1>2 DEF CorpusOK
<1>6. corpus' = [c EXCEPT ![s.id] = f2]
  <2>1. corpus' = [c EXCEPT ![s.id].summary = state,
                           ![s.id].givenUp = @ \cup s.givenUp \cup Dropped(s.queue)]
    BY DEF EndSession
  <2>2. [f EXCEPT !.summary = state].givenUp = f.givenUp
    BY <1>5 DEF CorpusType
  <2> QED
    BY <2>1, <2>2, <1>2, <1>5
<1>7. /\ f2 \in CorpusType /\ f2.summary = state /\ f2.givenUp = f.givenUp \cup X
      /\ f2.full = f.full /\ f2.coarse = f.coarse
  <2> HIDE DEF f, X
  <2> QED
    BY <1>5 DEF CorpusType
<1> HIDE DEF f2, X
<1>8. /\ corpus' \in [SessionId -> CorpusType]
      /\ corpus'[s.id] = f2
      /\ \A r \in SessionId : r # s.id => corpus'[r] = c[r]
  BY <1>2, <1>5, <1>6, <1>7
<1>9. FileOK(f2)
  <2>1. \A p \in Policy : f2.coarse[p] = 0 /\ f2.full[p] <= 1
    BY <1>2, <1>5, <1>7 DEF FileOK
  <2>2. ASSUME state = "completed" PROVE Covered(f2)
    <3>1. s.stage # "coarse" /\ s.built = s.queue.evaluated \cup Dropped(s.queue)
      BY <2>2, <1>2, CompleteQueue DEF OnePlaceEach
    <3>2. \A p \in s.queue.evaluated : f2.full[p] > 0
      BY <3>1, <1>2, <1>7 DEF StageOK
    <3>3. \A p \in Dropped(s.queue) \cup s.givenUp : p \in f2.givenUp
      BY <1>7 DEF X
    <3>4. CASE s.stage = "single"
      <4>1. \A p \in Policy : p \in s.built \/ f2.full[p] > 0
        BY <3>4, <1>2, <1>7 DEF StageOK
      <4> QED
        BY <4>1, <3>1, <3>2, <3>3 DEF Covered
    <3>5. CASE s.stage = "fine"
      <4>1. TwoStage /\ s.built = Survivor \ s.givenUp
        BY <3>5, <1>2 DEF StageOK
      <4> QED
        BY <4>1, <3>1, <3>2, <3>3 DEF Covered
    <3> QED
      BY <3>1, <3>4, <3>5, <1>2
  <2> QED
    BY <2>1, <2>2, <1>7 DEF FileOK
<1>10. CorpusOK(corpus')
  BY <1>5, <1>8, <1>9 DEF CorpusOK
<1>11. Held(corpus', 0, next)
  <2>1. ASSUME NEW r \in SessionId, r >= next PROVE corpus'[r] = NoCorpus
    <3>1. r # s.id
      BY <2>1, <1>1, <1>2, DispatcherAssumption DEF SessionId
    <3> QED
      BY <3>1, <2>1, <1>1, <1>8 DEF Held
  <2>2. ASSUME NEW r \in SessionId, corpus'[r].opened, corpus'[r].summary = "none",
               ~corpus'[r].refused
        PROVE  FALSE
    <3>1. r # s.id
      BY <2>2, <1>7, <1>8
    <3> QED
      BY <3>1, <2>2, <1>1, <1>8 DEF Held
  <2> QED
    BY <2>1, <2>2 DEF Held
<1> QED
  BY <1>1, <1>4, <1>8, <1>10, <1>11 DEF Idle

(* What a pump leaves behind, and which session's files it may touch.      *)
LEMMA PumpOutcome ==
  ASSUME NEW s, NEW h, NEW m, NEW c, NEW live, NEW next, Ready(s, h, m, c, live, next),
         Pump(s, h, m, c, live)
  PROVE  /\ IF session' = NoSession
            THEN Idle(host', owed', corpus', live, next, 0)
            ELSE Ready(session', host', owed', corpus', live, next)
         /\ \A r \in SessionId : r # s.id => corpus'[r] = c[r]
<1> DEFINE t == IF StageDone(s) THEN FineSession(s) ELSE s
           r == IF StageDone(s) THEN Unmeasured(h, live) ELSE h
<1>1. Ready(t, r, m, c, live, next) /\ ~StageDone(t) /\ t.id = s.id
  <2>1. CASE StageDone(s)
    <3>1. SessionOK(s, c)
      BY DEF Ready
    <3>2. FineSession(s).id = s.id /\ FineSession(s).stage = "fine"
      BY <2>1, <3>1, FineKeepsSession
    <3> QED
      BY <2>1, <3>2, FineKeepsReady DEF StageDone
  <2>2. CASE ~StageDone(s)
    BY <2>2
  <2> QED
    BY <2>1, <2>2
<1>2. IF IsComplete(t.queue)
      THEN EndSession(t, r, c, "completed", live) /\ owed' = m
      ELSE \E to \in Handouts(t.queue, r, Dispatchable(r, live)) :
             LET q == HandOut(t.queue, to)
             IN  /\ session' = [t EXCEPT !.queue = q]
                 /\ host' = Reserve(t.queue, r, Dispatchable(r, live), to)
                 /\ corpus' = c
                 /\ owed' = m \cup Sent(t, q, to)
  BY DEF Pump, Sent
<1> HIDE DEF t, r
<1>3. CASE IsComplete(t.queue)
  <2>1. t.stage # "coarse"
    BY <1>1, <1>3 DEF StageDone
  <2>2. EndSession(t, r, c, "completed", live) /\ owed' = m /\ session' = NoSession
    BY <1>2, <1>3 DEF EndSession
  <2>3. Idle(host', m, corpus', live, next, 0)
        /\ \A x \in SessionId : x # t.id => corpus'[x] = c[x]
    BY <1>1, <1>3, <2>1, <2>2, EndIsIdle
  <2> QED
    BY <2>2, <2>3, <1>1
<1>4. CASE ~IsComplete(t.queue)
  <2>1. PICK to \in Handouts(t.queue, r, Dispatchable(r, live)) :
          /\ session' = [t EXCEPT !.queue = HandOut(t.queue, to)]
          /\ host' = Reserve(t.queue, r, Dispatchable(r, live), to)
          /\ corpus' = c
          /\ owed' = m \cup Sent(t, HandOut(t.queue, to), to)
    BY <1>2, <1>4
  <2>2. Ready(session', host', owed', corpus', live, next)
    <3> DEFINE t2 == [t EXCEPT !.queue = HandOut(t.queue, to)]
               r2 == Reserve(t.queue, r, Dispatchable(r, live), to)
               m2 == m \cup Sent(t, HandOut(t.queue, to), to)
    <3>1. Ready(t2, r2, m2, c, live, next)
      BY <1>1, HandOutKeepsReady
    <3>2. session' = t2 /\ host' = r2 /\ owed' = m2 /\ corpus' = c
      BY <2>1
    <3> HIDE DEF t2, r2, m2
    <3> QED
      BY <3>1, <3>2
  <2>3. session' # NoSession
    <3>1. SessionOK(session', corpus')
      BY <2>2 DEF Ready
    <3>2. session'.id \in SessionId
      BY <3>1, QueueOf
    <3> QED
      BY <3>2, RealSession
  <2> QED
    BY <2>1, <2>2, <2>3
<1> QED
  BY <1>3, <1>4
-----------------------------------------------------------------------------
(* What the handlers hand to their pump. *)

(* Batches S leave the queue, their hosts' books and the messages; nothing *)
(* else about batches changes.                                             *)
LEMMA ShrinkKeepsReady ==
  ASSUME NEW s, NEW h, NEW m, NEW c, NEW live, NEW next, Ready(s, h, m, c, live, next),
         NEW t, NEW h2, NEW m2 \in SUBSET m, NEW c2, NEW live2 \in SUBSET Peer,
         NEW S,
         SessionOK(t, c2), t.id = s.id, t.stage = s.stage,
         DOMAIN t.queue.inFlight = DOMAIN s.queue.inFlight \ S,
         \A b \in DOMAIN t.queue.inFlight :
           t.queue.inFlight[b] = s.queue.inFlight[b] /\ s.queue.inFlight[b].peer \in live2,
         t.queue.nextBatchSeq = s.queue.nextBatchSeq,
         HostsOK(h2, live2),
         \A p \in live2 : DOMAIN h2[p].reserved = BatchesOf(s.queue, p) \ S,
         TwoStage => \A a \in m2 : a.session = s.id => a.batch \notin S,
         CorpusOK(c2), Held(c2, s.id, next)
  PROVE  Ready(t, h2, m2, c2, live2, next)
<1>1. /\ next \in 1 .. MaxSessions + 1 /\ s.id < next
      /\ MessagesOK(m, next) /\ MessagesFit(s, m)
  BY DEF Ready
<1>2. BooksAgree(t.queue, h2, live2)
  <2>1. \A p \in live2 : BatchesOf(t.queue, p) = BatchesOf(s.queue, p) \ S
    BY DEF BatchesOf
  <2> QED
    BY <2>1 DEF BooksAgree
<1>3. MessagesOK(m2, next)
  BY <1>1 DEF MessagesOK
<1>4. MessagesFit(t, m2)
  <2>1. ASSUME NEW a \in m2, a.session = s.id PROVE MessageFits(t, a)
    <3>1. MessageFits(s, a)
      BY <1>1, <2>1 DEF MessagesFit
    <3>2. TwoStage => a.batch \notin S
      BY <2>1
    <3>3. a.batch \in DOMAIN t.queue.inFlight =>
            t.queue.inFlight[a.batch] = [peer |-> a.peer, policies |-> a.policies]
      BY <3>1 DEF MessageFits
    <3>4. TwoStage => a.batch \in DOMAIN t.queue.inFlight
      BY <3>1, <3>2 DEF MessageFits
    <3> QED
      BY <3>1, <3>3, <3>4 DEF MessageFits
  <2> QED
    BY <2>1 DEF MessagesFit
<1> QED
  BY <1>1, <1>2, <1>3, <1>4 DEF Ready

(* Nothing is written to a session that has its summary.                   *)
ClosedStay == \A r \in SessionId : corpus[r].summary # "none" => corpus'[r] = corpus[r]

(* A handler that ends in a pump keeps the invariant if it gives the pump  *)
(* what fits together.                                                     *)
LEMMA PumpStep ==
  ASSUME NEW s, NEW h, NEW m, NEW c, NEW live,
         Ready(s, h, m, c, live, nextSession'), Pump(s, h, m, c, live),
         status' \in [Peer -> {"new", "live", "swept", "gone"}], Live' = live,
         faults' \in 0 .. MaxFaults, resumable' = 0,
         \A r \in SessionId : r # s.id => c[r] = corpus[r],
         corpus[s.id].summary = "none"
  PROVE  DInv' /\ ClosedStay
<1>1. /\ IF session' = NoSession
         THEN Idle(host', owed', corpus', live, nextSession', 0)
         ELSE Ready(session', host', owed', corpus', live, nextSession')
      /\ \A r \in SessionId : r # s.id => corpus'[r] = c[r]
  BY PumpOutcome
<1>2. DInv'
  BY <1>1 DEF DInv
<1>3. ClosedStay
  BY <1>1 DEF ClosedStay
<1> QED
  BY <1>2, <1>3

(* While a session runs its files are open, and the files of a queue's     *)
(* session without a summary.                                              *)
LEMMA RunningFacts ==
  ASSUME DInv, session # NoSession
  PROVE  /\ Ready(session, host, owed, corpus, Live, nextSession) /\ resumable = 0
         /\ SessionOK(session, corpus) /\ session.id \in SessionId
         /\ corpus[session.id].summary = "none" /\ corpus[session.id].opened
         /\ QueueInv(session.queue, session.built, session.prior)
         /\ HostsOK(host, Live) /\ BooksAgree(session.queue, host, Live)
         /\ MessagesOK(owed, nextSession) /\ MessagesFit(session, owed)
         /\ CorpusOK(corpus) /\ Held(corpus, session.id, nextSession)
         /\ session.id < nextSession
<1>1. Ready(session, host, owed, corpus, Live, nextSession) /\ resumable = 0
  BY DEF DInv
<1>2. SessionOK(session, corpus)
  BY <1>1 DEF Ready
<1>3. /\ session.id \in SessionId /\ corpus[session.id].summary = "none"
      /\ corpus[session.id].opened /\ QueueInv(session.queue, session.built, session.prior)
  BY <1>2, QueueOf
<1> QED
  BY <1>1, <1>2, <1>3 DEF Ready

LEMMA InitDInv == Init => DInv
<1> SUFFICES ASSUME Init PROVE DInv
  OBVIOUS
<1>1. /\ status = [p \in Peer |-> "new"] /\ host = [p \in Peer |-> FreshHost]
      /\ session = NoSession /\ resumable = 0 /\ corpus = [s \in SessionId |-> NoCorpus]
      /\ owed = {} /\ nextSession = 1 /\ faults = 0
  BY DEF Init
<1>2. MaxSessions \in Nat /\ MaxFaults \in Nat
  BY DispatcherAssumption
<1>3. Live = {}
  BY <1>1 DEF Live
<1>4. (\A p \in Peer : HostRecord(p, FreshHost)) /\ FreshHost.reserved = NoSlots
  BY FreshHostOK
<1>5. HostsOK(host, Live) /\ \A p \in Peer : host[p].reserved = NoSlots
  BY <1>1, <1>4 DEF HostsOK
<1>6. NoCorpus \in CorpusType /\ FileOK(NoCorpus) /\ ~NoCorpus.opened
  BY DEF NoCorpus, CorpusType, FileOK
<1>7. CorpusOK(corpus) /\ Held(corpus, 0, 1)
  BY <1>1, <1>6 DEF CorpusOK, Held
<1> QED
  BY <1>1, <1>2, <1>3, <1>5, <1>7 DEF DInv, Idle, MessagesOK

(* The statuses of the peers, and who is connected. *)
LEMMA LivePeers ==
  ASSUME DInv, NEW p \in Peer, NEW x \in {"new", "live", "swept", "gone"},
         status' = [status EXCEPT ![p] = x]
  PROVE  /\ status' \in [Peer -> {"new", "live", "swept", "gone"}]
         /\ Live' = IF x = "live" THEN Live \cup {p} ELSE Live \ {p}
<1>1. status \in [Peer -> {"new", "live", "swept", "gone"}]
  BY DEF DInv
<1> QED
  BY <1>1 DEF Live

(* Messages may be lost, and nobody's absence matters to the queue who     *)
(* has no batch of it.                                                     *)
LEMMA LoseMessages ==
  ASSUME DInv, session # NoSession, NEW m \in SUBSET owed, NEW live \in SUBSET Peer,
         NEW h, HostsOK(h, live),
         \A p \in live : DOMAIN h[p].reserved = BatchesOf(session.queue, p),
         \A b \in DOMAIN session.queue.inFlight : session.queue.inFlight[b].peer \in live
  PROVE  Ready(session, h, m, corpus, live, nextSession)
<1>1. /\ Ready(session, host, owed, corpus, Live, nextSession)
      /\ SessionOK(session, corpus) /\ CorpusOK(corpus)
      /\ Held(corpus, session.id, nextSession)
  BY RunningFacts
<1>2. /\ DOMAIN session.queue.inFlight = DOMAIN session.queue.inFlight \ {}
      /\ \A p \in live : DOMAIN h[p].reserved = BatchesOf(session.queue, p) \ {}
      /\ TwoStage => \A a \in m : a.session = session.id => a.batch \notin {}
  OBVIOUS
<1> QED
  BY <1>1, <1>2, ShrinkKeepsReady

LEMMA RegisterStep ==
  ASSUME DInv, NEW p \in Peer, Register(p)
  PROVE  DInv' /\ ClosedStay
<1>1. /\ status[p] = "new" /\ status' = [status EXCEPT ![p] = "live"]
      /\ resumable' = resumable /\ nextSession' = nextSession /\ faults' = faults
      /\ faults \in 0 .. MaxFaults
  BY DEF Register, DInv
<1>2. /\ status' \in [Peer -> {"new", "live", "swept", "gone"}]
      /\ Live' = Live \cup {p} /\ p \notin Live /\ Live \in SUBSET Peer
  BY <1>1, LivePeers DEF Live
<1>3. HostsOK(host, Live)
  BY DEF DInv, Idle, Ready
<1>4. HostsOK(host, Live \cup {p}) /\ host[p] = FreshHost
  BY <1>2, <1>3 DEF HostsOK
<1>5. CASE session = NoSession
  <2>1. host' = host /\ session' = session /\ corpus' = corpus /\ owed' = owed
    BY <1>5 DEF Register
  <2>2. Idle(host, owed, corpus, Live, nextSession, resumable)
    BY <1>5 DEF DInv
  <2>3. Idle(host, owed, corpus, Live \cup {p}, nextSession, resumable)
    BY <2>2, <1>2, <1>4 DEF Idle
  <2>4. ClosedStay
    BY <2>1 DEF ClosedStay
  <2> QED
    BY <1>1, <1>2, <1>5, <2>1, <2>3, <2>4 DEF DInv
<1>6. CASE session # NoSession
  <2>1. Pump(session, host, owed, corpus, Live \cup {p})
    BY <1>6 DEF Register
  <2>2. /\ BooksAgree(session.queue, host, Live) /\ resumable = 0
        /\ corpus[session.id].summary = "none"
    BY <1>6, RunningFacts
  <2>3. BatchesOf(session.queue, p) = {}
    BY <2>2, <1>2 DEF BooksAgree, BatchesOf
  <2>4. \A r \in Live \cup {p} : DOMAIN host[r].reserved = BatchesOf(session.queue, r)
    BY <2>2, <2>3, <1>4, FreshHostOK DEF BooksAgree
  <2>5. \A b \in DOMAIN session.queue.inFlight :
          session.queue.inFlight[b].peer \in Live \cup {p}
    BY <2>2 DEF BooksAgree
  <2>6. Ready(session, host, owed, corpus, Live \cup {p}, nextSession)
    BY <1>2, <1>4, <1>6, <2>4, <2>5, LoseMessages
  <2>7. Ready(session, host, owed, corpus, Live \cup {p}, nextSession')
    BY <2>6, <1>1
  <2>8. /\ faults' \in 0 .. MaxFaults /\ resumable' = 0
        /\ \A r \in SessionId : r # session.id => corpus[r] = corpus[r]
    BY <1>1, <2>2
  <2> QED
    BY <1>1, <1>2, <2>1, <2>2, <2>7, <2>8, PumpStep
<1> QED
  BY <1>5, <1>6

LEMMA LeaveStep ==
  ASSUME DInv, NEW p \in Live, NEW m \in SUBSET owed, Leave(p, m),
         TwoStage => \A a \in m : a.peer # p,
         NEW x \in {"swept", "gone"}, status' = [status EXCEPT ![p] = x],
         resumable' = resumable, nextSession' = nextSession, faults' = faults
  PROVE  DInv' /\ ClosedStay
<1> DEFINE h == [host EXCEPT ![p] = FreshHost]
           live == Live \ {p}
<1>1. /\ p \in Peer /\ faults \in 0 .. MaxFaults
      /\ status' \in [Peer -> {"new", "live", "swept", "gone"}] /\ Live' = live
      /\ live \in SUBSET Peer
  <2>1. p \in Peer /\ faults \in 0 .. MaxFaults /\ live \in SUBSET Peer
    BY DEF Live, DInv
  <2> QED
    BY <2>1, LivePeers
<1>2. HostsOK(host, Live)
  BY DEF DInv, Idle, Ready
<1>3. /\ \A r \in Peer : h[r] = IF r = p THEN FreshHost ELSE host[r]
      /\ DOMAIN h = Peer /\ h = [r \in Peer |-> h[r]]
  BY <1>1, <1>2 DEF HostsOK
<1> HIDE DEF h
<1>4. HostsOK(h, live)
  BY <1>2, <1>3, FreshHostOK DEF HostsOK
<1>5. CASE session # NoSession /\ BatchesOf(session.queue, p) # {}
  <2> DEFINE S == BatchesOf(session.queue, p)
             q == Requeue(session.queue, S, TRUE)
             t == [session EXCEPT !.queue = q]
  <2>1. /\ Ready(session, host, owed, corpus, Live, nextSession) /\ resumable = 0
        /\ SessionOK(session, corpus) /\ corpus[session.id].summary = "none"
        /\ BooksAgree(session.queue, host, Live) /\ MessagesFit(session, owed)
        /\ CorpusOK(corpus) /\ Held(corpus, session.id, nextSession)
    BY <1>5, RunningFacts
  <2>2. S \in SUBSET DOMAIN session.queue.inFlight
    BY DEF BatchesOf
  <2>3. /\ SessionOK(t, corpus)
        /\ DOMAIN q.inFlight = DOMAIN session.queue.inFlight \ S
        /\ \A b \in DOMAIN q.inFlight : q.inFlight[b] = session.queue.inFlight[b]
        /\ q.nextBatchSeq = session.queue.nextBatchSeq
    BY <2>1, <2>2, RequeueKeepsSession
  <2>4. t.id = session.id /\ t.stage = session.stage /\ t.queue = q
    BY <2>1, SwapQueue
  <2>5. Pump(t, h, m, corpus, live)
    BY <1>5 DEF Leave, RequeueAllForPeer, h
  <2> HIDE DEF t, q
  <2>6. \A b \in DOMAIN q.inFlight : session.queue.inFlight[b].peer \in live
    BY <2>1, <2>3 DEF BooksAgree, BatchesOf
  <2>7. \A r \in live : DOMAIN h[r].reserved = BatchesOf(session.queue, r) \ S
    <3> TAKE r \in live
    <3>1. h[r] = host[r] /\ r # p /\ r \in Live
      BY <1>1, <1>3
    <3>2. DOMAIN h[r].reserved = BatchesOf(session.queue, r)
      BY <3>1, <2>1 DEF BooksAgree
    <3>3. BatchesOf(session.queue, r) \cap S = {}
      BY <3>1 DEF BatchesOf
    <3> QED
      BY <3>2, <3>3
  <2>8. ASSUME TwoStage, NEW a \in m, a.session = session.id PROVE a.batch \notin S
    <3>1. /\ a.peer # p
          /\ a.batch \in DOMAIN session.queue.inFlight =>
               session.queue.inFlight[a.batch] = [peer |-> a.peer, policies |-> a.policies]
      BY <2>1, <2>8 DEF MessagesFit, MessageFits
    <3> QED
      BY <3>1 DEF BatchesOf
  <2> HIDE DEF S, live
  <2>9. Ready(t, h, m, corpus, live, nextSession)
    <3>1. TwoStage => \A a \in m : a.session = session.id => a.batch \notin S
      BY <2>8
    <3>2. /\ DOMAIN t.queue.inFlight = DOMAIN session.queue.inFlight \ S
          /\ \A b \in DOMAIN t.queue.inFlight :
               /\ t.queue.inFlight[b] = session.queue.inFlight[b]
               /\ session.queue.inFlight[b].peer \in live
          /\ t.queue.nextBatchSeq = session.queue.nextBatchSeq
      BY <2>3, <2>4, <2>6
    <3>3. live \in SUBSET Peer /\ m \in SUBSET owed
      BY <1>1
    <3> QED
      BY ONLY <3>1, <3>2, <3>3, <1>4, <2>1, <2>3, <2>4, <2>7, ShrinkKeepsReady
  <2>10. /\ Ready(t, h, m, corpus, live, nextSession')
         /\ resumable' = 0 /\ faults' \in 0 .. MaxFaults
         /\ corpus[t.id].summary = "none"
         /\ \A r \in SessionId : r # t.id => corpus[r] = corpus[r]
    BY <2>1, <2>4, <2>9, <1>1
  <2> QED
    BY <1>1, <2>5, <2>10, PumpStep
<1>6. CASE ~(session # NoSession /\ BatchesOf(session.queue, p) # {})
  <2>1. host' = h /\ owed' = m /\ session' = session /\ corpus' = corpus
    BY <1>6 DEF Leave, h
  <2>2. ClosedStay
    BY <2>1 DEF ClosedStay
  <2>3. CASE session = NoSession
    <3>1. Idle(host, owed, corpus, Live, nextSession, resumable)
      BY <2>3 DEF DInv
    <3>2. \A r \in Peer : h[r].reserved = NoSlots
      BY <3>1, <1>3, FreshHostOK DEF Idle
    <3>3. MessagesOK(m, nextSession)
      BY <3>1 DEF Idle, MessagesOK
    <3>4. Idle(h, m, corpus, live, nextSession, resumable)
      BY <1>1, <1>4, <3>1, <3>2, <3>3 DEF Idle
    <3> QED
      BY <1>1, <2>1, <2>2, <2>3, <3>4 DEF DInv
  <2>4. CASE session # NoSession
    <3>1. /\ BooksAgree(session.queue, host, Live) /\ resumable = 0
          /\ BatchesOf(session.queue, p) = {}
      BY <1>6, <2>4, RunningFacts
    <3>2. \A r \in live : DOMAIN h[r].reserved = BatchesOf(session.queue, r)
      BY <3>1, <1>1, <1>3 DEF BooksAgree
    <3>3. \A b \in DOMAIN session.queue.inFlight : session.queue.inFlight[b].peer \in live
      BY <3>1 DEF BooksAgree, BatchesOf
    <3>4. Ready(session, h, m, corpus, live, nextSession)
      BY <1>1, <1>4, <2>4, <3>2, <3>3, LoseMessages
    <3> QED
      BY <1>1, <2>1, <2>2, <2>4, <3>1, <3>4 DEF DInv
  <2> QED
    BY <2>3, <2>4
<1> QED
  BY <1>5, <1>6

(* A step that changes no more than who is new and which messages are out. *)
LEMMA FewerMessages ==
  ASSUME DInv, owed' \in SUBSET owed,
         host' = host, session' = session, resumable' = resumable, corpus' = corpus,
         nextSession' = nextSession, faults' \in 0 .. MaxFaults,
         status' \in [Peer -> {"new", "live", "swept", "gone"}], Live' = Live
  PROVE  DInv' /\ ClosedStay
<1>1. ClosedStay
  BY DEF ClosedStay
<1>2. CASE session = NoSession
  <2>1. Idle(host, owed, corpus, Live, nextSession, resumable)
    BY <1>2 DEF DInv
  <2>2. Idle(host, owed', corpus, Live, nextSession, resumable)
    BY <2>1 DEF Idle, MessagesOK
  <2> QED
    BY <1>1, <1>2, <2>2 DEF DInv
<1>3. CASE session # NoSession
  <2>1. /\ Ready(session, host, owed, corpus, Live, nextSession) /\ resumable = 0
        /\ HostsOK(host, Live) /\ BooksAgree(session.queue, host, Live)
    BY <1>3, RunningFacts
  <2>2. Live \in SUBSET Peer
    BY DEF Live
  <2>3. /\ \A p \in Live : DOMAIN host[p].reserved = BatchesOf(session.queue, p)
        /\ \A b \in DOMAIN session.queue.inFlight : session.queue.inFlight[b].peer \in Live
    BY <2>1 DEF BooksAgree
  <2>4. Ready(session, host, owed', corpus, Live, nextSession)
    BY <1>3, <2>1, <2>2, <2>3, LoseMessages
  <2> QED
    BY <1>1, <1>3, <2>1, <2>4 DEF DInv
<1> QED
  BY <1>2, <1>3

LEMMA DisconnectStep ==
  ASSUME DInv, NEW p \in Peer, Disconnect(p)
  PROVE  DInv' /\ ClosedStay
<1> DEFINE m == {a \in owed : a.peer # p}
<1>1. p \in Live /\ m \in SUBSET owed /\ \A a \in m : a.peer # p
  BY DEF Disconnect, Live
<1>2. /\ Leave(p, m) /\ status' = [status EXCEPT ![p] = "gone"]
      /\ resumable' = resumable /\ nextSession' = nextSession /\ faults' = faults
  BY DEF Disconnect
<1> HIDE DEF m
<1> QED
  BY <1>1, <1>2, LeaveStep

(* No coarse answer of a silent peer arrives in the fine stage. *)
NoLateCoarse == ~(TwoStage /\ LateAnswers)

LEMMA SweepStep ==
  ASSUME DInv, NoLateCoarse, NEW p \in Peer, SweepStale(p)
  PROVE  DInv' /\ ClosedStay
<1>1. p \in Live /\ ~TwoStage
  BY DEF SweepStale, Live, NoLateCoarse
<1>2. /\ Leave(p, owed) /\ status' = [status EXCEPT ![p] = "swept"]
      /\ resumable' = resumable /\ nextSession' = nextSession /\ faults' = faults
  BY DEF SweepStale
<1> QED
  BY <1>1, <1>2, LeaveStep

LEMMA SocketClosesStep ==
  ASSUME DInv, NEW p \in Peer, SocketCloses(p)
  PROVE  DInv' /\ ClosedStay
<1>1. /\ status[p] = "swept" /\ status' = [status EXCEPT ![p] = "gone"]
      /\ owed' \in SUBSET owed /\ host' = host /\ session' = session
      /\ resumable' = resumable /\ corpus' = corpus /\ nextSession' = nextSession
      /\ faults' \in 0 .. MaxFaults
  BY DEF SocketCloses, DInv
<1>2. p \notin Live
  BY <1>1 DEF Live
<1>3. status' \in [Peer -> {"new", "live", "swept", "gone"}] /\ Live' = Live
  <2>1. /\ status' \in [Peer -> {"new", "live", "swept", "gone"}]
        /\ Live' = IF "gone" = "live" THEN Live \cup {p} ELSE Live \ {p}
    BY <1>1, LivePeers
  <2>2. "gone" # "live"
    OBVIOUS
  <2> QED
    BY <1>2, <2>1, <2>2
<1> QED
  BY <1>1, <1>3, FewerMessages

(* The hosts a new session finds: nothing is reserved, nothing measured.   *)
LEMMA ResetHostsOK ==
  ASSUME HostsOK(host, Live), \A p \in Peer : host[p].reserved = NoSlots
  PROVE  /\ HostsOK(ResetHosts, Live)
         /\ \A p \in Peer : ResetHosts[p].reserved = NoSlots
<1> DEFINE h == ResetHosts
<1>1. /\ DOMAIN h = Peer /\ h = [p \in Peer |-> h[p]]
      /\ \A p \in Peer : h[p] = IF p \in Live
                                THEN [FreshHost EXCEPT !.reserved = host[p].reserved]
                                ELSE host[p]
  BY DEF ResetHosts
<1> HIDE DEF h
<1>2. ASSUME NEW p \in Peer
      PROVE  /\ HostRecord(p, h[p]) /\ h[p].reserved = NoSlots
             /\ p \notin Live => h[p] = FreshHost
  <2>1. CASE p \in Live
    <3>1. h[p] = [FreshHost EXCEPT !.reserved = NoSlots]
      BY <1>1, <2>1
    <3>2. HostRecord(p, FreshHost) /\ FreshHost.reserved = NoSlots
      BY FreshHostOK
    <3>3. [FreshHost EXCEPT !.reserved = NoSlots] = FreshHost
      BY <3>2 DEF FreshHost
    <3> QED
      BY <3>1, <3>2, <3>3, <2>1
  <2>2. CASE p \notin Live
    BY <1>1, <2>2 DEF HostsOK
  <2> QED
    BY <2>1, <2>2
<1> QED
  BY <1>1, <1>2 DEF HostsOK, h

(* A session that starts has handed out nothing, and nothing was sent for  *)
(* it before.                                                              *)
LEMMA StartStep ==
  ASSUME DInv, session = NoSession, NEW s, NEW c,
         SessionOK(s, c), DOMAIN s.queue.inFlight = {},
         CorpusOK(c), Held(c, s.id, nextSession'),
         nextSession' \in 1 .. MaxSessions + 1, nextSession <= nextSession',
         s.id < nextSession', \A a \in owed : a.session # s.id,
         corpus[s.id].summary = "none",
         \A r \in SessionId : r # s.id => c[r] = corpus[r],
         Pump(s, ResetHosts, owed, c, Live),
         status' = status, faults' = faults, resumable' = 0
  PROVE  DInv' /\ ClosedStay
<1>1. Idle(host, owed, corpus, Live, nextSession, resumable)
  BY DEF DInv
<1>2. /\ Live \in SUBSET Peer /\ HostsOK(host, Live)
      /\ \A p \in Peer : host[p].reserved = NoSlots
      /\ MessagesOK(owed, nextSession) /\ nextSession \in Nat
  BY <1>1, DispatcherAssumption DEF Idle
<1>3. HostsOK(ResetHosts, Live) /\ \A p \in Peer : ResetHosts[p].reserved = NoSlots
  BY <1>2, ResetHostsOK
<1> DEFINE h == ResetHosts
<1> HIDE DEF h
<1>4. BooksAgree(s.queue, h, Live)
  <2>1. \A p \in Live : DOMAIN h[p].reserved = {}
    BY <1>2, <1>3, FreshHostOK DEF h
  <2> QED
    BY <2>1 DEF BooksAgree, BatchesOf
<1>5. MessagesOK(owed, nextSession')
  <2>1. \A a \in owed : a.session \in Nat /\ a.session < nextSession
    BY <1>2 DEF MessagesOK, Message, SessionId
  <2>2. nextSession' \in Nat
    BY DispatcherAssumption
  <2>3. \A a \in owed : a.session < nextSession'
    BY <2>1, <2>2, <1>2
  <2> QED
    BY <2>3, <1>2 DEF MessagesOK
<1>6. MessagesFit(s, owed)
  BY DEF MessagesFit
<1>7. Ready(s, h, owed, c, Live, nextSession')
  BY <1>2, <1>3, <1>4, <1>5, <1>6 DEF Ready, h
<1>8. /\ status' \in [Peer -> {"new", "live", "swept", "gone"}] /\ Live' = Live
      /\ faults' \in 0 .. MaxFaults
  BY DEF DInv, Live
<1> QED
  BY <1>7, <1>8, PumpStep DEF h

LEMMA StartFreshStep ==
  ASSUME DInv, StartFresh
  PROVE  DInv' /\ ClosedStay
<1> DEFINE n == nextSession
           stage == IF TwoStage THEN "coarse" ELSE "single"
           s == NewSession(n, stage, Enumeration, 0)
           c == [corpus EXCEPT ![n].opened = TRUE]
<1>1. /\ session = NoSession /\ resumable = 0 /\ n \in SessionId /\ nextSession' = n + 1
      /\ Pump(s, ResetHosts, owed, c, Live)
      /\ status' = status /\ resumable' = resumable /\ faults' = faults
  BY DEF StartFresh
<1>2. /\ CorpusOK(corpus) /\ Held(corpus, 0, n) /\ MessagesOK(owed, n)
  BY <1>1 DEF DInv, Idle
<1>3. /\ n \in Nat /\ n <= MaxSessions /\ n >= 1 /\ MaxSessions \in Nat
      /\ SessionId = 1 .. MaxSessions
  BY <1>1, DispatcherAssumption DEF SessionId
<1>4. corpus[n] = NoCorpus /\ corpus \in [SessionId -> CorpusType]
  BY <1>1, <1>2, <1>3 DEF Held, CorpusOK
<1> DEFINE f == [NoCorpus EXCEPT !.opened = TRUE]
<1>5. c = [corpus EXCEPT ![n] = f]
  BY <1>1, <1>4
<1>6. /\ f \in CorpusType /\ f.opened /\ f.summary = "none"
      /\ \A p \in Policy : f.full[p] = 0 /\ f.coarse[p] = 0
  BY DEF NoCorpus, CorpusType
<1> HIDE DEF f, s, c, stage
<1>7. /\ c \in [SessionId -> CorpusType] /\ c[n] = f
      /\ \A r \in SessionId : r # n => c[r] = corpus[r]
  BY <1>1, <1>4, <1>5, <1>6
<1>8. CorpusOK(c)
  <2>1. FileOK(f)
    BY <1>6 DEF FileOK
  <2> QED
    BY <2>1, <1>2, <1>7 DEF CorpusOK
<1>9. Held(c, n, n + 1)
  <2>1. ASSUME NEW r \in SessionId, r >= n + 1 PROVE c[r] = NoCorpus
    <3>1. r # n /\ r >= n
      BY <2>1, <1>3
    <3> QED
      BY <3>1, <1>2, <1>7 DEF Held
  <2>2. ~NoCorpus.opened
    BY DEF NoCorpus
  <2>3. ASSUME NEW r \in SessionId, c[r].opened PROVE r <= n
    <3>1. r \in Nat
      BY DEF SessionId
    <3>2. CASE r > n
      <4>1. r >= n + 1
        BY <3>1, <3>2, <1>3
      <4> QED
        BY <4>1, <2>1, <2>2, <2>3
    <3> QED
      BY <3>1, <3>2, <1>3
  <2>4. ASSUME NEW r \in SessionId, c[r].opened, c[r].summary = "none", ~c[r].refused
        PROVE  r = n
    <3>1. CASE r # n
      <4>1. corpus[r].opened /\ corpus[r].summary = "none" /\ ~corpus[r].refused
        BY <2>4, <3>1, <1>7
      <4>2. r = 0
        BY <4>1, <1>2 DEF Held
      <4> QED
        BY <4>2, <1>3
    <3> QED
      BY <3>1
  <2> QED
    BY <2>1, <2>3, <2>4 DEF Held
<1>10. SessionOK(s, c) /\ s.id = n /\ DOMAIN s.queue.inFlight = {}
  <2>1. /\ Enumeration \in Seq(Policy) /\ IsInjective(Enumeration)
        /\ Range(Enumeration) = Policy /\ stage \in {"single", "coarse"}
        /\ stage = "coarse" => TwoStage
    BY DispatcherAssumption DEF stage
  <2>2. /\ \A p \in Policy : p \in Range(Enumeration) \/ c[n].full[p] > 0
        /\ \A p \in Range(Enumeration) : c[n].full[p] = 0
        /\ c[n].opened /\ c[n].summary = "none"
    BY <2>1, <1>6, <1>7
  <2>3. 0 \in Nat
    OBVIOUS
  <2> QED
    BY <2>1, <2>2, <2>3, <1>1, NewSessionOK DEF s
<1>11. \A a \in owed : a.session # n
  BY <1>2, <1>3 DEF MessagesOK, Message
<1>12. corpus[n].summary = "none"
  BY <1>4 DEF NoCorpus
<1>13. nextSession' \in 1 .. MaxSessions + 1 /\ nextSession <= nextSession' /\ n < nextSession'
  BY <1>1, <1>3
<1>14. Held(c, s.id, nextSession') /\ resumable' = 0
  BY <1>1, <1>9, <1>10
<1> QED
  BY <1>1, <1>7, <1>8, <1>10, <1>11, <1>12, <1>13, <1>14, StartStep

(* The lines on disk can be counted: at most one for each policy.          *)
LEMMA LinesAreCounted ==
  ASSUME NEW r \in SessionId, CorpusOK(corpus)
  PROVE  LinesOnDisk(r) \in Nat
<1> DEFINE lines(p) == 1 .. corpus[r].full[p] + corpus[r].coarse[p]
           all == UNION {{p} \X lines(p) : p \in Policy}
<1>1. \A p \in Policy : /\ corpus[r].full[p] \in Nat /\ corpus[r].coarse[p] = 0
                        /\ corpus[r].full[p] <= 1
  BY DEF CorpusOK, CorpusType, FileOK
<1>2. \A p \in Policy : lines(p) \subseteq {1}
  BY <1>1
<1> HIDE DEF lines
<1>3. all \in SUBSET (Policy \X {1})
  BY <1>2
<1>4. IsFiniteSet(Policy) /\ IsFiniteSet({1})
  BY QueueAssumption, FS_Singleton
<1>5. IsFiniteSet(Policy \X {1})
  BY <1>4, FS_Product
<1> HIDE DEF all
<1>6. Cardinality(all) \in Nat
  BY <1>3, <1>5, FS_Subset, FS_CardinalityType
<1> QED
  BY <1>6 DEF LinesOnDisk, all, lines

LEMMA StartResumedStep ==
  ASSUME DInv, StartResumed
  PROVE  DInv' /\ ClosedStay
<1> DEFINE r == resumable
           rest == Policy \ OnDisk(r)
           remaining == KeepOnly(Enumeration, rest)
           s == NewSession(r, "single", remaining, LinesOnDisk(r))
<1>1. /\ session = NoSession /\ r # 0 /\ resumable' = 0
      /\ Pump(s, ResetHosts, owed, corpus, Live)
      /\ status' = status /\ nextSession' = nextSession /\ faults' = faults
  BY DEF StartResumed
<1>2. Idle(host, owed, corpus, Live, nextSession, r)
  BY <1>1 DEF DInv
<1>3. /\ CorpusOK(corpus) /\ Held(corpus, r, nextSession)
      /\ nextSession \in 1 .. MaxSessions + 1
      /\ r \in SessionId /\ corpus[r].opened /\ corpus[r].summary = "none" /\ owed = {}
  BY <1>1, <1>2 DEF Idle
<1>4. \A p \in Policy : corpus[r].full[p] \in Nat /\ corpus[r].coarse[p] = 0
  BY <1>3 DEF CorpusOK, CorpusType, FileOK
<1>5. Policy \ OnDisk(r) = {p \in Policy : corpus[r].full[p] = 0}
  BY <1>4 DEF OnDisk
<1>6. /\ Enumeration \in Seq(Policy) /\ IsInjective(Enumeration) /\ Range(Enumeration) = Policy
      /\ IsFiniteSet(Policy)
  BY DispatcherAssumption, QueueAssumption
<1> HIDE DEF rest
<1>7. /\ remaining \in Seq(Policy) /\ IsInjective(remaining)
      /\ Range(remaining) = Policy \cap rest
  BY <1>6, KeepOnlyProperties
<1>8. LinesOnDisk(r) \in Nat
  BY <1>3, LinesAreCounted
<1> DEFINE n == LinesOnDisk(r)
<1> HIDE DEF remaining, n
<1>9. /\ \A p \in Policy : p \in Range(remaining) \/ corpus[r].full[p] > 0
      /\ \A p \in Range(remaining) : corpus[r].full[p] = 0
  BY <1>4, <1>5, <1>7 DEF rest
<1>10. SessionOK(s, corpus) /\ s.id = r /\ DOMAIN s.queue.inFlight = {}
  <2>1. n \in Nat /\ "single" \in {"single", "coarse"}
    BY <1>8 DEF n
  <2> QED
    BY <2>1, <1>3, <1>7, <1>9, NewSessionOK DEF n
<1> HIDE DEF s
<1>11. r < nextSession
  <2>1. ~NoCorpus.opened
    BY DEF NoCorpus
  <2>2. CASE r >= nextSession
    BY <2>1, <2>2, <1>3 DEF Held
  <2>3. r \in Nat /\ nextSession \in Nat
    BY <1>3, DispatcherAssumption DEF SessionId
  <2> QED
    BY <2>2, <2>3
<1>12. nextSession' \in 1 .. MaxSessions + 1 /\ nextSession <= nextSession' /\ r < nextSession'
  BY <1>1, <1>3, <1>11, DispatcherAssumption
<1>13. Held(corpus, s.id, nextSession')
  BY <1>1, <1>3, <1>10
<1>14. \A a \in owed : a.session # s.id
  BY <1>3
<1> QED
  BY <1>1, <1>3, <1>10, <1>12, <1>13, <1>14, StartStep

LEMMA ResumeFailsStep ==
  ASSUME DInv, ResumeFails
  PROVE  DInv' /\ ClosedStay
<1> DEFINE r == resumable
           f == [corpus[r] EXCEPT !.refused = TRUE]
<1>1. /\ session = NoSession /\ r # 0 /\ resumable' = 0 /\ faults < MaxFaults
      /\ corpus' = [corpus EXCEPT ![r].refused = TRUE] /\ faults' = faults + 1
      /\ status' = status /\ host' = host /\ session' = session /\ owed' = owed
      /\ nextSession' = nextSession
  BY DEF ResumeFails
<1>2. Idle(host, owed, corpus, Live, nextSession, r)
  BY <1>1 DEF DInv
<1>3. /\ CorpusOK(corpus) /\ Held(corpus, r, nextSession) /\ r \in SessionId
      /\ corpus[r].opened /\ corpus[r].summary = "none"
  BY <1>1, <1>2 DEF Idle
<1>4. /\ corpus \in [SessionId -> CorpusType] /\ corpus[r] \in CorpusType
      /\ \A o \in SessionId : FileOK(corpus[o])
  BY <1>3 DEF CorpusOK
<1>5. corpus' = [corpus EXCEPT ![r] = f]
  BY <1>1
<1>6. /\ f \in CorpusType /\ f.refused /\ f.summary = "none"
      /\ f.full = corpus[r].full /\ f.coarse = corpus[r].coarse
  BY <1>3, <1>4 DEF CorpusType
<1> HIDE DEF f
<1>7. /\ corpus' \in [SessionId -> CorpusType] /\ corpus'[r] = f
      /\ \A o \in SessionId : o # r => corpus'[o] = corpus[o]
  BY <1>3, <1>4, <1>5, <1>6
<1>8. CorpusOK(corpus')
  BY <1>3, <1>4, <1>6, <1>7 DEF CorpusOK, FileOK
<1>9. Held(corpus', 0, nextSession)
  <2>1. ~NoCorpus.opened
    BY DEF NoCorpus
  <2>2. ASSUME NEW o \in SessionId, o >= nextSession PROVE corpus'[o] = NoCorpus
    BY <2>1, <2>2, <1>3, <1>7 DEF Held
  <2>3. ASSUME NEW o \in SessionId, corpus'[o].opened, corpus'[o].summary = "none",
               ~corpus'[o].refused
        PROVE  FALSE
    BY <2>3, <1>3, <1>6, <1>7 DEF Held
  <2> QED
    BY <2>2, <2>3 DEF Held
<1>10. Idle(host, owed, corpus', Live, nextSession, 0)
  BY <1>2, <1>8, <1>9 DEF Idle
<1>11. ClosedStay
  BY <1>3, <1>7 DEF ClosedStay
<1>12. /\ status' \in [Peer -> {"new", "live", "swept", "gone"}] /\ Live' = Live
       /\ faults' \in 0 .. MaxFaults
  BY <1>1, DispatcherAssumption DEF DInv, Live
<1> QED
  BY <1>1, <1>10, <1>11, <1>12 DEF DInv

LEMMA CancelStep ==
  ASSUME DInv, Cancel
  PROVE  DInv' /\ ClosedStay
<1>1. /\ session # NoSession
      /\ EndSession(session, host, corpus, "cancelled", Live)
      /\ status' = status /\ resumable' = resumable /\ owed' = owed
      /\ nextSession' = nextSession /\ faults' = faults
  BY DEF Cancel
<1>2. /\ Ready(session, host, owed, corpus, Live, nextSession) /\ resumable = 0
      /\ corpus[session.id].summary = "none"
  BY <1>1, RunningFacts
<1>3. /\ Idle(host', owed, corpus', Live, nextSession, 0)
      /\ \A r \in SessionId : r # session.id => corpus'[r] = corpus[r]
  <2>1. "cancelled" \in {"completed", "cancelled"} /\ "cancelled" # "completed"
    OBVIOUS
  <2> QED
    BY <1>1, <1>2, <2>1, EndIsIdle
<1>4. ClosedStay
  BY <1>2, <1>3 DEF ClosedStay
<1>5. session' = NoSession
  BY <1>1 DEF EndSession
<1>6. Live' = Live /\ status \in [Peer -> {"new", "live", "swept", "gone"}]
      /\ faults \in 0 .. MaxFaults
  BY <1>1 DEF DInv, Live
<1> QED
  BY <1>1, <1>2, <1>3, <1>4, <1>5, <1>6 DEF DInv

(* The dispatcher dies and boots on a corpus where finished sessions are   *)
(* as they were and nothing is known of later ones.                        *)
LEMMA RebootStep ==
  ASSUME DInv, NEW c, Reboot(c), CorpusOK(c), NEW id, Held(c, id, nextSession),
         \A r \in SessionId : corpus[r].summary # "none" => c[r] = corpus[r]
  PROVE  DInv' /\ ClosedStay
<1> DEFINE unfinished == {r \in SessionId : c[r].opened /\ c[r].summary = "none"}
           last == Max({0} \cup unfinished)
<1>1. /\ faults < MaxFaults /\ faults' = faults + 1
      /\ status' = [p \in Peer |-> IF status[p] = "new" THEN "new" ELSE "gone"]
      /\ host' = [p \in Peer |-> FreshHost] /\ session' = NoSession
      /\ resumable' = last /\ corpus' = c /\ owed' = {} /\ nextSession' = nextSession
  BY DEF Reboot
<1>2. MaxSessions \in Nat /\ MaxFaults \in Nat
  BY DispatcherAssumption
<1>3. /\ last \in {0} \cup unfinished
      /\ \A r \in unfinished : r <= last
  <2>1. unfinished \in SUBSET (1 .. MaxSessions)
    BY DEF SessionId
  <2> HIDE DEF unfinished
  <2> QED
    BY <1>2, <2>1, MaxUpTo
<1> HIDE DEF last
<1>4. /\ status' \in [Peer -> {"new", "live", "swept", "gone"}] /\ Live' = {}
      /\ faults' \in 0 .. MaxFaults
  BY <1>1, <1>2 DEF DInv, Live
<1>5. HostsOK(host', {}) /\ \A p \in Peer : host'[p].reserved = NoSlots
  BY <1>1, FreshHostOK DEF HostsOK
<1>6. nextSession \in 1 .. MaxSessions + 1
  BY DEF DInv, Idle, Ready
<1>7. Held(c, last, nextSession)
  <2>1. ASSUME NEW r \in SessionId, c[r].opened, c[r].summary = "none", ~c[r].refused
        PROVE  r = last /\ \A o \in SessionId : c[o].opened /\ c[o].summary = "none" => o <= r
    <3>1. \A o \in unfinished : o <= r
      BY <2>1 DEF Held
    <3>2. last = 0 \/ last <= r
      BY <1>3, <3>1
    <3>3. r <= last /\ r \in Nat /\ r >= 1
      BY <1>2, <1>3, <2>1 DEF SessionId
    <3>4. last \in Nat
      BY <1>2, <1>3 DEF SessionId
    <3> QED
      BY <3>1, <3>2, <3>3, <3>4
  <2> QED
    BY <2>1 DEF Held
<1>8. MessagesOK({}, nextSession)
  BY DEF MessagesOK
<1>9. /\ last \in {0} \cup SessionId
      /\ last # 0 => c[last].opened /\ c[last].summary = "none"
  BY <1>3
<1>10. Idle(host', {}, c, {}, nextSession, last)
  BY <1>5, <1>6, <1>7, <1>8, <1>9 DEF Idle
<1>11. ClosedStay
  BY <1>1 DEF ClosedStay
<1> QED
  BY <1>1, <1>4, <1>10, <1>11 DEF DInv

LEMMA CrashStep ==
  ASSUME DInv, Crash
  PROVE  DInv' /\ ClosedStay
<1>1. CorpusOK(corpus) /\ \E id : Held(corpus, id, nextSession)
  BY DEF DInv, Idle, Ready
<1> QED
  BY <1>1, RebootStep DEF Crash

(* A message about the running session: about its batch, if that is still  *)
(* out, and in a session of two stages no other message is about it.       *)
LEMMA AddressedFacts ==
  ASSUME DInv, NEW a \in owed, Addressed(a)
  PROVE  /\ session # NoSession /\ a.session = session.id
         /\ a \in Message /\ MessageFits(session, a)
         /\ TwoStage => \A m \in owed \ {a} :
              m.session = session.id => m.batch # a.batch
<1>1. session # NoSession /\ a.session = session.id
  BY DEF Addressed
<1>2. owed \subseteq Message /\ MessagesFit(session, owed)
  BY <1>1, RunningFacts DEF MessagesOK
<1>3. a \in Message /\ MessageFits(session, a)
  BY <1>1, <1>2 DEF MessagesFit
<1>4. ASSUME TwoStage, NEW m \in owed, m.session = session.id, m.batch = a.batch
      PROVE  m = a
  <2>1. m \in Message /\ MessageFits(session, m)
    BY <1>2, <1>4 DEF MessagesFit
  <2>2. [peer |-> m.peer, policies |-> m.policies] = [peer |-> a.peer, policies |-> a.policies]
    BY <1>3, <1>4, <2>1 DEF MessageFits
  <2>3. m.peer = a.peer /\ m.policies = a.policies
    BY <2>2
  <2>4. m.coarse = a.coarse
    <3>1. m.coarse \in BOOLEAN /\ a.coarse \in BOOLEAN
      BY <1>3, <2>1 DEF Message
    <3>2. (m.coarse <=> session.stage = "coarse") /\ (a.coarse <=> session.stage = "coarse")
      BY <1>3, <2>1 DEF MessageFits
    <3> QED
      BY <3>1, <3>2, Zenon
  <2> QED
    BY <1>1, <1>3, <1>4, <2>1, <2>3, <2>4 DEF Message
<1> QED
  BY <1>1, <1>3, <1>4

LEMMA OutstandingFacts ==
  ASSUME DInv, NEW a \in owed, Outstanding(a)
  PROVE  /\ Addressed(a) /\ a.batch \in DOMAIN session.queue.inFlight
         /\ session.queue.inFlight[a.batch] = [peer |-> a.peer, policies |-> a.policies]
         /\ a.policies \in Seq(Policy) /\ IsInjective(a.policies)
         /\ Range(a.policies) = PoliciesOf(session.queue, a.batch)
         /\ a.coarse <=> session.stage = "coarse"
<1>1. Addressed(a) /\ a.batch \in DOMAIN session.queue.inFlight
  BY DEF Outstanding
<1>2. session # NoSession /\ a \in Message /\ MessageFits(session, a)
  BY <1>1, AddressedFacts
<1>3. BatchesDisjoint(session.queue)
  BY <1>2, RunningFacts DEF QueueInv
<1>4. /\ session.queue.inFlight[a.batch] = [peer |-> a.peer, policies |-> a.policies]
      /\ a.coarse <=> session.stage = "coarse"
  BY <1>1, <1>2 DEF MessageFits
<1>5. session.queue.inFlight[a.batch].policies = a.policies
  BY <1>4
<1> QED
  BY <1>1, <1>2, <1>3, <1>4, <1>5 DEF BatchesDisjoint, PoliciesOf, Message

(* The hosts' books after the sender's record lost the batch.              *)
LEMMA SenderHosts ==
  ASSUME DInv, NEW a \in owed, Addressed(a), NEW rec, HostRecord(a.peer, rec),
         DOMAIN rec.reserved = DOMAIN host[a.peer].reserved \ {a.batch}
  PROVE  /\ HostsOK(Sender(a, rec), Live)
         /\ \A p \in Live :
              DOMAIN Sender(a, rec)[p].reserved = BatchesOf(session.queue, p) \ {a.batch}
<1> DEFINE h == Sender(a, rec)
<1>1. /\ session # NoSession /\ a \in Message /\ MessageFits(session, a)
      /\ a.peer \in Peer
  BY AddressedFacts DEF Message
<1>2. HostsOK(host, Live) /\ BooksAgree(session.queue, host, Live)
  BY <1>1, RunningFacts
<1>3. /\ DOMAIN h = Peer /\ h = [p \in Peer |-> h[p]]
      /\ \A p \in Peer : h[p] = IF p = a.peer /\ p \in Live THEN rec ELSE host[p]
  BY <1>1, <1>2 DEF Sender, HostsOK, Live
<1> HIDE DEF h
<1>4. HostsOK(h, Live)
  BY <1>2, <1>3 DEF HostsOK
<1>5. ASSUME NEW p \in Live
      PROVE  DOMAIN h[p].reserved = BatchesOf(session.queue, p) \ {a.batch}
  <2>1. p \in Peer /\ DOMAIN host[p].reserved = BatchesOf(session.queue, p)
    BY <1>2 DEF Live, BooksAgree
  <2>2. CASE p = a.peer
    BY <1>3, <2>1, <2>2
  <2>3. CASE p # a.peer
    <3>1. a.batch \in DOMAIN session.queue.inFlight =>
            session.queue.inFlight[a.batch] = [peer |-> a.peer, policies |-> a.policies]
      BY <1>1 DEF MessageFits
    <3>2. a.batch \notin BatchesOf(session.queue, p)
      BY <2>3, <3>1 DEF BatchesOf
    <3> QED
      BY <1>3, <2>1, <2>3, <3>2
  <2> QED
    BY <2>2, <2>3
<1> QED
  BY <1>4, <1>5 DEF h

(* A handler that takes one batch away, wherever its answer leaves the     *)
(* policies, and pumps.                                                    *)
LEMMA AnswerStep ==
  ASSUME DInv, NEW a \in owed, Addressed(a), NEW t, NEW rec, NEW c,
         HostRecord(a.peer, rec), DOMAIN rec.reserved = DOMAIN host[a.peer].reserved \ {a.batch},
         SessionOK(t, c), t.id = session.id, t.stage = session.stage,
         DOMAIN t.queue.inFlight = DOMAIN session.queue.inFlight \ {a.batch},
         \A b \in DOMAIN t.queue.inFlight : t.queue.inFlight[b] = session.queue.inFlight[b],
         t.queue.nextBatchSeq = session.queue.nextBatchSeq,
         CorpusOK(c), Held(c, session.id, nextSession),
         \A r \in SessionId : r # session.id => c[r] = corpus[r],
         Pump(t, Sender(a, rec), owed \ {a}, c, Live),
         status' = status, resumable' = resumable, nextSession' = nextSession,
         faults' \in 0 .. MaxFaults
  PROVE  DInv' /\ ClosedStay
<1> DEFINE h == Sender(a, rec)
           m == owed \ {a}
           S == {a.batch}
<1>1. /\ session # NoSession
      /\ TwoStage => \A o \in m : o.session = session.id => o.batch \notin S
  BY AddressedFacts
<1>2. /\ Ready(session, host, owed, corpus, Live, nextSession) /\ resumable = 0
      /\ corpus[session.id].summary = "none" /\ BooksAgree(session.queue, host, Live)
  BY <1>1, RunningFacts
<1>3. /\ HostsOK(h, Live)
      /\ \A p \in Live : DOMAIN h[p].reserved = BatchesOf(session.queue, p) \ S
  BY SenderHosts
<1>4. \A b \in DOMAIN t.queue.inFlight :
        t.queue.inFlight[b] = session.queue.inFlight[b] /\ session.queue.inFlight[b].peer \in Live
  BY <1>2 DEF BooksAgree
<1>5. DOMAIN t.queue.inFlight = DOMAIN session.queue.inFlight \ S
  OBVIOUS
<1>6. m \in SUBSET owed /\ Live \in SUBSET Peer
  BY DEF Live
<1>7. Pump(t, h, m, c, Live)
  OBVIOUS
<1> HIDE DEF h, m, S
<1>8. Ready(t, h, m, c, Live, nextSession)
  BY <1>1, <1>2, <1>3, <1>4, <1>5, <1>6, ShrinkKeepsReady
<1>9. /\ status' \in [Peer -> {"new", "live", "swept", "gone"}] /\ Live' = Live
      /\ resumable' = 0
  BY <1>2 DEF DInv, Live
<1>10. /\ Ready(t, h, m, c, Live, nextSession') /\ corpus[t.id].summary = "none"
       /\ \A r \in SessionId : r # t.id => c[r] = corpus[r]
  BY <1>2, <1>8
<1> QED
  BY <1>7, <1>9, <1>10, PumpStep

(* The sender's record with the batch's slots released.                    *)
LEMMA RecordWithout ==
  ASSUME DInv, NEW a \in owed, Addressed(a), NEW rec,
         rec.reserved = Without(a), RecordType(rec), host[a.peer].warmed => rec.warmed
  PROVE  /\ HostRecord(a.peer, rec)
         /\ DOMAIN rec.reserved = DOMAIN host[a.peer].reserved \ {a.batch}
<1>1. session # NoSession /\ a.peer \in Peer
  BY AddressedFacts DEF Message
<1>2. HostRecord(a.peer, host[a.peer])
  BY <1>1, RunningFacts DEF HostsOK
<1> DEFINE r == host[a.peer].reserved
           w == [b \in DOMAIN r \ {a.batch} |-> r[b]]
<1>3. rec.reserved = w
  BY DEF Without, Restrict
<1>4. /\ DOMAIN rec.reserved = DOMAIN r \ {a.batch}
      /\ rec.reserved = [b \in DOMAIN rec.reserved |-> r[b]]
  BY <1>3
<1> HIDE DEF w
<1> QED
  BY <1>1, <1>2, <1>4, LesserRecord

(* A refusal, or a short answer: the batch goes back.                      *)
LEMMA GiveBackStep ==
  ASSUME DInv, NEW a \in owed, Addressed(a), NEW count \in BOOLEAN, NEW rec, NEW q,
         HostRecord(a.peer, rec), DOMAIN rec.reserved = DOMAIN host[a.peer].reserved \ {a.batch},
         q = IF a.batch \in DOMAIN session.queue.inFlight
             THEN Requeue(session.queue, {a.batch}, count) ELSE session.queue,
         Pump([session EXCEPT !.queue = q], Sender(a, rec), owed \ {a}, corpus, Live),
         status' = status, resumable' = resumable, nextSession' = nextSession,
         faults' \in 0 .. MaxFaults
  PROVE  DInv' /\ ClosedStay
<1> DEFINE t == [session EXCEPT !.queue = q]
<1>1. session # NoSession
  BY AddressedFacts
<1>2. /\ SessionOK(session, corpus) /\ CorpusOK(corpus)
      /\ Held(corpus, session.id, nextSession)
      /\ QueueInv(session.queue, session.built, session.prior)
  BY <1>1, RunningFacts
<1>3. t.id = session.id /\ t.stage = session.stage /\ t.queue = q
  BY <1>2, SwapQueue
<1>4. /\ SessionOK(t, corpus)
      /\ DOMAIN q.inFlight = DOMAIN session.queue.inFlight \ {a.batch}
      /\ \A b \in DOMAIN q.inFlight : q.inFlight[b] = session.queue.inFlight[b]
      /\ q.nextBatchSeq = session.queue.nextBatchSeq
  <2>1. CASE a.batch \in DOMAIN session.queue.inFlight
    <3>1. {a.batch} \in SUBSET DOMAIN session.queue.inFlight
      BY <2>1
    <3> DEFINE k == Requeue(session.queue, {a.batch}, count)
    <3>2. /\ SessionOK([session EXCEPT !.queue = k], corpus)
          /\ DOMAIN k.inFlight = DOMAIN session.queue.inFlight \ {a.batch}
          /\ \A b \in DOMAIN k.inFlight : k.inFlight[b] = session.queue.inFlight[b]
          /\ k.nextBatchSeq = session.queue.nextBatchSeq
      BY <1>2, <3>1, RequeueKeepsSession
    <3>3. q = k
      BY <2>1
    <3> HIDE DEF k
    <3> QED
      BY <3>2, <3>3
  <2>2. CASE a.batch \notin DOMAIN session.queue.inFlight
    <3>1. q = session.queue
      BY <2>2
    <3>2. SessionOK(t, corpus)
      BY <1>2, <3>1, SwapQueueKeepsSession
    <3> QED
      BY <2>2, <3>1, <3>2
  <2> QED
    BY <2>1, <2>2
<1> HIDE DEF t
<1>5. Pump(t, Sender(a, rec), owed \ {a}, corpus, Live)
  BY DEF t
<1> QED
  BY <1>2, <1>3, <1>4, <1>5, AnswerStep

LEMMA NackStep ==
  ASSUME DInv, NEW a \in owed, NEW capacity \in BOOLEAN, Nack(a, capacity)
  PROVE  DInv' /\ ClosedStay
<1> DEFINE q == IF a.batch \in DOMAIN session.queue.inFlight
                THEN Requeue(session.queue, {a.batch}, ~capacity) ELSE session.queue
           rec == [host[a.peer] EXCEPT !.reserved = Without(a), !.cooling = TRUE]
<1>1. /\ Addressed(a) /\ faults < MaxFaults /\ faults' = faults + 1
      /\ Pump([session EXCEPT !.queue = q], Sender(a, rec), owed \ {a}, corpus, Live)
      /\ status' = status /\ resumable' = resumable /\ nextSession' = nextSession
  BY DEF Nack, RequeueBatch
<1>2. session # NoSession /\ a.peer \in Peer
  BY <1>1, AddressedFacts DEF Message
<1>3. HostRecord(a.peer, host[a.peer])
  BY <1>2, RunningFacts DEF HostsOK
<1>4. /\ rec.reserved = Without(a) /\ RecordType(rec)
      /\ host[a.peer].warmed => rec.warmed
  BY <1>3 DEF HostRecord, RecordType
<1>5. faults' \in 0 .. MaxFaults /\ (~capacity) \in BOOLEAN
  BY <1>1, DispatcherAssumption DEF DInv
<1> HIDE DEF q, rec
<1>6. /\ HostRecord(a.peer, rec) /\ DOMAIN rec.reserved = DOMAIN host[a.peer].reserved \ {a.batch}
  BY <1>1, <1>4, RecordWithout
<1>7. q = IF a.batch \in DOMAIN session.queue.inFlight
          THEN Requeue(session.queue, {a.batch}, ~capacity) ELSE session.queue
  BY DEF q
<1> QED
  BY <1>1, <1>5, <1>6, <1>7, GiveBackStep

LEMMA ShortResultStep ==
  ASSUME DInv, NEW a \in owed, NEW E, ShortResult(a, E)
  PROVE  DInv' /\ ClosedStay
<1> DEFINE T == INCOMPLETE_RESULT_QUARANTINE_THRESHOLD
           more == LesserOf(host[a.peer].incomplete + 1, T)
           q == Requeue(session.queue, {a.batch}, FALSE)
           rec == [host[a.peer] EXCEPT !.reserved = Without(a), !.cooling = TRUE,
                                       !.incomplete = more]
<1>1. /\ Outstanding(a) /\ faults < MaxFaults /\ faults' = faults + 1
      /\ Pump([session EXCEPT !.queue = q],
              Sender(a, [host[a.peer] EXCEPT
                           !.reserved = Without(a), !.cooling = TRUE,
                           !.incomplete = LesserOf(@ + 1, T)]), owed \ {a}, corpus, Live)
      /\ status' = status /\ resumable' = resumable /\ nextSession' = nextSession
  BY DEF ShortResult, RequeueBatch
<1>2. Addressed(a) /\ a.batch \in DOMAIN session.queue.inFlight
  BY <1>1, OutstandingFacts
<1>3. session # NoSession /\ a.peer \in Peer
  BY <1>2, AddressedFacts DEF Message
<1>4. HostRecord(a.peer, host[a.peer])
  BY <1>3, RunningFacts DEF HostsOK
<1>5. T \in Nat /\ host[a.peer].incomplete \in 0 .. T
  BY <1>4, DispatcherAssumption DEF HostRecord, RecordType
<1>6. more \in 0 .. T
  BY <1>5 DEF LesserOf
<1>7. rec = [host[a.peer] EXCEPT
               !.reserved = Without(a), !.cooling = TRUE, !.incomplete = LesserOf(@ + 1, T)]
  <2> DEFINE r == [host[a.peer] EXCEPT !.reserved = Without(a), !.cooling = TRUE]
  <2>1. r.incomplete = host[a.peer].incomplete
    BY <1>4 DEF HostRecord, RecordType
  <2> QED
    BY <2>1
<1> HIDE DEF more
<1>8. /\ rec.reserved = Without(a) /\ RecordType(rec)
      /\ host[a.peer].warmed => rec.warmed
  BY <1>4, <1>6 DEF HostRecord, RecordType
<1>9. faults' \in 0 .. MaxFaults
  BY <1>1, DispatcherAssumption DEF DInv
<1> DEFINE q2 == IF a.batch \in DOMAIN session.queue.inFlight
                 THEN Requeue(session.queue, {a.batch}, FALSE) ELSE session.queue
<1>10. q = q2
  BY <1>2
<1> HIDE DEF q, q2, rec
<1>11. /\ HostRecord(a.peer, rec) /\ DOMAIN rec.reserved = DOMAIN host[a.peer].reserved \ {a.batch}
  BY <1>2, <1>8, RecordWithout
<1>12. Pump([session EXCEPT !.queue = q], Sender(a, rec), owed \ {a}, corpus, Live)
  BY <1>1, <1>7
<1>13. q = IF a.batch \in DOMAIN session.queue.inFlight
           THEN Requeue(session.queue, {a.batch}, FALSE) ELSE session.queue
  BY <1>10 DEF q2
<1> QED
  BY <1>1, <1>2, <1>9, <1>11, <1>12, <1>13, GiveBackStep

(* As many evaluations as the batch has policies are all of them.          *)
LEMMA WholeAnswer ==
  ASSUME DInv, NEW a \in owed, Outstanding(a), NEW E \in SUBSET Range(a.policies),
         Cardinality(E) = Expected(a)
  PROVE  E = PoliciesOf(session.queue, a.batch) /\ E \subseteq InFlightPolicies(session.queue)
<1>1. /\ a.batch \in DOMAIN session.queue.inFlight
      /\ session.queue.inFlight[a.batch] = [peer |-> a.peer, policies |-> a.policies]
      /\ a.policies \in Seq(Policy) /\ IsInjective(a.policies)
      /\ Range(a.policies) = PoliciesOf(session.queue, a.batch)
  BY OutstandingFacts
<1>2. IsFiniteSet(Range(a.policies)) /\ Cardinality(Range(a.policies)) = Len(a.policies)
  BY <1>1, InjectiveLength
<1>3. Expected(a) = Len(a.policies)
  BY <1>1 DEF Expected
<1>4. E = Range(a.policies)
  BY <1>2, <1>3, FS_Subset
<1> QED
  BY <1>1, <1>4 DEF InFlightPolicies

(* The files of the session after a whole answer was appended.             *)
LEMMA AppendedFacts ==
  ASSUME DInv, NEW a \in owed, Outstanding(a), NEW E \in SUBSET Range(a.policies),
         Cardinality(E) = Expected(a), session.stage # "coarse"
  PROVE  LET c == Appended(a, E)
             id == session.id
         IN  /\ CorpusOK(c) /\ Held(c, id, nextSession)
             /\ \A r \in SessionId : r # id => c[r] = corpus[r]
             /\ c[id].opened /\ c[id].summary = "none"
             /\ \A p \in Policy :
                  /\ corpus[id].full[p] \in Nat
                  /\ c[id].full[p] = corpus[id].full[p] +
                       IF p \in PoliciesOf(session.queue, a.batch) THEN 1 ELSE 0
<1> DEFINE c == Appended(a, E)
           id == session.id
           f == corpus[id]
           lines == [p \in Policy |-> f.full[p] + Keeps(E)[p]]
           f2 == [f EXCEPT !.full = lines]
<1>1. /\ Addressed(a) /\ (a.coarse <=> session.stage = "coarse")
      /\ session # NoSession /\ a.session = id /\ a \in Message
  BY OutstandingFacts, AddressedFacts
<1>2. ~a.coarse
  BY <1>1
<1>3. /\ CorpusOK(corpus) /\ Held(corpus, id, nextSession) /\ id \in SessionId
      /\ f.opened /\ f.summary = "none" /\ SessionOK(session, corpus) /\ id < nextSession
      /\ nextSession \in 1 .. MaxSessions + 1
  BY <1>1, RunningFacts DEF Ready
<1>4. /\ corpus \in [SessionId -> CorpusType] /\ f \in CorpusType
      /\ \A r \in SessionId : FileOK(corpus[r])
  BY <1>3 DEF CorpusOK
<1>5. c = [corpus EXCEPT ![id] = f2]
  BY <1>1, <1>2 DEF Appended
<1>6. /\ E = PoliciesOf(session.queue, a.batch)
      /\ E \subseteq InFlightPolicies(session.queue)
  BY WholeAnswer
<1>7. \A p \in Policy : /\ f.full[p] \in Nat /\ f.full[p] <= 1 /\ f.coarse[p] = 0
                        /\ p \in E => f.full[p] = 0
  <2>1. StageOK(session, f)
    BY <1>3, QueueOf
  <2>2. \A p \in InFlightPolicies(session.queue) : f.full[p] = 0
    BY <2>1 DEF StageOK
  <2> QED
    BY <1>4, <1>3, <1>6, <2>2 DEF CorpusType, FileOK
<1>8. /\ lines \in [Policy -> Nat]
      /\ \A p \in Policy : /\ lines[p] = f.full[p] + IF p \in E THEN 1 ELSE 0
                           /\ lines[p] <= 1
  <2>1. \A p \in Policy : lines[p] = f.full[p] + IF p \in E THEN 1 ELSE 0
    BY DEF Keeps
  <2>2. DOMAIN lines = Policy
    OBVIOUS
  <2>3. \A p \in Policy : lines[p] \in Nat /\ lines[p] <= 1
    BY <2>1, <1>7
  <2> QED
    BY <2>1, <2>2, <2>3
<1> HIDE DEF lines, f
<1>9. /\ f2 \in CorpusType /\ f2.full = lines /\ f2.coarse = f.coarse
      /\ f2.opened = f.opened /\ f2.summary = f.summary /\ f2.refused = f.refused
  BY <1>4, <1>8 DEF CorpusType
<1> HIDE DEF f2, c
<1>10. /\ c \in [SessionId -> CorpusType] /\ c[id] = f2
       /\ \A r \in SessionId : r # id => c[r] = corpus[r]
  BY <1>3, <1>4, <1>5, <1>9
<1>11. FileOK(f2)
  BY <1>3, <1>7, <1>8, <1>9 DEF FileOK
<1>12. CorpusOK(c)
  BY <1>4, <1>10, <1>11 DEF CorpusOK
<1>13. Held(c, id, nextSession)
  <2>1. \A r \in SessionId : /\ c[r].opened = corpus[r].opened
                             /\ c[r].summary = corpus[r].summary
                             /\ c[r].refused = corpus[r].refused
    BY <1>9, <1>10 DEF f
  <2>2. ASSUME NEW r \in SessionId, r >= nextSession PROVE c[r] = NoCorpus
    <3>1. r # id
      BY <1>3, <2>2, DispatcherAssumption DEF SessionId
    <3> QED
      BY <3>1, <2>2, <1>3, <1>10 DEF Held
  <2> QED
    BY <1>3, <2>1, <2>2 DEF Held
<1>14. c[id].opened /\ c[id].summary = "none"
  BY <1>3, <1>9, <1>10 DEF f
<1>15. \A p \in Policy :
         /\ f.full[p] \in Nat
         /\ c[id].full[p] = f.full[p] +
              IF p \in PoliciesOf(session.queue, a.batch) THEN 1 ELSE 0
  BY <1>6, <1>7, <1>8, <1>9, <1>10
<1> QED
  BY <1>10, <1>12, <1>13, <1>14, <1>15 DEF c, f

LEMMA FullResultStep ==
  ASSUME DInv, NEW a \in owed, NEW E \in SUBSET Range(a.policies), FullResult(a, E)
  PROVE  DInv' /\ ClosedStay
<1> DEFINE q == CompleteBatch(session.queue, a.batch)
           u == Evaluations(a, E)
           v == IF session.stage = "coarse" THEN session.buffer \o u ELSE session.buffer
           t == [session EXCEPT !.queue = q, !.buffer = v]
           rec == [host[a.peer] EXCEPT !.reserved = Without(a), !.warmed = TRUE]
           c == IF session.stage = "coarse" THEN corpus ELSE Appended(a, E)
<1>1. /\ Outstanding(a) /\ Cardinality(E) = Expected(a)
      /\ Pump([session EXCEPT
                 !.queue = CompleteBatch(@, a.batch),
                 !.buffer = IF session.stage = "coarse" THEN @ \o u ELSE @],
              Sender(a, rec), owed \ {a}, c, Live)
      /\ status' = status /\ resumable' = resumable /\ nextSession' = nextSession
      /\ faults' = faults
  BY DEF FullResult
<1>2. /\ Addressed(a) /\ a.batch \in DOMAIN session.queue.inFlight
      /\ a.policies \in Seq(Policy) /\ IsInjective(a.policies)
      /\ Range(a.policies) = PoliciesOf(session.queue, a.batch)
  BY <1>1, OutstandingFacts
<1>3. session # NoSession /\ a.peer \in Peer
  BY <1>2, AddressedFacts DEF Message
<1>4. /\ SessionOK(session, corpus) /\ HostRecord(a.peer, host[a.peer])
      /\ CorpusOK(corpus) /\ Held(corpus, session.id, nextSession)
      /\ corpus[session.id].opened /\ corpus[session.id].summary = "none"
      /\ QueueTypeOK(session.queue) /\ session.id \in SessionId
  BY <1>3, RunningFacts DEF HostsOK, QueueInv
<1>5. E = PoliciesOf(session.queue, a.batch)
  BY <1>1, WholeAnswer
<1>6. /\ u \in Seq(Policy) /\ IsInjective(u)
      /\ Range(u) = PoliciesOf(session.queue, a.batch)
  <2>1. /\ u \in Seq(Policy) /\ IsInjective(u) /\ Range(u) = Range(a.policies) \cap E
    BY <1>2, QueueAssumption, KeepOnlyProperties DEF Evaluations
  <2> QED
    BY <2>1, <1>2, <1>5
<1> HIDE DEF u
<1>7. /\ CorpusOK(c) /\ Held(c, session.id, nextSession)
      /\ \A r \in SessionId : r # session.id => c[r] = corpus[r]
      /\ c[session.id].opened /\ c[session.id].summary = "none"
      /\ \A p \in Policy : corpus[session.id].full[p] \in Nat
      /\ Recorded(session, a.batch, corpus[session.id], c[session.id])
  <2>1. CASE session.stage = "coarse"
    <3>1. c = corpus
      BY <2>1
    <3>2. \A p \in Policy : corpus[session.id].full[p] \in Nat
      BY <1>4 DEF CorpusOK, CorpusType
    <3> HIDE DEF c
    <3> QED
      BY <2>1, <3>1, <3>2, <1>4 DEF Recorded
  <2>2. CASE session.stage # "coarse"
    <3>1. c = Appended(a, E)
      BY <2>2
    <3> HIDE DEF c
    <3> QED
      BY <1>1, <2>2, <3>1, AppendedFacts DEF Recorded
  <2> QED
    BY <2>1, <2>2
<1> HIDE DEF c
<1>8. SessionOK(t, c)
  <2>1. SessionOK(Finished(session, a.batch, u), c)
    BY <1>2, <1>4, <1>6, <1>7, CompleteKeepsSession
  <2> QED
    BY <2>1 DEF Finished
<1>9. t.id = session.id /\ t.stage = session.stage /\ t.queue = q
  BY <1>4 DEF SessionOK
<1>10. /\ DOMAIN q.inFlight = DOMAIN session.queue.inFlight \ {a.batch}
       /\ \A b \in DOMAIN q.inFlight : q.inFlight[b] = session.queue.inFlight[b]
       /\ q.nextBatchSeq = session.queue.nextBatchSeq
  BY <1>2, <1>4, CompleteBatchFields
<1>11. /\ rec.reserved = Without(a) /\ RecordType(rec)
       /\ host[a.peer].warmed => rec.warmed
  BY <1>4 DEF HostRecord, RecordType
<1>12. t = [session EXCEPT
              !.queue = CompleteBatch(@, a.batch),
              !.buffer = IF session.stage = "coarse" THEN @ \o u ELSE @]
  <2> DEFINE t1 == [session EXCEPT !.queue = q]
  <2>1. t1.buffer = session.buffer
    BY <1>4, SwapQueue
  <2> QED
    BY <2>1
<1> HIDE DEF t, rec
<1>13. Pump(t, Sender(a, rec), owed \ {a}, c, Live)
  BY <1>1, <1>12
<1>14. faults' \in 0 .. MaxFaults
  BY <1>1 DEF DInv
<1>15. /\ HostRecord(a.peer, rec) /\ DOMAIN rec.reserved = DOMAIN host[a.peer].reserved \ {a.batch}
  BY <1>2, <1>11, RecordWithout
<1>16. /\ DOMAIN t.queue.inFlight = DOMAIN session.queue.inFlight \ {a.batch}
       /\ \A b \in DOMAIN t.queue.inFlight : t.queue.inFlight[b] = session.queue.inFlight[b]
       /\ t.queue.nextBatchSeq = session.queue.nextBatchSeq
  BY <1>9, <1>10
<1> QED
  BY <1>1, <1>2, <1>7, <1>8, <1>9, <1>13, <1>14, <1>15, <1>16, AnswerStep

LEMMA AppendThrowsStep ==
  ASSUME DInv, NEW a \in owed, NEW E, AppendThrows(a, E)
  PROVE  DInv' /\ ClosedStay
<1>1. /\ owed' \in SUBSET owed /\ status' = status /\ host' = host
      /\ session' = session /\ resumable' = resumable /\ corpus' = corpus
      /\ nextSession' = nextSession /\ faults < MaxFaults /\ faults' = faults + 1
  BY DEF AppendThrows
<1>2. /\ faults' \in 0 .. MaxFaults /\ Live' = Live
      /\ status' \in [Peer -> {"new", "live", "swept", "gone"}]
  BY <1>1, DispatcherAssumption DEF DInv, Live
<1> QED
  BY <1>1, <1>2, FewerMessages

LEMMA IgnoredStep ==
  ASSUME DInv, NEW a \in owed, IgnoredResult(a) \/ IgnoredNack(a)
  PROVE  DInv' /\ ClosedStay
<1>1. /\ owed' \in SUBSET owed /\ status' = status /\ host' = host
      /\ session' = session /\ resumable' = resumable /\ corpus' = corpus
      /\ nextSession' = nextSession /\ faults' = faults
  BY DEF IgnoredResult, IgnoredNack
<1>2. /\ faults' \in 0 .. MaxFaults /\ Live' = Live
      /\ status' \in [Peer -> {"new", "live", "swept", "gone"}]
  BY <1>1 DEF DInv, Live
<1> QED
  BY <1>1, <1>2, FewerMessages

(* Between the append and the queue's hearing of it the files are ahead of *)
(* the memory that is lost.                                                *)
LEMMA CrashAfterAppendStep ==
  ASSUME DInv, NEW a \in owed, NEW E \in SUBSET Range(a.policies), CrashAfterAppend(a, E)
  PROVE  DInv' /\ ClosedStay
<1> DEFINE c == Appended(a, E)
<1>1. /\ Outstanding(a) /\ Cardinality(E) = Expected(a) /\ session.stage # "coarse"
      /\ Reboot(c)
  BY DEF CrashAfterAppend
<1>2. session # NoSession
  BY <1>1 DEF Outstanding, Addressed
<1>3. corpus[session.id].summary = "none"
  BY <1>2, RunningFacts
<1>4. /\ CorpusOK(c) /\ Held(c, session.id, nextSession)
      /\ \A r \in SessionId : r # session.id => c[r] = corpus[r]
  BY <1>1, AppendedFacts
<1> HIDE DEF c
<1> QED
  BY <1>1, <1>3, <1>4, RebootStep

LEMMA CooldownStep ==
  ASSUME DInv, NEW p \in Peer, CooldownEnds(p)
  PROVE  DInv' /\ ClosedStay
<1>1. /\ p \in Live /\ host' = [host EXCEPT ![p].cooling = FALSE]
      /\ status' = status /\ session' = session /\ resumable' = resumable
      /\ corpus' = corpus /\ owed' = owed /\ nextSession' = nextSession /\ faults' = faults
  BY DEF CooldownEnds, Live
<1>2. HostsOK(host, Live)
  BY DEF DInv, Idle, Ready
<1> DEFINE rec == [host[p] EXCEPT !.cooling = FALSE]
<1>3. HostRecord(p, host[p])
  BY <1>2 DEF HostsOK
<1>4. HostRecord(p, rec) /\ rec.reserved = host[p].reserved
  <2>1. /\ rec.reserved = host[p].reserved /\ rec.warmed = host[p].warmed
        /\ RecordType(rec)
    BY <1>3 DEF HostRecord, RecordType
  <2>2. rec.reserved = [b \in DOMAIN rec.reserved |-> host[p].reserved[b]]
    BY <1>3, <2>1 DEF HostRecord
  <2> HIDE DEF rec
  <2> QED
    BY <1>3, <2>1, <2>2, LesserRecord
<1> HIDE DEF rec
<1>5. /\ DOMAIN host' = Peer /\ host' = [r \in Peer |-> host'[r]]
      /\ \A r \in Peer : host'[r] = IF r = p THEN rec ELSE host[r]
  <2>1. host' = [host EXCEPT ![p] = rec]
    BY <1>1 DEF rec
  <2> QED
    BY <2>1, <1>2 DEF HostsOK
<1>6. /\ HostsOK(host', Live)
      /\ \A r \in Peer : host'[r].reserved = host[r].reserved
  BY <1>1, <1>2, <1>4, <1>5 DEF HostsOK
<1>7. ClosedStay /\ Live' = Live /\ Live \in SUBSET Peer
  BY <1>1 DEF ClosedStay, Live
<1>8. CASE session = NoSession
  <2>1. Idle(host, owed, corpus, Live, nextSession, resumable)
    BY <1>8 DEF DInv
  <2>2. Idle(host', owed, corpus, Live, nextSession, resumable)
    BY <2>1, <1>6 DEF Idle
  <2> QED
    BY <1>1, <1>7, <1>8, <2>2 DEF DInv
<1>9. CASE session # NoSession
  <2>1. BooksAgree(session.queue, host, Live) /\ resumable = 0
    BY <1>9, RunningFacts
  <2>2. /\ \A r \in Live : DOMAIN host'[r].reserved = BatchesOf(session.queue, r)
        /\ \A b \in DOMAIN session.queue.inFlight : session.queue.inFlight[b].peer \in Live
    BY <2>1, <1>6, <1>7 DEF BooksAgree
  <2>3. Ready(session, host', owed, corpus, Live, nextSession)
    BY <1>6, <1>7, <1>9, <2>2, LoseMessages
  <2> QED
    BY <1>1, <1>7, <1>9, <2>1, <2>3 DEF DInv
<1> QED
  BY <1>8, <1>9

LEMMA FailsafeStep ==
  ASSUME DInv, FailsafePump
  PROVE  DInv' /\ ClosedStay
<1>1. /\ session # NoSession /\ Pump(session, host, owed, corpus, Live)
      /\ status' = status /\ resumable' = resumable /\ nextSession' = nextSession
      /\ faults' = faults
  BY DEF FailsafePump
<1>2. /\ Ready(session, host, owed, corpus, Live, nextSession) /\ resumable = 0
      /\ corpus[session.id].summary = "none"
  BY <1>1, RunningFacts
<1>3. /\ status' \in [Peer -> {"new", "live", "swept", "gone"}] /\ Live' = Live
      /\ faults' \in 0 .. MaxFaults /\ resumable' = 0
      /\ Ready(session, host, owed, corpus, Live, nextSession')
      /\ \A r \in SessionId : r # session.id => corpus[r] = corpus[r]
  BY <1>1, <1>2 DEF DInv, Live
<1> QED
  BY <1>1, <1>2, <1>3, PumpStep
-----------------------------------------------------------------------------
(* Every step keeps the invariant and the files of finished sessions.      *)
LEMMA StepKeeps ==
  ASSUME NoLateCoarse, DInv, [Next]_dispatcherVars
  PROVE  DInv' /\ ClosedStay
<1>1. CASE UNCHANGED dispatcherVars
  <2>1. /\ owed' \in SUBSET owed /\ status' = status /\ host' = host
        /\ session' = session /\ resumable' = resumable /\ corpus' = corpus
        /\ nextSession' = nextSession /\ faults' = faults
    BY <1>1 DEF dispatcherVars
  <2>2. /\ faults' \in 0 .. MaxFaults /\ Live' = Live
        /\ status' \in [Peer -> {"new", "live", "swept", "gone"}]
    BY <2>1 DEF DInv, Live
  <2> QED
    BY <2>1, <2>2, FewerMessages
<1>2. CASE \E p \in Peer : Register(p) \/ Disconnect(p) \/ SweepStale(p)
                           \/ SocketCloses(p) \/ CooldownEnds(p)
  BY <1>2, RegisterStep, DisconnectStep, SweepStep, SocketClosesStep, CooldownStep
<1>3. CASE StartFresh
  BY <1>3, StartFreshStep
<1>4. CASE StartResumed
  BY <1>4, StartResumedStep
<1>5. CASE ResumeFails
  BY <1>5, ResumeFailsStep
<1>6. CASE Cancel
  BY <1>6, CancelStep
<1>7. CASE Crash
  BY <1>7, CrashStep
<1>8. ASSUME NEW a \in owed, Answer(a) PROVE DInv' /\ ClosedStay
  <2>1. CASE \E E \in SUBSET Range(a.policies) :
               ShortResult(a, E) \/ FullResult(a, E) \/ AppendThrows(a, E)
                 \/ CrashAfterAppend(a, E)
    BY <2>1, ShortResultStep, FullResultStep, AppendThrowsStep, CrashAfterAppendStep
  <2>2. CASE \E capacity \in BOOLEAN : Nack(a, capacity)
    BY <2>2, NackStep
  <2>3. CASE IgnoredResult(a) \/ IgnoredNack(a)
    BY <2>3, IgnoredStep
  <2> QED
    BY <1>8, <2>1, <2>2, <2>3 DEF Answer
<1>9. CASE FailsafePump
  BY <1>9, FailsafeStep
<1> QED
  BY <1>1, <1>2, <1>3, <1>4, <1>5, <1>6, <1>7, <1>8, <1>9 DEF Next

LEMMA DispatcherInvariant == ASSUME NoLateCoarse PROVE Spec => []DInv
<1>1. DInv /\ [Next]_dispatcherVars => DInv'
  BY StepKeeps
<1> QED
  BY <1>1, InitDInv, PTL DEF Spec
-----------------------------------------------------------------------------
(* The theorems.  NoLateCoarse excludes one case, an answer to a coarse    *)
(* batch that arrives when its peer was swept and the fine stage began.    *)

(* Every variable of the dispatcher has its type between two handlers.     *)
THEOREM DispatcherTypes == ASSUME NoLateCoarse PROVE Spec => []TypeOK
<1>1. DInv => TypeOK
  <2> SUFFICES ASSUME DInv PROVE TypeOK
    OBVIOUS
  <2>1. /\ status \in [Peer -> {"new", "live", "swept", "gone"}] /\ faults \in 0 .. MaxFaults
        /\ HostsOK(host, Live) /\ MessagesOK(owed, nextSession) /\ CorpusOK(corpus)
        /\ nextSession \in 1 .. MaxSessions + 1
    BY DEF DInv, Idle, Ready
  <2>2. \A p \in Peer : /\ HostRecord(p, host[p]) /\ host[p].reserved \in {host[r].reserved : r \in Peer}
    BY <2>1 DEF HostsOK
  <2>3. host \in [Peer -> [ reserved : {host[p].reserved : p \in Peer},
                           warmed : BOOLEAN, cooling : BOOLEAN,
                           incomplete : 0 .. INCOMPLETE_RESULT_QUARANTINE_THRESHOLD ]]
    <3> DEFINE all == {host[p].reserved : p \in Peer}
    <3>1. \A p \in Peer : host[p].reserved \in all
      OBVIOUS
    <3> HIDE DEF all
    <3>2. \A p \in Peer : host[p] \in [ reserved : all, warmed : BOOLEAN, cooling : BOOLEAN,
                            incomplete : 0 .. INCOMPLETE_RESULT_QUARANTINE_THRESHOLD ]
      BY <2>2, <3>1 DEF HostRecord, RecordType
    <3>3. host \in [Peer -> [ reserved : all, warmed : BOOLEAN, cooling : BOOLEAN,
                            incomplete : 0 .. INCOMPLETE_RESULT_QUARANTINE_THRESHOLD ]]
      BY <2>1, <3>2 DEF HostsOK
    <3> QED
      BY <3>3 DEF all
  <2>4. \A p \in Peer : \A b \in DOMAIN host[p].reserved :
          b \in Nat /\ host[p].reserved[b] \in Nat
    BY <2>2 DEF HostRecord
  <2>5. session # NoSession =>
          /\ session.id \in SessionId /\ session.id < nextSession
          /\ session.stage \in {"single", "coarse", "fine"}
          /\ QueueTypeOK(session.queue)
          /\ session.buffer \in Seq(Policy)
          /\ session.built \subseteq Policy /\ session.prior \in Nat
          /\ session.givenUp \subseteq Policy
    BY RunningFacts, QueueOf
  <2>6. resumable \in 0 .. MaxSessions
    BY DispatcherAssumption DEF DInv, Idle, SessionId
  <2>7. owed \subseteq Message /\ corpus \in [SessionId -> CorpusType]
    BY <2>1 DEF MessagesOK, CorpusOK
  <2> QED
    BY <2>1, <2>3, <2>4, <2>5, <2>6, <2>7 DEF TypeOK, Message, CorpusType
<1> QED
  BY <1>1, DispatcherInvariant, PTL

(* The queue's book of outstanding batches and the hosts' books agree, so  *)
(* no host is starved by a leaked entry and no batch is out with a peer    *)
(* that left.                                                              *)
THEOREM BooksAgreeAlways == ASSUME NoLateCoarse PROVE Spec => []IndexAgrees
<1>1. DInv => IndexAgrees
  <2> SUFFICES ASSUME DInv PROVE IndexAgrees
    OBVIOUS
  <2>1. session = NoSession => \A p \in Peer : host[p].reserved = NoSlots
    BY DEF DInv, Idle
  <2>2. session # NoSession => BooksAgree(session.queue, host, Live)
    BY RunningFacts
  <2> QED
    BY <2>1, <2>2 DEF IndexAgrees, BooksAgree
<1> QED
  BY <1>1, DispatcherInvariant, PTL

(* No host has more batches outstanding than its depth, one before it is   *)
(* measured, nor, but for the last batch, more slots reserved than it has  *)
(* workers: whatever was answered, refused or lost in between.             *)
THEOREM CapacityAlways == ASSUME NoLateCoarse PROVE Spec => []CapacityRespected
<1>1. DInv => CapacityRespected
  <2> SUFFICES ASSUME DInv, NEW p \in Live
               PROVE  /\ Cardinality(DOMAIN host[p].reserved)
                           <= IF host[p].warmed THEN Depth[p] ELSE 1
                      /\ SlotsReserved(host, p) < Workers[p] + BatchShare(p, Depth[p])
    BY DEF CapacityRespected
  <2>1. HostRecord(p, host[p])
    BY DEF DInv, Idle, Ready, HostsOK, Live
  <2> QED
    BY <2>1 DEF HostRecord, WithinCapacity, SlotsReserved
<1> QED
  BY <1>1, DispatcherInvariant, PTL

(* What the queue counts as evaluated is on disk, through stages, resumes, *)
(* failing appends and a crash between the append and its bookkeeping.     *)
THEOREM CountedIsOnDisk == ASSUME NoLateCoarse PROVE Spec => []EvaluatedOnDisk
<1>1. DInv => EvaluatedOnDisk
  <2> SUFFICES ASSUME DInv, session # NoSession, session.stage # "coarse"
               PROVE  \A p \in session.queue.evaluated : corpus[session.id].full[p] > 0
    BY DEF EvaluatedOnDisk
  <2>1. StageOK(session, corpus[session.id])
    BY RunningFacts, QueueOf
  <2> QED
    BY <2>1 DEF StageOK
<1> QED
  BY <1>1, DispatcherInvariant, PTL

(* No policy has two records in a session's file, however often its batch  *)
(* was given back or the session resumed.                                  *)
THEOREM OneRecordOfEach == ASSUME NoLateCoarse PROVE Spec => []OneRecordEach
<1>1. DInv => OneRecordEach
  <2> SUFFICES ASSUME DInv, NEW s \in SessionId, NEW p \in Policy
               PROVE  corpus[s].full[p] + corpus[s].coarse[p] <= 1
    BY DEF OneRecordEach
  <2>1. CorpusOK(corpus)
    BY DEF DInv, Idle, Ready
  <2>2. /\ corpus[s].full[p] \in Nat /\ corpus[s].full[p] <= 1
        /\ corpus[s].coarse[p] = 0
    BY <2>1 DEF CorpusOK, CorpusType, FileOK
  <2> QED
    BY <2>2
<1> QED
  BY <1>1, DispatcherInvariant, PTL

(* A session that is reported completed has a record of every policy it    *)
(* enumerated that was neither given up nor screened out.                  *)
THEOREM CompletedSessionsCoverAll == ASSUME NoLateCoarse PROVE Spec => []CompletedCoversAll
<1>1. DInv => CompletedCoversAll
  <2> SUFFICES ASSUME DInv, NEW s \in SessionId, corpus[s].summary = "completed"
               PROVE  \A p \in Policy : \/ corpus[s].full[p] > 0
                                        \/ p \in corpus[s].givenUp
                                        \/ TwoStage /\ p \notin Survivor
    BY DEF CompletedCoversAll
  <2>1. CorpusOK(corpus)
    BY DEF DInv, Idle, Ready
  <2> QED
    BY <2>1 DEF CorpusOK, FileOK, Covered
<1> QED
  BY <1>1, DispatcherInvariant, PTL

(* The fine stage runs over the survivors of the coarse one, all of them   *)
(* and no others.                                                          *)
THEOREM FineStageIsOverSurvivors == ASSUME NoLateCoarse PROVE Spec => []FineCoversSurvivors
<1>1. DInv => FineCoversSurvivors
  <2> SUFFICES ASSUME DInv, session # NoSession, session.stage = "fine"
               PROVE  session.built = Survivor \ session.givenUp
    BY DEF FineCoversSurvivors
  <2>1. StageOK(session, corpus[session.id])
    BY RunningFacts, QueueOf
  <2> QED
    BY <2>1 DEF StageOK
<1> QED
  BY <1>1, DispatcherInvariant, PTL

(* An unfinished session is running, held for a resume, or was refused.    *)
THEOREM UnfinishedSessionsAreHeld == ASSUME NoLateCoarse PROVE Spec => []UnfinishedIsHeld
<1>1. DInv => UnfinishedIsHeld
  <2> SUFFICES ASSUME DInv, NEW s \in SessionId, corpus[s].opened,
                      corpus[s].summary = "none", ~corpus[s].refused
               PROVE  s = resumable \/ (session # NoSession /\ s = session.id)
    BY DEF UnfinishedIsHeld
  <2>1. CASE session = NoSession
    <3>1. Held(corpus, resumable, nextSession)
      BY <2>1 DEF DInv, Idle
    <3> QED
      BY <3>1 DEF Held
  <2>2. CASE session # NoSession
    <3>1. Held(corpus, session.id, nextSession)
      BY <2>2, RunningFacts
    <3> QED
      BY <2>2, <3>1 DEF Held
  <2> QED
    BY <2>1, <2>2
<1> QED
  BY <1>1, DispatcherInvariant, PTL

(* A session's files do not change any more once its summary is written,   *)
(* whatever answers arrive for it afterwards.                              *)
THEOREM ClosedSessionsStay == ASSUME NoLateCoarse PROVE Spec => ClosedIsFinal
<1>1. DInv /\ [Next]_dispatcherVars =>
        [\A s \in SessionId : corpus[s].summary # "none" => corpus'[s] = corpus[s]]_dispatcherVars
  BY StepKeeps DEF ClosedStay
<1> QED
  BY <1>1, DispatcherInvariant, PTL DEF Spec, ClosedIsFinal
-----------------------------------------------------------------------------
(* The loops of pumpDispatch (module PumpLoop).  A state of the loops is   *)
(* right (Feeding) when queue and records are what its handout makes of    *)
(* the call's, each batch went to the host a handout would have given it   *)
(* to, a limit stands only for a host that the throttle holds back for     *)
(* good, and the hosts already visited get no more.  A turn that hands out *)
(* a batch and a turn that holds the host back keep it so; after as many   *)
(* turns as the host has places it gets no more.                           *)

(* One more batch: handout `to` with the batch that ends at e for p.       *)
Extended(to, e, p) == [d \in DOMAIN to \cup {e} |-> IF d = e THEN p ELSE to[d]]
BeforeIn(to, e) == {d \in DOMAIN to : d < e}

(* What a further cut changes about the handout: to becomes to2.           *)
Grown(q, hosts, to, end, p, to2) ==
  /\ Max({0} \cup DOMAIN to) \in 0 .. Len(q.pending) /\ end \in 1 .. Len(q.pending)
  /\ Cuts(q, hosts, to2)
  /\ DOMAIN to2 = DOMAIN to \cup {end} /\ end \notin DOMAIN to
  /\ to2[end] = p /\ \A e \in DOMAIN to : to2[e] = to[e] /\ e < end
  /\ \A e \in DOMAIN to : /\ CutBefore(to2, e) = CutBefore(to, e)
                          /\ BeforeIn(to2, e) = BeforeIn(to, e)
                          /\ BatchSeq(q, to2, e) = BatchSeq(q, to, e)
  /\ BeforeIn(to2, end) = DOMAIN to /\ CutBefore(to2, end) = Max({0} \cup DOMAIN to)
  /\ Max({0} \cup DOMAIN to2) = end
  /\ IsFiniteSet(DOMAIN to) /\ Cardinality(DOMAIN to) \in Nat
  /\ Cardinality(DOMAIN to2) = Cardinality(DOMAIN to) + 1
  /\ BatchSeq(q, to2, end) = q.nextBatchSeq + Cardinality(DOMAIN to) + 1

LEMMA OneMoreCut ==
  ASSUME NEW q, Len(q.pending) \in Nat, q.nextBatchSeq \in Nat, NEW hosts, NEW to,
         Cuts(q, hosts, to), NEW p \in hosts,
         NEW end \in Max({0} \cup DOMAIN to) + 1 .. Len(q.pending)
  PROVE  Grown(q, hosts, to, end, p, Extended(to, end, p))
<1> PICK given : given = Max({0} \cup DOMAIN to)
  OBVIOUS
<1> PICK to2 : to2 = Extended(to, end, p)
  OBVIOUS
<1> DEFINE E == DOMAIN to
           n == Len(q.pending)
<1>1. /\ E \in SUBSET (1 .. n) /\ n \in Nat /\ to \in [E -> hosts]
  BY DEF Cuts
<1> HIDE DEF n
<1>2. given \in 0 .. n /\ (\A e \in E : e <= given) /\ given \in {0} \cup E
  BY <1>1, MaxUpTo
<1>3. end \in 1 .. n /\ end > given
  BY <1>1, <1>2 DEF n
<1>4. \A e \in E : e < end /\ e \in Nat
  <2> HIDE DEF E
  <2>1. \A e \in E : e \in 1 .. n /\ e <= given
    BY <1>1, <1>2
  <2>2. given \in Nat /\ end \in Nat /\ given < end
    BY <1>1, <1>2, <1>3
  <2> QED
    BY ONLY <1>1, <2>1, <2>2
<1>5. DOMAIN to2 = E \cup {end} /\ to2[end] = p /\ \A e \in E : e # end /\ to2[e] = to[e]
  BY <1>1, <1>3, <1>4 DEF Extended
<1>6. Cuts(q, hosts, to2)
  <2>1. E \cup {end} \subseteq 1 .. n
    BY <1>1, <1>3
  <2>2. to2 \in [E \cup {end} -> hosts]
    BY <1>1 DEF Extended
  <2> QED
    BY <1>5, <2>1, <2>2 DEF Cuts, n
<1> HIDE DEF E
<1>7. ASSUME NEW e \in E
      PROVE  /\ {d \in DOMAIN to2 : d < e} = {d \in E : d < e}
             /\ {d \in DOMAIN to2 : d <= e} = {d \in E : d <= e}
  <2>1. ~(end < e) /\ ~(end <= e)
    BY <1>3, <1>4
  <2> QED
    BY <2>1, <1>5
<1>8. {d \in DOMAIN to2 : d < end} = E /\ {d \in DOMAIN to2 : d <= end} = E \cup {end}
  <2>1. ~(end < end) /\ end <= end /\ \A e \in E : e < end /\ e <= end
    BY <1>3, <1>4
  <2> QED
    BY <2>1, <1>5
<1>9. Max({0} \cup (E \cup {end})) = end
  <2> DEFINE m == Max({0} \cup (E \cup {end}))
  <2>1. E \cup {end} \in SUBSET (1 .. n)
    BY <1>1, <1>3
  <2>2. m \in {0} \cup (E \cup {end}) /\ m \in 0 .. n /\ end <= m
    BY <1>1, <2>1, MaxUpTo
  <2> HIDE DEF m
  <2>3. m \notin E /\ m # 0
    BY <1>1, <1>3, <1>4, <2>2
  <2> QED
    BY <2>2, <2>3 DEF m
<1>10. /\ IsFiniteSet(E) /\ Cardinality(E) \in Nat /\ Cardinality(E \cup {end}) = Cardinality(E) + 1
  <2>1. IsFiniteSet(1 .. n)
    BY <1>1, FS_Interval
  <2>2. IsFiniteSet(E)
    BY <1>1, <2>1, FS_Subset
  <2>3. end \notin E
    BY <1>5
  <2> QED
    BY <2>2, <2>3, FS_CardinalityType, FS_AddElement
<1>11. \A e \in E : /\ CutBefore(to2, e) = CutBefore(to, e)
                    /\ BeforeIn(to2, e) = BeforeIn(to, e)
                    /\ BatchSeq(q, to2, e) = BatchSeq(q, to, e)
  BY <1>7, Zenon DEF CutBefore, BatchSeq, BeforeIn, E
<1>12. BeforeIn(to2, end) = E /\ CutBefore(to2, end) = given
  BY <1>8 DEF CutBefore, BeforeIn, E
<1>13. BatchSeq(q, to2, end) = q.nextBatchSeq + Cardinality(E) + 1
  <2>1. BatchSeq(q, to2, end) = q.nextBatchSeq + (Cardinality(E) + 1)
    BY <1>8, <1>10 DEF BatchSeq
  <2> QED
    BY <2>1, <1>10
<1> QED
  BY <1>2, <1>3, <1>4, <1>5, <1>6, <1>9, <1>10, <1>11, <1>12, <1>13 DEF E, n, Grown

(* The batches of the longer handout are those of the shorter and the new. *)
OneMore(q, to, end, p, to2) ==
  LET seq == q.nextBatchSeq + Cardinality(DOMAIN to) + 1
  IN  /\ NewBatches(q, to2) = NewBatches(q, to) \cup {seq}
      /\ seq \notin NewBatches(q, to) /\ seq \in Nat /\ BatchEnd(q, to2, seq) = end
      /\ \A b \in NewBatches(q, to) :
           /\ b \in q.nextBatchSeq + 1 .. seq - 1
           /\ BatchEnd(q, to2, b) = BatchEnd(q, to, b) /\ BatchEnd(q, to, b) \in DOMAIN to
           /\ SizeOf(to2, BatchEnd(q, to, b)) = SizeOf(to, BatchEnd(q, to, b))
           /\ PoliciesUpTo(q, to2, BatchEnd(q, to, b)) = PoliciesUpTo(q, to, BatchEnd(q, to, b))
      /\ \A x : BatchesFor(q, to2, x)
                  = IF x = p THEN BatchesFor(q, to, x) \cup {seq} ELSE BatchesFor(q, to, x)

LEMMA OneMoreBatch ==
  ASSUME NEW q, Len(q.pending) \in Nat, q.nextBatchSeq \in Nat, NEW hosts, NEW to,
         Cuts(q, hosts, to), NEW end, NEW p, NEW to2, Grown(q, hosts, to, end, p, to2)
  PROVE  OneMore(q, to, end, p, to2)
<1> DEFINE seq == q.nextBatchSeq + Cardinality(DOMAIN to) + 1
<1> DEFINE E == DOMAIN to
<1>1. /\ DOMAIN to2 = E \cup {end} /\ end \notin E
      /\ to2[end] = p /\ \A e \in E : to2[e] = to[e] /\ e < end
      /\ \A e \in E : /\ CutBefore(to2, e) = CutBefore(to, e)
                      /\ BatchSeq(q, to2, e) = BatchSeq(q, to, e)
      /\ BatchSeq(q, to2, end) = seq
      /\ Cuts(q, hosts, to2) /\ Cardinality(E) \in Nat
  BY DEF Grown
<1>2. \A e \in E : /\ BatchSeq(q, to, e) \in q.nextBatchSeq + 1 .. q.nextBatchSeq + Cardinality(E)
                   /\ BatchEnd(q, to, BatchSeq(q, to, e)) = e
  BY NewIds
<1>3. \A e \in DOMAIN to2 : BatchEnd(q, to2, BatchSeq(q, to2, e)) = e
  BY <1>1, NewIds
<1>4. seq \in Nat /\ seq - 1 = q.nextBatchSeq + Cardinality(E)
  BY <1>1
<1>5. NewBatches(q, to2) = {BatchSeq(q, to2, e) : e \in E \cup {end}}
  BY <1>1 DEF NewBatches
<1>6. NewBatches(q, to2) = NewBatches(q, to) \cup {seq}
  BY <1>1, <1>5 DEF NewBatches
<1>7. \A b \in NewBatches(q, to) : \E e \in E : b = BatchSeq(q, to, e)
  BY DEF NewBatches
<1>8. ASSUME NEW b \in NewBatches(q, to)
      PROVE  /\ b \in q.nextBatchSeq + 1 .. seq - 1
             /\ BatchEnd(q, to2, b) = BatchEnd(q, to, b) /\ BatchEnd(q, to, b) \in E
             /\ SizeOf(to2, BatchEnd(q, to, b)) = SizeOf(to, BatchEnd(q, to, b))
             /\ PoliciesUpTo(q, to2, BatchEnd(q, to, b)) = PoliciesUpTo(q, to, BatchEnd(q, to, b))
  <2>1. PICK e \in E : b = BatchSeq(q, to, e)
    BY <1>7
  <2>2. BatchEnd(q, to2, b) = e /\ BatchEnd(q, to, b) = e /\ CutBefore(to2, e) = CutBefore(to, e)
    BY <1>1, <1>2, <1>3, <2>1
  <2>3. SizeOf(to2, e) = SizeOf(to, e) /\ PoliciesUpTo(q, to2, e) = PoliciesUpTo(q, to, e)
    BY <2>2 DEF SizeOf, PoliciesUpTo
  <2>4. b \in q.nextBatchSeq + 1 .. seq - 1
    BY <1>2, <1>4, <2>1
  <2> QED
    BY <2>1, <2>2, <2>3, <2>4
<1>9. seq \notin NewBatches(q, to)
  <2>1. \A b \in NewBatches(q, to) : b \in q.nextBatchSeq + 1 .. seq - 1
    BY <1>8
  <2> QED
    BY <2>1, <1>4
<1>10. ASSUME NEW x
       PROVE  BatchesFor(q, to2, x)
                = IF x = p THEN BatchesFor(q, to, x) \cup {seq} ELSE BatchesFor(q, to, x)
  <2>1. {e \in DOMAIN to2 : to2[e] = x}
          = IF x = p THEN {e \in E : to[e] = x} \cup {end} ELSE {e \in E : to[e] = x}
    BY <1>1
  <2>2. \A b : b \in BatchesFor(q, to2, x) <=>
               \E e \in {e \in DOMAIN to2 : to2[e] = x} : b = BatchSeq(q, to2, e)
    BY DEF BatchesFor
  <2>3. \A b : b \in BatchesFor(q, to, x) <=>
               \E e \in {e \in E : to[e] = x} : b = BatchSeq(q, to, e)
    BY DEF BatchesFor
  <2>4. CASE x = p
    <3>1. \A b : b \in BatchesFor(q, to2, x) <=> b \in BatchesFor(q, to, x) \/ b = seq
      BY <2>1, <2>2, <2>3, <2>4, <1>1
    <3> QED
      BY <2>4, <3>1
  <2>5. CASE x # p
    <3>1. \A b : b \in BatchesFor(q, to2, x) <=> b \in BatchesFor(q, to, x)
      BY <2>1, <2>2, <2>3, <2>5, <1>1
    <3> QED
      BY <2>5, <3>1
  <2> QED
    BY <2>4, <2>5
<1>11. BatchEnd(q, to2, seq) = end
  <2>1. end \in DOMAIN to2
    BY <1>1
  <2> QED
    BY <1>1, <1>3, <2>1
<1> QED
  BY <1>4, <1>6, <1>8, <1>9, <1>10, <1>11 DEF OneMore

(* A list cut off at j, of which the first k are taken.                    *)
LEMMA TakeOff ==
  ASSUME NEW S, NEW s \in Seq(S), NEW n, n = Len(s), NEW j \in 0 .. n, NEW k \in 1 .. n - j
  PROVE  LET rest == SubSeq(s, j + 1, n)
         IN  /\ rest \in Seq(S) /\ Len(rest) = n - j
             /\ SubSeq(rest, 1, k) = SubSeq(s, j + 1, j + k)
             /\ SubSeq(rest, k + 1, n - j) = SubSeq(s, j + k + 1, n)
             /\ Len(SubSeq(rest, 1, k)) = k
             /\ Len(SubSeq(s, j + k + 1, n)) = n - (j + k)
<1> DEFINE rest == SubSeq(s, j + 1, n)
           a == SubSeq(rest, 1, k)
           b == SubSeq(rest, k + 1, n - j)
           u == SubSeq(s, j + 1, j + k)
           v == SubSeq(s, j + k + 1, n)
<1>1. n \in Nat /\ \A i \in 1 .. n : s[i] \in S
  BY LenProperties, ElementOfSeq
<1>2. /\ rest \in Seq(S) /\ Len(rest) = n - j
      /\ \A i \in 1 .. n - j : rest[i] = s[j + i]
  <2>1. \A i \in j + 1 .. n : s[i] \in S
    BY <1>1
  <2>2. /\ rest \in Seq(S) /\ Len(rest) = (IF j + 1 <= n THEN n - (j + 1) + 1 ELSE 0)
        /\ \A i \in 1 .. n - (j + 1) + 1 : rest[i] = s[j + 1 + i - 1]
    BY <1>1, <2>1, SubSeqProperties
  <2> HIDE DEF rest
  <2>3. \A i \in 1 .. n - j : i \in 1 .. n - (j + 1) + 1 /\ j + 1 + i - 1 = j + i
    BY <1>1
  <2> QED
    BY <1>1, <2>2, <2>3
<1>3. \A i \in 1 .. n - j : rest[i] \in S
  BY <1>2, ElementOfSeq
<1> HIDE DEF rest
<1>4. /\ a \in Seq(S) /\ Len(a) = k /\ \A i \in 1 .. k : a[i] = rest[i]
  <2>1. \A i \in 1 .. k : rest[i] \in S
    BY <1>1, <1>3
  <2>2. /\ a \in Seq(S) /\ Len(a) = (IF 1 <= k THEN k - 1 + 1 ELSE 0)
        /\ \A i \in 1 .. k - 1 + 1 : a[i] = rest[1 + i - 1]
    BY <1>1, <2>1, SubSeqProperties
  <2> HIDE DEF a
  <2>3. \A i \in 1 .. k : i \in 1 .. k - 1 + 1 /\ 1 + i - 1 = i
    BY <1>1
  <2> QED
    BY <1>1, <2>2, <2>3
<1>5. /\ b \in Seq(S) /\ Len(b) = n - (j + k) /\ \A i \in 1 .. n - (j + k) : b[i] = rest[k + i]
  <2>1. \A i \in k + 1 .. n - j : rest[i] \in S
    BY <1>1, <1>3
  <2>2. /\ b \in Seq(S) /\ Len(b) = (IF k + 1 <= n - j THEN n - j - (k + 1) + 1 ELSE 0)
        /\ \A i \in 1 .. n - j - (k + 1) + 1 : b[i] = rest[k + 1 + i - 1]
    BY <1>1, <2>1, SubSeqProperties
  <2> HIDE DEF b
  <2>3. \A i \in 1 .. n - (j + k) : i \in 1 .. n - j - (k + 1) + 1 /\ k + 1 + i - 1 = k + i
    BY <1>1
  <2> QED
    BY <1>1, <2>2, <2>3
<1>6. /\ u \in Seq(S) /\ Len(u) = k /\ \A i \in 1 .. k : u[i] = s[j + i]
  <2>1. \A i \in j + 1 .. j + k : s[i] \in S
    BY <1>1
  <2>2. /\ u \in Seq(S) /\ Len(u) = (IF j + 1 <= j + k THEN j + k - (j + 1) + 1 ELSE 0)
        /\ \A i \in 1 .. j + k - (j + 1) + 1 : u[i] = s[j + 1 + i - 1]
    BY <1>1, <2>1, SubSeqProperties
  <2> HIDE DEF u
  <2>3. \A i \in 1 .. k : i \in 1 .. j + k - (j + 1) + 1 /\ j + 1 + i - 1 = j + i
    BY <1>1
  <2> QED
    BY <1>1, <2>2, <2>3
<1>7. /\ v \in Seq(S) /\ Len(v) = n - (j + k) /\ \A i \in 1 .. n - (j + k) : v[i] = s[j + k + i]
  <2>1. \A i \in j + k + 1 .. n : s[i] \in S
    BY <1>1
  <2>2. /\ v \in Seq(S) /\ Len(v) = (IF j + k + 1 <= n THEN n - (j + k + 1) + 1 ELSE 0)
        /\ \A i \in 1 .. n - (j + k + 1) + 1 : v[i] = s[j + k + 1 + i - 1]
    BY <1>1, <2>1, SubSeqProperties
  <2> HIDE DEF v
  <2>3. \A i \in 1 .. n - (j + k) : i \in 1 .. n - (j + k + 1) + 1 /\ j + k + 1 + i - 1 = j + k + i
    BY <1>1
  <2> QED
    BY <1>1, <2>2, <2>3
<1> HIDE DEF a, b, u, v
<1>8. a = u
  <2>1. \A i \in 1 .. Len(a) : a[i] = u[i]
    BY <1>1, <1>2, <1>4, <1>6
  <2> QED
    BY <1>4, <1>6, <2>1, SeqEqual
<1>9. b = v
  <2>1. \A i \in 1 .. n - (j + k) : k + i \in 1 .. n - j /\ j + (k + i) = j + k + i
    BY <1>1
  <2>2. \A i \in 1 .. Len(b) : b[i] = v[i]
    BY <1>2, <1>5, <1>7, <2>1
  <2> QED
    BY <1>5, <1>7, <2>2, SeqEqual
<1> QED
  BY <1>2, <1>4, <1>7, <1>8, <1>9 DEF a, b, u, v, rest

(* An assignment after a handout makes the handout with one batch more.    *)
LEMMA AssignExtends ==
  ASSUME NEW q, QueueTypeOK(q), IsInjective(q.pending), NEW hosts \in SUBSET Peer, NEW to,
         Cuts(q, hosts, to), NEW p \in hosts, NEW n \in Nat \ {0},
         NEW given, given = Max({0} \cup DOMAIN to),
         NEW left, left = Len(q.pending) - given, NEW k \in 1 .. left, k = LesserOf(n, left),
         NEW to2, Grown(q, hosts, to, given + k, p, to2)
  PROVE  AssignBatch(HandOut(q, to), p, n) = HandOut(q, to2)
<1> PICK s : s = q.pending
  OBVIOUS
<1> PICK N : N = Len(s)
  OBVIOUS
<1> PICK end : end = given + k
  OBVIOUS
<1> PICK c : c = Cardinality(DOMAIN to)
  OBVIOUS
<1> DEFINE h == HandOut(q, to)
           g == HandOut(q, to2)
           a == AssignBatch(h, p, n)
           seq == q.nextBatchSeq + c + 1
           rest == SubSeq(s, given + 1, N)
           batch == SubSeq(s, given + 1, end)
<1>1. /\ s \in Seq(Policy) /\ N \in Nat /\ IsInjective(s) /\ q.nextBatchSeq \in Nat
      /\ \A i \in 1 .. N : s[i] \in Policy
      /\ DOMAIN q.inFlight \subseteq 1 .. q.nextBatchSeq /\ q.attempts \in [Policy -> Nat]
  BY LenProperties, ElementOfSeq DEF QueueTypeOK
<1>2. /\ given \in 0 .. N /\ end \in 1 .. N /\ Cuts(q, hosts, to2)
      /\ Max({0} \cup DOMAIN to2) = end
      /\ c \in Nat /\ Cardinality(DOMAIN to2) = c + 1
      /\ to2[end] = p /\ \A e \in DOMAIN to : to2[e] = to[e]
      /\ CutBefore(to2, end) = given
  BY DEF Grown
<1>0. /\ given \in 0 .. N /\ end \in 1 .. N /\ N = Len(s) /\ N \in Nat
      /\ end = given + k /\ k \in Nat \ {0} /\ left = N - given /\ left \in Nat /\ given < end
  <2>1. given \in 0 .. N /\ N \in Nat /\ left = N - given /\ k \in 1 .. left /\ end = given + k
    BY <1>1, <1>2
  <2> QED
    BY ONLY <1>2, <2>1, N = Len(s)
<1>3. OneMore(q, to, end, p, to2)
  <2>1. Len(q.pending) \in Nat /\ Grown(q, hosts, to, end, p, to2)
    BY <1>1
  <2> QED
    BY <1>1, <2>1, OneMoreBatch
<1>4. /\ Len(rest) = left /\ left \in Nat /\ left = N - given
      /\ SubSeq(rest, 1, k) = batch /\ Len(batch) = k
      /\ SubSeq(rest, k + 1, left) = SubSeq(s, end + 1, N)
  <2>1. left = N - given /\ left \in Nat /\ end = given + k /\ given + 1 <= end
    BY ONLY <1>0
  <2>2. /\ Len(SubSeq(s, given + 1, N)) = N - given
        /\ SubSeq(SubSeq(s, given + 1, N), 1, k) = SubSeq(s, given + 1, given + k)
        /\ SubSeq(SubSeq(s, given + 1, N), k + 1, N - given) = SubSeq(s, given + k + 1, N)
        /\ Len(SubSeq(SubSeq(s, given + 1, N), 1, k)) = k
    <3>1. s \in Seq(Policy) /\ N = Len(s) /\ given \in 0 .. N /\ k \in 1 .. N - given
      BY <1>1, <1>2, <2>1
    <3> QED
      BY ONLY <3>1, TakeOff
  <2> QED
    BY <2>1, <2>2
<1>5. /\ h.pending = rest /\ h.nextBatchSeq + 1 = seq
      /\ h.attempts = [x \in Policy |-> q.attempts[x] +
                         IF \E i \in 1 .. given : s[i] = x THEN 1 ELSE 0]
      /\ h.inFlight = [b \in DOMAIN q.inFlight \cup NewBatches(q, to) |->
                         IF b \notin NewBatches(q, to) THEN q.inFlight[b]
                         ELSE [peer |-> to[BatchEnd(q, to, b)],
                               policies |-> PoliciesUpTo(q, to, BatchEnd(q, to, b))]]
  <2>1. h.nextBatchSeq = q.nextBatchSeq + Cardinality(DOMAIN to)
    BY DEF HandOut, QueueTypeOK
  <2> QED
    BY <1>1, <1>2, <2>1 DEF HandOut, QueueTypeOK
<1>6. NextBatch(h, n) = batch
  <2>1. (IF n < left THEN n ELSE left) = k
    BY <1>4 DEF LesserOf
  <2> HIDE DEF h, batch, rest
  <2> QED
    BY <1>4, <1>5, <2>1 DEF NextBatch
<1> DEFINE f == [b \in DOMAIN h.inFlight \cup {seq} |->
                   IF b = seq THEN [peer |-> p, policies |-> batch] ELSE h.inFlight[b]]
           t == [x \in Policy |-> h.attempts[x] + IF x \in Range(batch) THEN 1 ELSE 0]
<1>7. a = [h EXCEPT !.pending = SubSeq(s, end + 1, N), !.attempts = t,
                    !.inFlight = f, !.nextBatchSeq = seq]
  <2> HIDE DEF h, batch, rest, seq
  <2> QED
    BY <1>4, <1>5, <1>6 DEF AssignBatch
<1> DEFINE f2 == [b \in DOMAIN q.inFlight \cup NewBatches(q, to2) |->
                    IF b \notin NewBatches(q, to2) THEN q.inFlight[b]
                    ELSE [peer |-> to2[BatchEnd(q, to2, b)],
                          policies |-> PoliciesUpTo(q, to2, BatchEnd(q, to2, b))]]
           t2 == [x \in Policy |-> q.attempts[x] + IF \E i \in 1 .. end : s[i] = x THEN 1 ELSE 0]
<1>8. g = [q EXCEPT !.pending = SubSeq(s, end + 1, N), !.attempts = t2,
                    !.inFlight = f2, !.nextBatchSeq = seq]
  <2>1. q.nextBatchSeq + (c + 1) = seq
    <3>1. q.nextBatchSeq \in Nat /\ c \in Nat
      BY <1>1, <1>2
    <3> QED
      BY ONLY <3>1
  <2> QED
    BY <1>2, <2>1 DEF HandOut
<1>9a. Range(batch) = {s[i] : i \in given + 1 .. end}
  <2>1. s \in Seq(Policy) /\ IsInjective(s) /\ given \in Nat /\ end \in Nat
        /\ given <= end /\ end <= Len(s)
    BY ONLY <1>0, <1>1
  <2> QED
    BY ONLY <2>1, Stretch
<1>9. t = t2
  <2>1. ASSUME NEW x \in Policy
        PROVE  (\E i \in 1 .. end : s[i] = x) <=>
                 (\E i \in 1 .. given : s[i] = x) \/ x \in Range(batch)
    <3>1. Range(batch) = {s[i] : i \in given + 1 .. end}
      BY <1>9a
    <3>2. \A i \in 1 .. end : i \in 1 .. given \/ i \in given + 1 .. end
      BY <1>1, <1>2
    <3>3. \A i \in 1 .. given : i \in 1 .. end
      BY <1>1, <1>2
    <3>4. \A i \in given + 1 .. end : i \in 1 .. end
      BY <1>1, <1>2
    <3> HIDE DEF batch
    <3> QED
      BY <3>1, <3>2, <3>3, <3>4
  <2>2. ASSUME NEW x \in Policy, x \in Range(batch)
        PROVE  ~\E i \in 1 .. given : s[i] = x
    <3>1. Range(batch) = {s[i] : i \in given + 1 .. end}
      BY <1>9a
    <3>2. PICK m \in given + 1 .. end : s[m] = x
      BY <2>2, <3>1
    <3>3. \A i \in 1 .. given : i # m /\ i \in 1 .. N /\ m \in 1 .. N
      BY ONLY <1>0, <3>2
    <3>4. \A i, o \in 1 .. N : s[i] = s[o] => i = o
      BY <1>1, LenProperties DEF IsInjective
    <3> QED
      BY <3>2, <3>3, <3>4
  <2>3. ASSUME NEW x \in Policy PROVE t[x] = t2[x]
    <3>1. q.attempts[x] \in Nat
      BY <1>1
    <3> HIDE DEF h, batch
    <3>2. h.attempts[x] = q.attempts[x] + IF \E i \in 1 .. given : s[i] = x THEN 1 ELSE 0
      BY <1>5
    <3>3. /\ t[x] = h.attempts[x] + IF x \in Range(batch) THEN 1 ELSE 0
          /\ t2[x] = q.attempts[x] + IF \E i \in 1 .. end : s[i] = x THEN 1 ELSE 0
      OBVIOUS
    <3>4. /\ (\E i \in 1 .. end : s[i] = x) <=>
                 (\E i \in 1 .. given : s[i] = x) \/ x \in Range(batch)
          /\ ~(x \in Range(batch) /\ \E i \in 1 .. given : s[i] = x)
      BY <2>1, <2>2
    <3> HIDE DEF t, t2
    <3> QED
      BY ONLY <3>1, <3>2, <3>3, <3>4
  <2> HIDE DEF h, batch
  <2> QED
    BY <2>3
<1>10. f = f2
  <2> DEFINE D == DOMAIN q.inFlight
             B == NewBatches(q, to)
             item(b) == [peer |-> to[BatchEnd(q, to, b)],
                         policies |-> PoliciesUpTo(q, to, BatchEnd(q, to, b))]
             item2(b) == [peer |-> to2[BatchEnd(q, to2, b)],
                          policies |-> PoliciesUpTo(q, to2, BatchEnd(q, to2, b))]
  <2>1. /\ NewBatches(q, to2) = B \cup {seq} /\ seq \notin B /\ BatchEnd(q, to2, seq) = end
        /\ \A b \in B : item2(b) = item(b)
    BY <1>2, <1>3 DEF OneMore
  <2>2. item2(seq) = [peer |-> p, policies |-> batch]
    BY <1>2, <2>1 DEF PoliciesUpTo
  <2>3. seq \notin D
    BY ONLY <1>1, <1>2
  <2>4. DOMAIN h.inFlight = D \cup B /\ \A b \in D \cup B : h.inFlight[b] = IF b \notin B THEN q.inFlight[b] ELSE item(b)
    BY <1>5
  <2> HIDE DEF item, item2, B, D, h, seq, batch
  <2>5. f = [b \in D \cup B \cup {seq} |-> IF b = seq THEN [peer |-> p, policies |-> batch]
                                          ELSE IF b \notin B THEN q.inFlight[b] ELSE item(b)]
    BY <2>4
  <2>6. f2 = [b \in D \cup (B \cup {seq}) |-> IF b \notin B \cup {seq} THEN q.inFlight[b] ELSE item2(b)]
    BY <2>1 DEF item2, D
  <2> HIDE DEF f, f2
  <2> QED
    BY <2>1, <2>2, <2>3, <2>5, <2>6
<1> HIDE DEF f, f2, t, t2, seq
<1>11. /\ h = [q EXCEPT !.pending = h.pending, !.attempts = h.attempts, !.inFlight = h.inFlight,
                        !.nextBatchSeq = h.nextBatchSeq]
  BY DEF HandOut, QueueTypeOK
<1> HIDE DEF h
<1>12. a = g
  <2> HIDE DEF a, g
  <2>1. a = [q EXCEPT !.pending = SubSeq(s, end + 1, N), !.attempts = t,
                      !.inFlight = f, !.nextBatchSeq = seq]
    BY <1>7, <1>11 DEF QueueTypeOK
  <2> QED
    BY ONLY <1>8, <1>9, <1>10, <2>1
<1> QED
  BY <1>12 DEF a, g, h

(* The records after one more batch. *)
HostRecords(h) ==
  /\ DOMAIN h = Peer /\ h = [p \in Peer |-> h[p]]
  /\ \A p \in Peer :
       h[p] \in [ reserved : [DOMAIN h[p].reserved -> Nat],
                  warmed : BOOLEAN, incomplete : Nat, cooling : BOOLEAN ]

LEMMA ReserveExtends ==
  ASSUME NEW q, Len(q.pending) \in Nat, q.nextBatchSeq \in Nat, NEW hosts \in SUBSET Peer,
         NEW h, HostRecords(h), NEW to, Cuts(q, hosts, to), NEW p \in hosts, NEW end, NEW to2,
         Grown(q, hosts, to, end, p, to2),
         NEW seq, seq = q.nextBatchSeq + Cardinality(DOMAIN to) + 1,
         NEW slots, slots = ReservationFor(p, TargetDepth(h, hosts, p), SizeOf(to2, end))
  PROVE  AddBatch(Reserve(q, h, hosts, to), p, seq, slots) = Reserve(q, h, hosts, to2)
<1> DEFINE r == Reserve(q, h, hosts, to)
           g == Reserve(q, h, hosts, to2)
           a == AddBatch(r, p, seq, slots)
           size(x, b) == ReservationFor(x, TargetDepth(h, hosts, x), SizeOf(to, BatchEnd(q, to, b)))
           size2(x, b) == ReservationFor(x, TargetDepth(h, hosts, x), SizeOf(to2, BatchEnd(q, to2, b)))
           new(x) == BatchesFor(q, to, x)
           new2(x) == BatchesFor(q, to2, x)
           old(x) == h[x].reserved
           f(x) == [b \in DOMAIN old(x) \cup new(x) |->
                      IF b \notin new(x) THEN old(x)[b] ELSE size(x, b)]
           f2(x) == [b \in DOMAIN old(x) \cup new2(x) |->
                       IF b \notin new2(x) THEN old(x)[b] ELSE size2(x, b)]
<1>1. OneMore(q, to, end, p, to2)
  BY OneMoreBatch
<1>2. /\ BatchEnd(q, to2, seq) = end /\ p \in Peer
      /\ \A b \in NewBatches(q, to) : /\ BatchEnd(q, to2, b) = BatchEnd(q, to, b)
                                      /\ SizeOf(to2, BatchEnd(q, to, b)) = SizeOf(to, BatchEnd(q, to, b))
      /\ \A x : new2(x) = IF x = p THEN new(x) \cup {seq} ELSE new(x)
      /\ seq \notin NewBatches(q, to)
  BY <1>1 DEF OneMore
<1>3. \A x : new(x) \subseteq NewBatches(q, to)
  BY DEF BatchesFor, NewBatches
<1>4. \A x : \A b \in new(x) : size2(x, b) = size(x, b)
  BY <1>2, <1>3
<1>5. size2(p, seq) = slots
  BY <1>2
<1>6. /\ DOMAIN r = Peer /\ DOMAIN g = Peer
      /\ \A x \in Peer : r[x] = IF new(x) = {} THEN h[x] ELSE [h[x] EXCEPT !.reserved = f(x)]
      /\ \A x \in Peer : g[x] = IF new2(x) = {} THEN h[x] ELSE [h[x] EXCEPT !.reserved = f2(x)]
      /\ r = [x \in Peer |-> r[x]] /\ g = [x \in Peer |-> g[x]]
  BY DEF Reserve, HostRecords
<1> HIDE DEF size, size2, new, new2
<1>7. ASSUME NEW x \in Peer PROVE r[x] = [h[x] EXCEPT !.reserved = f(x)] /\ r[x].reserved = f(x)
  <2>1. h[x] \in [ reserved : [DOMAIN h[x].reserved -> Nat],
                   warmed : BOOLEAN, incomplete : Nat, cooling : BOOLEAN ]
    BY DEF HostRecords
  <2>2. CASE new(x) # {}
    <3>1. r[x] = [h[x] EXCEPT !.reserved = f(x)]
      BY <1>6, <2>2
    <3> HIDE DEF f, r
    <3> QED
      BY <2>1, <3>1
  <2>3. CASE new(x) = {}
    <3>1. f(x) = h[x].reserved
      <4>1. f(x) = [b \in DOMAIN h[x].reserved |-> h[x].reserved[b]]
        BY <2>3
      <4> QED
        BY <2>1, <4>1
    <3>2. r[x] = h[x]
      BY <1>6, <2>3
    <3> HIDE DEF f, r
    <3> QED
      BY <2>1, <3>1, <3>2
  <2> QED
    BY <2>2, <2>3
<1>8. f2(p) = [d \in DOMAIN f(p) \cup {seq} |-> IF d = seq THEN slots ELSE f(p)[d]]
  <2>1. /\ new2(p) = new(p) \cup {seq} /\ DOMAIN f(p) = DOMAIN old(p) \cup new(p)
        /\ \A b \in DOMAIN old(p) \cup new(p) :
             f(p)[b] = IF b \notin new(p) THEN old(p)[b] ELSE size(p, b)
    BY <1>2
  <2> HIDE DEF f, old
  <2>2. f2(p) = [d \in DOMAIN f(p) \cup {seq} |->
                   IF d \notin new(p) \cup {seq} THEN old(p)[d] ELSE size2(p, d)]
    BY <2>1
  <2>3. \A d \in DOMAIN f(p) \cup {seq} :
          (IF d \notin new(p) \cup {seq} THEN old(p)[d] ELSE size2(p, d))
            = IF d = seq THEN slots ELSE f(p)[d]
    BY <1>4, <1>5, <2>1
  <2> QED
    BY <2>2, <2>3
<1>9. g[p] = [h[p] EXCEPT !.reserved = f2(p)]
  <2>1. new2(p) # {}
    BY <1>2
  <2> QED
    BY <1>2, <1>6, <2>1
<1>10. \A x \in Peer : x # p => g[x] = r[x]
  <2> TAKE x \in Peer
  <2> HAVE x # p
  <2>1. new2(x) = new(x)
    BY <1>2
  <2>2. f2(x) = f(x)
    BY <1>4, <2>1
  <2> HIDE DEF f, f2, g, r
  <2> QED
    BY <1>6, <2>1, <2>2
<1>11. a = [r EXCEPT ![p].reserved = f2(p)]
  <2>1. r[p].reserved = f(p)
    BY <1>2, <1>7
  <2> HIDE DEF f, f2, r
  <2> QED
    BY <1>8, <2>1 DEF AddBatch
<1> HIDE DEF f, f2, r, g, a
<1>12. a = [x \in Peer |-> IF x = p THEN [r[p] EXCEPT !.reserved = f2(p)] ELSE r[x]]
  BY <1>2, <1>6, <1>11
<1>13. [r[p] EXCEPT !.reserved = f2(p)] = g[p]
  <2>1. h[p] \in [ reserved : [DOMAIN h[p].reserved -> Nat],
                   warmed : BOOLEAN, incomplete : Nat, cooling : BOOLEAN ]
    BY <1>2 DEF HostRecords
  <2>2. r[p] = [h[p] EXCEPT !.reserved = f(p)]
    BY <1>2, <1>7
  <2> QED
    BY <1>9, <2>1, <2>2
<1>14. \A x \in Peer : a[x] = g[x]
  BY <1>10, <1>12, <1>13
<1>15. a = [x \in Peer |-> a[x]]
  BY <1>12
<1>16. a = g
  BY <1>6, <1>14, <1>15
<1> QED
  BY <1>16 DEF a, g, r

(* Two sets of different batches have the slots of both.                   *)
LEMMA SlotsApart ==
  ASSUME NEW A, IsFiniteSet(A), NEW r \in [A -> Nat],
         NEW B, IsFiniteSet(B), NEW t \in [B -> Nat], A \cap B = {},
         NEW w, DOMAIN w = A \cup B,
         \A b \in A : w[b] = r[b], \A b \in B : w[b] = t[b]
  PROVE  Cardinality(SlotsOf(w)) = Cardinality(SlotsOf(r)) + Cardinality(SlotsOf(t))
<1> DEFINE R == SlotsOf(r)
           T == SlotsOf(t)
<1>1. \A x : x \in SlotsOf(w) <=> x \in R \/ x \in T
  <2> TAKE x
  <2>1. /\ x \in SlotsOf(w) <=> \E b \in DOMAIN w : \E i \in 1 .. w[b] : x = <<b, i>>
        /\ x \in R <=> \E b \in A : \E i \in 1 .. r[b] : x = <<b, i>>
        /\ x \in T <=> \E b \in B : \E i \in 1 .. t[b] : x = <<b, i>>
    BY SlotsMember
  <2> QED
    BY <2>1
<1>2. R \cap T = {}
  <2> SUFFICES ASSUME NEW x \in R \cap T PROVE FALSE
    OBVIOUS
  <2>1. PICK b \in A : \E i \in 1 .. r[b] : x = <<b, i>>
    BY SlotsMember
  <2>2. PICK d \in B : \E i \in 1 .. t[d] : x = <<d, i>>
    BY SlotsMember
  <2> QED
    BY <2>1, <2>2
<1>3. /\ IsFiniteSet(R) /\ Cardinality(R) \in Nat
      /\ IsFiniteSet(T) /\ Cardinality(T) \in Nat
  BY SlotsFinite
<1> HIDE DEF R, T
<1>4. Cardinality(R \cup T) = Cardinality(R) + Cardinality(T) - Cardinality(R \cap T)
  BY <1>3, FS_Union
<1>5. Cardinality(R \cap T) = 0
  BY <1>2, FS_EmptySet
<1>6. SlotsOf(w) = R \cup T
  BY <1>1
<1>7. Cardinality(SlotsOf(w)) = Cardinality(R) + Cardinality(T)
  BY <1>3, <1>4, <1>5, <1>6
<1> QED
  BY <1>7 DEF R, T

(* A batch added to some that have slots: its slots are added.             *)
LEMMA SlotsAdded ==
  ASSUME NEW A, IsFiniteSet(A), NEW r \in [A -> Nat], NEW b, b \notin A, NEW n \in Nat,
         NEW w, DOMAIN w = A \cup {b}, \A d \in A : w[d] = r[d], w[b] = n
  PROVE  /\ Cardinality(SlotsOf(w)) = Cardinality(SlotsOf(r)) + n
         /\ Cardinality(SlotsOf(r)) \in Nat
<1> DEFINE t == [x \in {b} |-> n]
<1>1. Cardinality(SlotsOf(t)) = n
  BY SlotsOfOne
<1>2. /\ t \in [{b} -> Nat] /\ A \cap {b} = {} /\ IsFiniteSet({b})
      /\ \A d \in {b} : w[d] = t[d]
  BY FS_Singleton
<1> HIDE DEF t
<1>3. Cardinality(SlotsOf(w)) = Cardinality(SlotsOf(r)) + Cardinality(SlotsOf(t))
  BY <1>2, SlotsApart
<1> QED
  BY <1>1, <1>3, SlotsFinite

(* How a further batch for p changes what the hosts have been given.       *)
GivenTo(to, x, E) == {e \in E : to[e] = x}

TakesMore(h, hosts, to, end, p, to2) ==
  LET slots == ReservationFor(p, TargetDepth(h, hosts, p), SizeOf(to2, end))
  IN  /\ \A x \in hosts : \A D \in SUBSET DOMAIN to :
           /\ SlotsTaken(h, hosts, to2, x, D) = SlotsTaken(h, hosts, to, x, D)
           /\ GivenTo(to2, x, D) = GivenTo(to, x, D)
      /\ \A x \in hosts : x # p =>
           /\ SlotsTaken(h, hosts, to2, x, DOMAIN to2) = SlotsTaken(h, hosts, to, x, DOMAIN to)
           /\ GivenTo(to2, x, DOMAIN to2) = GivenTo(to, x, DOMAIN to)
      /\ SlotsTaken(h, hosts, to2, p, DOMAIN to2)
           = SlotsTaken(h, hosts, to, p, DOMAIN to) + slots
      /\ SlotsTaken(h, hosts, to, p, DOMAIN to) \in Nat /\ slots \in Nat
      /\ Cardinality(GivenTo(to2, p, DOMAIN to2)) = Cardinality(GivenTo(to, p, DOMAIN to)) + 1
      /\ Cardinality(GivenTo(to, p, DOMAIN to)) \in Nat

LEMMA SizesPositive ==
  ASSUME NEW q, Len(q.pending) \in Nat, NEW hosts, NEW to, Cuts(q, hosts, to),
         NEW e \in DOMAIN to
  PROVE  SizeOf(to, e) \in Nat \ {0} /\ e \in Nat
<1>1. CutBefore(to, e) \in 0 .. e - 1 /\ e \in 1 .. Len(q.pending)
  BY CutsPart
<1> QED
  BY <1>1 DEF SizeOf

LEMMA TakenExtends ==
  ASSUME NEW q, Len(q.pending) \in Nat, NEW hosts \in SUBSET Peer,
         NEW h, NEW to, Cuts(q, hosts, to), NEW p \in hosts, NEW end, NEW to2,
         Grown(q, hosts, to, end, p, to2)
  PROVE  TakesMore(h, hosts, to, end, p, to2)
<1> DEFINE E == DOMAIN to
           res(x, n) == ReservationFor(x, TargetDepth(h, hosts, x), n)
           took(x, D) == [e \in {e \in D : to[e] = x} |-> res(x, SizeOf(to, e))]
           took2(x, D) == [e \in {e \in D : to2[e] = x} |-> res(x, SizeOf(to2, e))]
<1>1. /\ DOMAIN to2 = E \cup {end} /\ end \notin E /\ IsFiniteSet(E) /\ Cuts(q, hosts, to2)
      /\ to2[end] = p /\ \A e \in E : to2[e] = to[e]
      /\ \A e \in E : CutBefore(to2, e) = CutBefore(to, e)
  BY DEF Grown
<1>2. \A e \in E : SizeOf(to2, e) = SizeOf(to, e)
  BY <1>1 DEF SizeOf
<1>3. \A x \in hosts : \A n \in Nat : res(x, n) \in Nat
  <2> TAKE x \in hosts
  <2>1. TargetDepth(h, hosts, x) \in Nat \ {0}
    BY PumpAssumption DEF TargetDepth
  <2> QED
    BY <2>1, ReservationIsNat
<1>4. /\ \A e \in E : SizeOf(to, e) \in Nat
      /\ \A e \in DOMAIN to2 : SizeOf(to2, e) \in Nat
  BY <1>1, SizesPositive
<1>5. \A x, D : /\ SlotsTaken(h, hosts, to, x, D) = Cardinality(SlotsOf(took(x, D)))
                /\ SlotsTaken(h, hosts, to2, x, D) = Cardinality(SlotsOf(took2(x, D)))
  BY DEF SlotsTaken
<1> HIDE DEF res
<1>6. ASSUME NEW x \in hosts, NEW D \in SUBSET E
      PROVE  took2(x, D) = took(x, D) /\ GivenTo(to2, x, D) = GivenTo(to, x, D)
  <2>1. \A e \in D : to2[e] = to[e] /\ SizeOf(to2, e) = SizeOf(to, e)
    BY <1>1, <1>2
  <2>2. {e \in D : to2[e] = x} = {e \in D : to[e] = x}
    BY <2>1
  <2> QED
    BY <2>1, <2>2 DEF GivenTo
<1>7. ASSUME NEW x \in hosts, x # p
      PROVE  took2(x, DOMAIN to2) = took(x, E) /\ GivenTo(to2, x, DOMAIN to2) = GivenTo(to, x, E)
  <2>1. {e \in DOMAIN to2 : to2[e] = x} = {e \in E : to[e] = x}
    BY <1>1, <1>7
  <2> QED
    BY <1>2, <2>1 DEF GivenTo
<1>8. /\ Cardinality(SlotsOf(took2(p, DOMAIN to2)))
           = Cardinality(SlotsOf(took(p, E))) + res(p, SizeOf(to2, end))
      /\ Cardinality(SlotsOf(took(p, E))) \in Nat
      /\ Cardinality(GivenTo(to2, p, DOMAIN to2)) = Cardinality(GivenTo(to, p, E)) + 1
      /\ Cardinality(GivenTo(to, p, E)) \in Nat
  <2> DEFINE A == {e \in E : to[e] = p}
             r == took(p, E)
             w == took2(p, DOMAIN to2)
             n == res(p, SizeOf(to2, end))
  <2>1. IsFiniteSet(A) /\ end \notin A /\ A \subseteq E
    BY <1>1, FS_Subset
  <2>2. {e \in DOMAIN to2 : to2[e] = p} = A \cup {end}
    BY <1>1
  <2>3. r \in [A -> Nat] /\ \A d \in A : r[d] = res(p, SizeOf(to, d))
    BY <1>3, <1>4
  <2>4. DOMAIN w = A \cup {end} /\ \A d \in A \cup {end} : w[d] = res(p, SizeOf(to2, d))
    BY <2>2
  <2>5. n \in Nat
    BY <1>1, <1>3, <1>4
  <2>6. /\ Cardinality(GivenTo(to2, p, DOMAIN to2)) = Cardinality(GivenTo(to, p, E)) + 1
        /\ Cardinality(GivenTo(to, p, E)) \in Nat
    <3>1. GivenTo(to2, p, DOMAIN to2) = A \cup {end} /\ GivenTo(to, p, E) = A
      BY <2>2 DEF GivenTo
    <3> HIDE DEF A
    <3> QED
      BY <2>1, <3>1, FS_AddElement, FS_CardinalityType
  <2> HIDE DEF A, r, w
  <2>7. \A d \in A : w[d] = r[d]
    BY <1>2, <2>1, <2>3, <2>4
  <2>8. w[end] = n
    BY <2>4
  <2> HIDE DEF n
  <2>9. Cardinality(SlotsOf(w)) = Cardinality(SlotsOf(r)) + n /\ Cardinality(SlotsOf(r)) \in Nat
    BY <2>1, <2>3, <2>4, <2>5, <2>7, <2>8, SlotsAdded
  <2> QED
    BY <2>6, <2>9 DEF w, r, n
<1>9. res(p, SizeOf(to2, end)) \in Nat
  BY <1>1, <1>3, <1>4
<1> HIDE DEF took, took2
<1>10. /\ \A x \in hosts : \A D \in SUBSET E :
            /\ SlotsTaken(h, hosts, to2, x, D) = SlotsTaken(h, hosts, to, x, D)
            /\ GivenTo(to2, x, D) = GivenTo(to, x, D)
       /\ \A x \in hosts : x # p =>
            /\ SlotsTaken(h, hosts, to2, x, DOMAIN to2) = SlotsTaken(h, hosts, to, x, E)
            /\ GivenTo(to2, x, DOMAIN to2) = GivenTo(to, x, E)
  BY <1>5, <1>6, <1>7
<1> QED
  BY <1>5, <1>8, <1>9, <1>10 DEF TakesMore, res

(* Room is a matter of what a host has and has been given.                 *)
LEMMA RoomSame ==
  ASSUME NEW h, NEW hosts, NEW to, NEW to2, NEW D, NEW D2, NEW x,
         SlotsTaken(h, hosts, to2, x, D2) = SlotsTaken(h, hosts, to, x, D),
         GivenTo(to2, x, D2) = GivenTo(to, x, D)
  PROVE  HasRoom(h, hosts, to2, D2, x) <=> HasRoom(h, hosts, to, D, x)
BY DEF HasRoom, GivenTo

(* The greater and the lesser of two numbers, and the least of three. *)
LEMMA GreaterOf ==
  ASSUME NEW a \in Int, NEW b \in Int
  PROVE  Max({a, b}) = (IF a >= b THEN a ELSE b)
<1> DEFINE m == IF a >= b THEN a ELSE b
<1>1. m \in {a, b} /\ \A y \in {a, b} : m >= y
  OBVIOUS
<1>2. \E x \in {a, b} : \A y \in {a, b} : x >= y
  BY <1>1
<1>3. Max({a, b}) \in {a, b} /\ \A y \in {a, b} : Max({a, b}) >= y
  BY <1>2, Zenon DEF Max
<1> QED
  BY <1>3

LEMMA LeastOf ==
  ASSUME NEW S \in SUBSET Int, NEW m \in S, \A y \in S : m <= y
  PROVE  Min(S) = m
<1>1. \E x \in S : \A y \in S : x <= y
  OBVIOUS
<1>2. Min(S) \in S /\ \A y \in S : Min(S) <= y
  BY <1>1, Zenon DEF Min
<1> PICK k : k = Min(S)
  OBVIOUS
<1>3. k <= m /\ m <= k /\ k \in Int /\ m \in Int
  BY <1>2
<1>4. k = m
  BY ONLY <1>3
<1> QED
  BY <1>4

LEMMA LesserOfTwo ==
  ASSUME NEW a \in Int, NEW b \in Int
  PROVE  Min({a, b}) = (IF a <= b THEN a ELSE b)
<1> DEFINE m == IF a <= b THEN a ELSE b
<1>1. m \in {a, b} /\ \A y \in {a, b} : m <= y
  OBVIOUS
<1> HIDE DEF m
<1>2. Min({a, b}) = m
  BY <1>1, LeastOf
<1> QED
  BY <1>2 DEF m

LEMMA LeastOfThree ==
  ASSUME NEW a \in Int, NEW b \in Int, NEW c \in Int
  PROVE  Min({a, b, c}) = (IF a <= b /\ a <= c THEN a ELSE IF b <= c THEN b ELSE c)
<1> DEFINE m == IF a <= b /\ a <= c THEN a ELSE IF b <= c THEN b ELSE c
<1>1. m \in {a, b, c} /\ \A y \in {a, b, c} : m <= y
  OBVIOUS
<1> HIDE DEF m
<1>2. Min({a, b, c}) = m
  BY <1>1, LeastOf
<1> QED
  BY <1>2 DEF m

LEMMA OneAtLeast ==
  ASSUME NEW n \in Int
  PROVE  AtLeastOne(n) = (IF n >= 1 THEN n ELSE 1) /\ AtLeastOne(n) \in Nat \ {0}
<1>1. AtLeastOne(n) = (IF 1 >= n THEN 1 ELSE n)
  BY GreaterOf DEF AtLeastOne
<1> QED
  BY <1>1

(* What a host is offered at most does not grow with the slots it has free. *)
LEMMA CapsBounded ==
  ASSUME NEW runtime \in Runtimes, NEW workers \in Nat, NEW free \in Nat, free <= workers
  PROVE  /\ MaxBatchSizeForRuntime(runtime, workers, free) \in Nat \ {0}
         /\ MaxBatchSizeForRuntime(runtime, workers, free)
              <= MaxBatchSizeForRuntime(runtime, workers, workers)
<1> DEFINE slots(f) == AtLeastOne(Min({AtLeastOne(workers), f}))
<1>1. \A f \in Nat : slots(f) = (IF f = 0 THEN 1 ELSE IF f <= AtLeastOne(workers) THEN f ELSE AtLeastOne(workers))
  <2> TAKE f \in Nat
  <2>1. AtLeastOne(workers) \in Nat \ {0}
    BY OneAtLeast
  <2>2. Min({AtLeastOne(workers), f}) = (IF AtLeastOne(workers) <= f THEN AtLeastOne(workers) ELSE f)
    BY <2>1, LesserOfTwo
  <2>3. Min({AtLeastOne(workers), f}) \in Int
    BY <2>1, <2>2
  <2>4. slots(f) = IF Min({AtLeastOne(workers), f}) >= 1 THEN Min({AtLeastOne(workers), f}) ELSE 1
    BY <2>3, OneAtLeast
  <2> QED
    BY <2>1, <2>2, <2>4
<1>2. AtLeastOne(workers) \in Nat \ {0} /\ AtLeastOne(workers) = IF workers >= 1 THEN workers ELSE 1
  BY OneAtLeast
<1>3. /\ slots(free) \in Nat \ {0} /\ slots(workers) \in Nat \ {0} /\ slots(free) <= slots(workers)
  BY <1>1, <1>2
<1> DEFINE cap(f) == MaxBatchSizeForRuntime(runtime, workers, f)
<1>4. \A f \in Nat : cap(f) = CASE runtime = Compact -> Min({400, slots(f) * 32})
                               [] runtime = Shadow  -> Min({100, slots(f) * 8})
                               [] OTHER             -> Min({25, slots(f) * 4})
  BY DEF MaxBatchSizeForRuntime, RUST_COMPACT_MAX_BATCH_SIZE, MAX_BATCH_SIZE
<1> HIDE DEF slots
<1>4a. ASSUME runtime = Compact, NEW f \in Nat PROVE cap(f) = Min({400, slots(f) * 32})
  <2>1. runtime # Shadow
    BY <1>4a DEF Compact, Shadow
  <2> QED
    BY <1>4, <1>4a, <2>1
<1> HIDE DEF cap
<1>5. \A x \in Nat \ {0} : /\ Min({400, x * 32}) = (IF 400 <= x * 32 THEN 400 ELSE x * 32)
                           /\ Min({100, x * 8}) = (IF 100 <= x * 8 THEN 100 ELSE x * 8)
                           /\ Min({25, x * 4}) = (IF 25 <= x * 4 THEN 25 ELSE x * 4)
  BY LesserOfTwo
<1>6. cap(free) \in Nat \ {0} /\ cap(free) <= cap(workers)
  <2> DEFINE a == slots(free)
             b == slots(workers)
  <2>1. a \in Nat \ {0} /\ b \in Nat \ {0} /\ a <= b
    BY <1>3
  <2> HIDE DEF a, b
  <2>2. CASE runtime = Compact
    <3>1. cap(free) = (IF 400 <= a * 32 THEN 400 ELSE a * 32) /\ cap(workers) = (IF 400 <= b * 32 THEN 400 ELSE b * 32)
      <4>1. cap(free) = Min({400, a * 32}) /\ cap(workers) = Min({400, b * 32})
        BY <1>4a, <2>2 DEF a, b
      <4>2. Min({400, a * 32}) = (IF 400 <= a * 32 THEN 400 ELSE a * 32)
        BY <1>5, <2>1
      <4>3. Min({400, b * 32}) = (IF 400 <= b * 32 THEN 400 ELSE b * 32)
        BY <1>5, <2>1
      <4> QED
        BY ONLY <4>1, <4>2, <4>3
    <3> QED
      BY ONLY <2>1, <3>1
  <2>3. CASE runtime # Compact /\ runtime = Shadow
    <3>1. cap(free) = (IF 100 <= a * 8 THEN 100 ELSE a * 8) /\ cap(workers) = (IF 100 <= b * 8 THEN 100 ELSE b * 8)
      <4>1. cap(free) = Min({100, a * 8}) /\ cap(workers) = Min({100, b * 8})
        BY <1>4, <2>3 DEF a, b
      <4> QED
        BY <1>5, <2>1, <4>1
    <3> QED
      BY ONLY <2>1, <3>1
  <2>4. CASE runtime # Compact /\ runtime # Shadow
    <3>1. cap(free) = (IF 25 <= a * 4 THEN 25 ELSE a * 4) /\ cap(workers) = (IF 25 <= b * 4 THEN 25 ELSE b * 4)
      <4>1. cap(free) = Min({25, a * 4}) /\ cap(workers) = Min({25, b * 4})
        BY <1>4, <2>4 DEF a, b
      <4> QED
        BY <1>5, <2>1, <4>1
    <3> QED
      BY ONLY <2>1, <3>1
  <2> QED
    BY <2>2, <2>3, <2>4
<1> QED
  BY <1>6 DEF cap

LEMMA ProductGrows ==
  ASSUME NEW a \in Nat, NEW b \in Nat, a <= b, NEW d \in Nat, NEW m \in Nat
  PROVE  a * d * m <= b * d * m /\ a * d * m \in Nat /\ b * d * m \in Nat
<1>1. PICK k \in Nat : b = a + k
  <2>1. b - a \in Nat /\ b = a + (b - a)
    OBVIOUS
  <2> QED
    BY <2>1
<1>2. b * d = a * d + k * d /\ a * d \in Nat /\ k * d \in Nat
  BY <1>1
<1> PICK x : x = a * d
  OBVIOUS
<1> PICK y : y = k * d
  OBVIOUS
<1>3. (x + y) * m = x * m + y * m /\ x * m \in Nat /\ y * m \in Nat
  BY <1>2
<1>4. b * d = x + y /\ a * d = x
  BY <1>2
<1>5. x * m <= x * m + y * m /\ x * m + y * m \in Nat
  BY ONLY <1>3
<1> QED
  BY ONLY <1>3, <1>4, <1>5

(* A recommended batch is of one in the tail, else the least of what is    *)
(* pending and a number up to the cap.                                     *)
Shaped(s, a, left) ==
  s = IF left <= TAIL_STEAL_THRESHOLD THEN 1 ELSE IF a <= left THEN a ELSE left

LEMMA RecommendedShape ==
  ASSUME NEW hint \in Nat \ {0}, NEW measured \in Nat, NEW trials \in Nat \ {0},
         NEW cap \in Nat \ {0}, NEW target \in Nat
  PROVE  \E a \in 1 .. cap : \A left \in Nat :
           Shaped(RecommendedBatchSize(hint, measured, left, trials, cap, target), a, left)
<1> DEFINE scaled == Max({HINT_BASELINE_TRIAL_COUNT \div 20, trials})
           inTime == IF measured > 0 THEN target \div measured
                     ELSE (target * HINT_BASELINE_TRIAL_COUNT) \div (hint * scaled)
           t == AtLeastOne(inTime)
           a == IF t <= cap THEN t ELSE cap
<1>1. \A x \in Nat : \A y \in Nat \ {0} : x \div y \in Nat
  OBVIOUS
<1>2. scaled \in Nat \ {0}
  <2>1. HINT_BASELINE_TRIAL_COUNT \div 20 = 100
    BY DEF HINT_BASELINE_TRIAL_COUNT
  <2>2. scaled = IF 100 >= trials THEN 100 ELSE trials
    BY <2>1, GreaterOf
  <2> QED
    BY <2>2
<1> HIDE DEF scaled
<1>3. hint * scaled \in Nat \ {0} /\ target * HINT_BASELINE_TRIAL_COUNT \in Nat
  <2>1. \A x, y \in Nat \ {0} : x * y \in Nat \ {0}
    OBVIOUS
  <2>2. target * 2000 \in Nat
    OBVIOUS
  <2> QED
    BY <1>2, <2>1, <2>2 DEF HINT_BASELINE_TRIAL_COUNT
<1>4. inTime \in Nat
  <2>1. CASE measured > 0
    BY <1>1, <2>1
  <2>2. CASE ~(measured > 0)
    BY <1>1, <1>3, <2>2
  <2> QED
    BY <2>1, <2>2
<1> HIDE DEF inTime
<1>5. t \in Nat \ {0} /\ AtLeastOne(cap) = cap
  BY <1>4, OneAtLeast
<1>6. a \in 1 .. cap
  BY <1>5
<1>7. ASSUME NEW left \in Nat
      PROVE  Shaped(RecommendedBatchSize(hint, measured, left, trials, cap, target), a, left)
  <2>1. Min({t, cap, left}) = IF t <= cap /\ t <= left THEN t ELSE IF cap <= left THEN cap ELSE left
    BY <1>5, LeastOfThree
  <2>2. RecommendedBatchSize(hint, measured, left, trials, cap, target)
          = IF left <= TAIL_STEAL_THRESHOLD THEN 1 ELSE Min({t, cap, left})
    BY <1>5 DEF RecommendedBatchSize, inTime, scaled
  <2> HIDE DEF t
  <2>3. Min({t, cap, left}) = IF a <= left THEN a ELSE left
    BY <1>5, <2>1
  <2> QED
    BY <2>2, <2>3 DEF Shaped
<1> QED
  BY <1>6, <1>7

LEMMA CallTypes ==
  ASSUME NEW c, IsCall(c)
  PROVE  /\ c.hosts \in SUBSET Peer /\ IsFiniteSet(c.hosts)
         /\ \A p \in Peer : c.mean[p] \in Nat
         /\ c.trials \in Nat \ {0} /\ HostRecords(c.host)
         /\ QueueTypeOK(c.queue) /\ IsInjective(c.queue.pending)
         /\ \A p \in Peer : DOMAIN c.host[p].reserved \subseteq 1 .. c.queue.nextBatchSeq
<1>1. c.mean \in [Peer -> Nat]
  BY DEF IsCall
<1> QED
  BY <1>1 DEF IsCall, HostRecords

LEMMA PlannedShape ==
  ASSUME NEW c, IsCall(c), NEW p \in c.hosts, NEW free \in 0 .. Workers[p]
  PROVE  \E a \in 1 .. LargestBatch : \A left \in Nat : Shaped(PlannedSize(c, p, left, free), a, left)
<1>1. /\ p \in Peer /\ Workers[p] \in Nat /\ Hint[p] \in Nat \ {0} /\ Runtime[p] \in Runtimes
      /\ c.mean[p] \in Nat /\ c.trials \in Nat \ {0} /\ LargestBatch \in Nat
      /\ MaxBatchSizeForRuntime(Runtime[p], Workers[p], Workers[p]) <= LargestBatch
      /\ WarmupMaxBatchSize(Workers[p]) <= LargestBatch
  BY CallTypes, PumpAssumption, PumpLoopAssumption
<1> DEFINE cap == IF NeedsWarmup(c.host, c.hosts) THEN WarmupMaxBatchSize(Workers[p])
                  ELSE MaxBatchSizeForRuntime(Runtime[p], Workers[p], free)
           measured == IF c.host[p].warmed THEN c.mean[p] ELSE 0
           target == TargetBatchWallClockMsForRuntime(Runtime[p])
<1>2. WarmupMaxBatchSize(Workers[p]) \in Nat \ {0}
  <2>1. WARMUP_MAX_BATCH_SIZE \in Int /\ Workers[p] * 2 \in Int
    BY <1>1, BatchSizingAssumption
  <2>2. Min({WARMUP_MAX_BATCH_SIZE, Workers[p] * 2}) \in Int
    BY <2>1, LesserOfTwo
  <2> QED
    BY <2>2, OneAtLeast DEF WarmupMaxBatchSize
<1>3. free \in Nat /\ free <= Workers[p]
  BY <1>1
<1>4. /\ MaxBatchSizeForRuntime(Runtime[p], Workers[p], free) \in Nat \ {0}
      /\ MaxBatchSizeForRuntime(Runtime[p], Workers[p], Workers[p]) \in Nat \ {0}
      /\ MaxBatchSizeForRuntime(Runtime[p], Workers[p], free) <= MaxBatchSizeForRuntime(Runtime[p], Workers[p], Workers[p])
  <2>1. Workers[p] <= Workers[p]
    BY <1>1
  <2> QED
    BY <1>1, <1>3, <2>1, CapsBounded
<1>5. cap \in Nat \ {0} /\ cap <= LargestBatch
  BY <1>1, <1>2, <1>4
<1>6. measured \in Nat /\ target \in Nat
  BY <1>1 DEF TargetBatchWallClockMsForRuntime
<1>7. \A left : PlannedSize(c, p, left, free)
                  = RecommendedBatchSize(Hint[p], measured, left, c.trials, cap, target)
  BY DEF PlannedSize
<1> HIDE DEF cap, measured, target
<1>8. PICK a \in 1 .. cap : \A left \in Nat :
        Shaped(RecommendedBatchSize(Hint[p], measured, left, c.trials, cap, target), a, left)
  BY <1>1, <1>5, <1>6, RecommendedShape
<1>9. a \in 1 .. LargestBatch
  BY <1>1, <1>5
<1> QED
  BY <1>7, <1>8, <1>9

(* A host that is slower than the fastest by the cutoff. *)
Slow(c, p) ==
  /\ ~NeedsWarmup(c.host, c.hosts)
  /\ c.mean[p] > 0 /\ FastestMeasuredMsPerPolicy(c) > 0
  /\ c.mean[p] >= FastestMeasuredMsPerPolicy(c) * SLOW_HOST_TAIL_CUTOFF_MULTIPLIER

LEMMA SomeHostIsFast ==
  ASSUME NEW c, IsCall(c), c.hosts # {}
  PROVE  \E p \in c.hosts : ~Slow(c, p)
<1> SUFFICES ASSUME \A p \in c.hosts : Slow(c, p) PROVE FALSE
  OBVIOUS
<1> DEFINE measured == {c.mean[p] : p \in c.hosts} \ {0}
<1>1. \A p \in c.hosts : c.mean[p] \in Nat
  BY CallTypes
<1>2. PICK x \in c.hosts : TRUE
  OBVIOUS
<1>3. ~NeedsWarmup(c.host, c.hosts) /\ c.mean[x] > 0 /\ FastestMeasuredMsPerPolicy(c) > 0
  BY <1>2 DEF Slow
<1>4. measured # {} /\ measured \in SUBSET Nat
  BY <1>1, <1>2, <1>3
<1>5. IsFiniteSet(measured)
  <2>1. IsFiniteSet(c.hosts)
    BY CallTypes
  <2>2. IsFiniteSet({c.mean[p] : p \in c.hosts})
    <3> DEFINE f == [p \in c.hosts |-> c.mean[p]]
               img == {c.mean[p] : p \in c.hosts}
    <3>1. f \in Surjection(c.hosts, img)
      BY DEF Surjection
    <3> HIDE DEF f, img
    <3>2. IsFiniteSet(img)
      BY <2>1, <3>1, FS_Surjection
    <3> QED
      BY <3>2 DEF img
  <2>3. measured \in SUBSET {c.mean[p] : p \in c.hosts}
    OBVIOUS
  <2> QED
    BY <2>2, <2>3, FS_Subset
<1>6. FastestMeasuredMsPerPolicy(c) = Min(measured)
  BY <1>3, <1>4 DEF FastestMeasuredMsPerPolicy
<1>7. Min(measured) \in measured
  <2>1. \E m \in measured : \A y \in measured : m <= y
    <3> HIDE DEF measured
    <3> QED
      BY <1>4, <1>5, ExtremesExist
  <2> HIDE DEF measured
  <2> QED
    BY <2>1, Zenon DEF Min
<1>8. PICK p \in c.hosts : c.mean[p] = FastestMeasuredMsPerPolicy(c)
  BY <1>6, <1>7
<1>9. c.mean[p] >= c.mean[p] * SLOW_HOST_TAIL_CUTOFF_MULTIPLIER /\ c.mean[p] > 0
  BY <1>8 DEF Slow
<1>10. SLOW_HOST_TAIL_CUTOFF_MULTIPLIER \in Nat /\ SLOW_HOST_TAIL_CUTOFF_MULTIPLIER >= 2
  BY BatchSizingAssumption
<1>11. \A m, k \in Nat : m > 0 /\ k >= 2 => ~(m >= m * k)
  <2> TAKE m, k \in Nat
  <2> HAVE m > 0 /\ k >= 2
  <2>1. PICK j \in Nat : k = 2 + j
    <3>1. k - 2 \in Nat /\ k = 2 + (k - 2)
      OBVIOUS
    <3> QED
      BY <3>1
  <2>2. m * k = m + m + m * j /\ m * j \in Nat
    BY <2>1
  <2> QED
    BY <2>2
<1>12. c.mean[p] \in Nat
  BY <1>1
<1> QED
  BY <1>9, <1>10, <1>11, <1>12

(* The throttle holds back slow hosts only, in the tail all of them, and   *)
(* never above the budget.                                                 *)
LEMMA ThrottleBounds ==
  ASSUME NEW c, IsCall(c), NEW p \in c.hosts, NEW free \in 0 .. Workers[p], NEW left \in Nat
  PROVE  /\ IsThrottled(c, p, left, free) => Slow(c, p) /\ left <= TailBudget
         /\ Slow(c, p) /\ ~IsThrottled(c, p, left, free) => left > TailStart
         /\ \A less \in Nat : less <= left /\ IsThrottled(c, p, left, free)
                                => IsThrottled(c, p, less, free)
<1> DEFINE d == Depth[p]
           m == SLOW_HOST_TAIL_WORK_MULTIPLIER
           most(x) == Max({TAIL_STEAL_THRESHOLD, PlannedSize(c, p, x, free) * d * m})
<1>1. /\ d \in Nat \ {0} /\ m \in Nat \ {0} /\ LargestBatch \in Nat /\ TailBudget \in Nat
      /\ LargestBatch * d * m <= TailBudget /\ TailStart = 16 /\ 16 <= TailBudget
      /\ TAIL_STEAL_THRESHOLD = 16
  <2>1. p \in Peer
    BY CallTypes
  <2> QED
    BY <2>1, PumpAssumption, PumpLoopAssumption, BatchSizingAssumption DEF TAIL_STEAL_THRESHOLD
<1>2. PICK a \in 1 .. LargestBatch : \A x \in Nat : Shaped(PlannedSize(c, p, x, free), a, x)
  BY PlannedShape
<1>3. \A x : IsThrottled(c, p, x, free) <=> Slow(c, p) /\ x <= most(x)
  BY DEF IsThrottled, Slow, ShouldThrottleSlowHostForTail
<1> HIDE DEF d, m, most
<1>4. ASSUME NEW x \in Nat
      PROVE  /\ PlannedSize(c, p, x, free) \in 1 .. LargestBatch
             /\ x > 16 => PlannedSize(c, p, x, free) = IF a <= x THEN a ELSE x
             /\ PlannedSize(c, p, x, free) * d * m \in Nat
             /\ PlannedSize(c, p, x, free) * d * m <= LargestBatch * d * m
             /\ LargestBatch * d * m \in Nat
             /\ most(x) = IF 16 >= PlannedSize(c, p, x, free) * d * m THEN 16
                          ELSE PlannedSize(c, p, x, free) * d * m
  <2>1. PlannedSize(c, p, x, free) = IF x <= 16 THEN 1 ELSE IF a <= x THEN a ELSE x
    BY <1>1, <1>2 DEF Shaped
  <2>2. a \in Nat /\ a >= 1 /\ a <= LargestBatch
    BY <1>1, <1>2
  <2>3. PlannedSize(c, p, x, free) \in 1 .. LargestBatch
    BY ONLY <1>1, <2>1, <2>2, x \in Nat
  <2> PICK s : s = PlannedSize(c, p, x, free)
    OBVIOUS
  <2>4. s * d * m <= LargestBatch * d * m /\ s * d * m \in Nat /\ LargestBatch * d * m \in Nat
    BY <1>1, <2>3, ProductGrows
  <2>5. most(x) = IF 16 >= s * d * m THEN 16 ELSE s * d * m
    <3> PICK k : k = s * d * m
      OBVIOUS
    <3>1. Max({16, k}) = IF 16 >= k THEN 16 ELSE k
      BY <2>4, GreaterOf
    <3>2. most(x) = Max({16, k})
      BY <1>1 DEF most
    <3> QED
      BY <3>1, <3>2
  <2> QED
    BY <2>1, <2>3, <2>4, <2>5
<1>5. most(left) \in Nat /\ 16 <= most(left) /\ most(left) <= TailBudget
  <2> PICK k : k = PlannedSize(c, p, left, free) * d * m
    OBVIOUS
  <2> PICK u : u = LargestBatch * d * m
    OBVIOUS
  <2>1. /\ k \in Nat /\ u \in Nat /\ k <= u /\ u <= TailBudget
        /\ most(left) = IF 16 >= k THEN 16 ELSE k
    BY <1>1, <1>4
  <2> QED
    BY ONLY <1>1, <2>1
<1>6. ASSUME NEW less \in Nat, less <= left, left <= most(left)
      PROVE  less <= most(less)
  <2>1. CASE less <= 16
    <3> PICK k : k = PlannedSize(c, p, less, free) * d * m
      OBVIOUS
    <3>1. most(less) = (IF 16 >= k THEN 16 ELSE k) /\ k \in Nat
      BY <1>4
    <3> QED
      BY ONLY <2>1, <3>1, less \in Nat
  <2>2. CASE less > 16
    <3> PICK k : k = PlannedSize(c, p, less, free)
      OBVIOUS
    <3> PICK n : n = PlannedSize(c, p, left, free)
      OBVIOUS
    <3>1. left > 16 /\ a \in Nat /\ a >= 1
      BY <1>1, <2>2, <1>6
    <3>2. k = (IF a <= less THEN a ELSE less) /\ n = IF a <= left THEN a ELSE left
      BY <1>4, <2>2, <3>1
    <3>3. /\ most(less) = IF 16 >= k * d * m THEN 16 ELSE k * d * m
          /\ most(left) = IF 16 >= n * d * m THEN 16 ELSE n * d * m
          /\ k * d * m \in Nat /\ n * d * m \in Nat
      BY <1>4
    <3>4. k * d * m <= most(less) /\ left <= n * d * m /\ most(less) \in Nat
      <4> PICK x : x = k * d * m
        OBVIOUS
      <4> PICK y : y = n * d * m
        OBVIOUS
      <4>1. /\ most(less) = IF 16 >= x THEN 16 ELSE x
            /\ most(left) = IF 16 >= y THEN 16 ELSE y
            /\ x \in Nat /\ y \in Nat
        BY <3>3
      <4>2. x <= most(less) /\ left <= y /\ most(less) \in Nat
        BY ONLY <1>6, <3>1, <4>1, left \in Nat
      <4> QED
        BY <4>2
    <3>5. CASE a <= less
      <4>1. a <= left
        BY ONLY <1>6, <3>1, <3>5, left \in Nat, less \in Nat
      <4>2. k = n
        BY <3>2, <3>5, <4>1
      <4>3. less <= n * d * m
        <5> PICK y : y = n * d * m
          OBVIOUS
        <5>1. y \in Nat /\ left <= y
          BY <3>3, <3>4
        <5>2. less <= y
          BY ONLY <1>6, <5>1, left \in Nat, less \in Nat
        <5> QED
          BY <5>2
      <4> QED
        <5> PICK y : y = n * d * m
          OBVIOUS
        <5>1. y \in Nat /\ less <= y /\ y <= most(less) /\ most(less) \in Nat
          BY <3>3, <3>4, <4>2, <4>3
        <5> QED
          BY ONLY <5>1, less \in Nat
    <3>6. CASE ~(a <= less)
      <4>1. k = less
        BY <3>2, <3>6
      <4>2. less <= less * d * m
        <5>1. \A u, v \in Nat : v >= 1 => u <= u * v
          <6> TAKE u, v \in Nat
          <6> HAVE v >= 1
          <6>1. PICK j \in Nat : v = 1 + j
            <7>1. v - 1 \in Nat /\ v = 1 + (v - 1)
              OBVIOUS
            <7> QED
              BY <7>1
          <6>2. u * v = u + u * j /\ u * j \in Nat
            BY <6>1
          <6> QED
            BY <6>2
        <5> PICK y : y = less * d
          OBVIOUS
        <5>2. y \in Nat /\ less <= y
          BY <1>1, <5>1
        <5>3. y <= y * m /\ y * m \in Nat
          BY <1>1, <5>1, <5>2
        <5>4. less <= y * m
          BY <5>2, <5>3
        <5> QED
          BY <5>4
      <4> QED
        <5> PICK y : y = less * d * m
          OBVIOUS
        <5>1. y \in Nat /\ less <= y /\ y <= most(less) /\ most(less) \in Nat
          BY <3>3, <3>4, <4>1, <4>2
        <5> QED
          BY ONLY <5>1, less \in Nat
    <3> QED
      BY <3>5, <3>6
  <2> QED
    BY <2>1, <2>2
<1>7. IsThrottled(c, p, left, free) => Slow(c, p) /\ left <= TailBudget
  <2>1. left <= most(left) => left <= TailBudget
    BY <1>1, <1>5
  <2> QED
    BY <1>3, <2>1
<1>8. Slow(c, p) /\ ~IsThrottled(c, p, left, free) => left > TailStart
  <2>1. ~(left <= most(left)) => left > TailStart
    BY <1>1, <1>5
  <2> QED
    BY <1>3, <2>1
<1> QED
  BY <1>3, <1>6, <1>7, <1>8

(* Nothing handed out changes nothing. *)
LEMMA NothingHandedOut ==
  ASSUME NEW q, QueueTypeOK(q), NEW h, HostRecords(h), NEW hosts, NEW to, DOMAIN to = {}
  PROVE  HandOut(q, to) = q /\ Reserve(q, h, hosts, to) = h
<1>1. NewBatches(q, to) = {} /\ Cardinality(DOMAIN to) = 0
  BY FS_EmptySet DEF NewBatches
<1>2. Max({0} \cup DOMAIN to) = 0
  BY MaxUpTo
<1>3. /\ q.pending \in Seq(Policy) /\ q.attempts \in [Policy -> Nat] /\ q.nextBatchSeq \in Nat
      /\ q.inFlight \in [DOMAIN q.inFlight -> Batch]
  BY DEF QueueTypeOK
<1>4. SubSeq(q.pending, 0 + 1, Len(q.pending)) = q.pending
  <2> PICK s : s = q.pending
    OBVIOUS
  <2>1. s \in Seq(Policy) /\ Len(s) \in Nat /\ \A i \in 1 .. Len(s) : s[i] \in Policy
    BY <1>3, LenProperties, ElementOfSeq
  <2>2. /\ SubSeq(s, 1, Len(s)) \in Seq(Policy)
        /\ Len(SubSeq(s, 1, Len(s))) = (IF 1 <= Len(s) THEN Len(s) - 1 + 1 ELSE 0)
        /\ \A i \in 1 .. Len(s) - 1 + 1 : SubSeq(s, 1, Len(s))[i] = s[1 + i - 1]
    BY <2>1, SubSeqProperties
  <2> PICK t : t = SubSeq(s, 1, Len(s))
    OBVIOUS
  <2>3. t \in Seq(Policy) /\ Len(t) = Len(s)
    BY <2>1, <2>2
  <2>4. \A i \in 1 .. Len(s) : i \in 1 .. Len(s) - 1 + 1 /\ 1 + i - 1 = i
    BY <2>1
  <2>5. \A i \in 1 .. Len(t) : t[i] = s[i]
    BY <2>2, <2>3, <2>4
  <2>6. t = s
    BY <2>1, <2>3, <2>5, SeqEqual
  <2> QED
    BY <2>6
<1>5. [p \in Policy |-> q.attempts[p] + IF \E i \in 1 .. 0 : q.pending[i] = p THEN 1 ELSE 0] = q.attempts
  <2>1. \A p \in Policy : q.attempts[p] + (IF \E i \in 1 .. 0 : q.pending[i] = p THEN 1 ELSE 0) = q.attempts[p]
    BY <1>3
  <2> QED
    BY <1>3, <2>1
<1>6. HandOut(q, to)
        = [q EXCEPT !.pending = q.pending, !.attempts = q.attempts,
                    !.inFlight = q.inFlight, !.nextBatchSeq = q.nextBatchSeq]
  <2> DEFINE given == Max({0} \cup DOMAIN to)
             new == NewBatches(q, to)
             rest == SubSeq(q.pending, given + 1, Len(q.pending))
             att == [p \in Policy |-> q.attempts[p] +
                       IF \E i \in 1 .. given : q.pending[i] = p THEN 1 ELSE 0]
             inf == [b \in DOMAIN q.inFlight \cup new |->
                       IF b \notin new THEN q.inFlight[b]
                       ELSE [peer |-> to[BatchEnd(q, to, b)],
                             policies |-> PoliciesUpTo(q, to, BatchEnd(q, to, b))]]
             seq == q.nextBatchSeq + Cardinality(DOMAIN to)
  <2>1. HandOut(q, to) = [q EXCEPT !.pending = rest, !.attempts = att, !.inFlight = inf,
                                   !.nextBatchSeq = seq]
    BY DEF HandOut
  <2>2. rest = q.pending /\ att = q.attempts
    BY <1>2, <1>4, <1>5
  <2>3. seq = q.nextBatchSeq
    BY <1>1, <1>3
  <2>4. inf = q.inFlight
    <3>1. inf = [b \in DOMAIN q.inFlight |-> q.inFlight[b]]
      BY <1>1
    <3> QED
      BY <1>3, <3>1
  <2> HIDE DEF rest, att, inf, seq
  <2> QED
    BY <2>1, <2>2, <2>3, <2>4
<1>7. HandOut(q, to) = q
  BY <1>6 DEF QueueTypeOK
<1>8. Reserve(q, h, hosts, to) = h
  <2>1. \A p : BatchesFor(q, to, p) = {}
    BY DEF BatchesFor
  <2>2. Reserve(q, h, hosts, to) = [p \in Peer |-> h[p]]
    BY <2>1 DEF Reserve, HostRecords
  <2>3. h = [p \in Peer |-> h[p]]
    BY DEF HostRecords
  <2> QED
    BY <2>2, <2>3
<1> QED
  BY <1>7, <1>8

(* The helper of work-queue.ts reserves what the handout says. *)
LEMMA SameReservation ==
  ASSUME NEW p \in Peer, NEW depth \in Nat \ {0}, NEW n \in Nat \ {0}
  PROVE  ReserveWorkerSlotsForBatch(Workers[p], depth, n) = ReservationFor(p, depth, n)
<1> DEFINE share == (AtLeastOne(Workers[p]) + depth - 1) \div depth
<1>1. Workers[p] \in Nat
  BY PumpAssumption
<1>2. AtLeastOne(Workers[p]) = IF Workers[p] = 0 THEN 1 ELSE Workers[p]
  <2>1. AtLeastOne(Workers[p]) = IF Workers[p] >= 1 THEN Workers[p] ELSE 1
    BY <1>1, OneAtLeast
  <2> QED
    BY <1>1, <2>1
<1>3. share = BatchShare(p, depth) /\ share \in Nat \ {0}
  BY <1>2, ShareIsPositive DEF BatchShare, Ceil
<1> HIDE DEF share
<1>4. AtLeastOne(n) = n /\ AtLeastOne(share) = share
  BY <1>3, OneAtLeast
<1>5. Min({n, share}) = IF n <= share THEN n ELSE share
  BY <1>3, LesserOfTwo
<1>6. LesserOf(n, share) = IF n <= share THEN n ELSE share
  BY <1>3 DEF LesserOf
<1> QED
  BY <1>3, <1>4, <1>5, <1>6 DEF ReserveWorkerSlotsForBatch, ReservationFor, share
-----------------------------------------------------------------------------
(* How far the loops have come with pump c, in state r.  Carried: what r   *)
(* says of queue and records is the handout's effect.                      *)
Carried(c, r) ==
  /\ r = [queue |-> r.queue, host |-> r.host, to |-> r.to, limit |-> r.limit]
  /\ Cuts(c.queue, c.hosts, r.to)
  /\ r.queue = HandOut(c.queue, r.to)
  /\ r.host = Reserve(c.queue, c.host, c.hosts, r.to)
  /\ r.limit \in [c.hosts -> Nat]
  /\ HostRecords(r.host)
  /\ \A x \in Peer :
       /\ DOMAIN r.host[x].reserved \subseteq 1 .. r.queue.nextBatchSeq
       /\ r.host[x].warmed = c.host[x].warmed
  /\ \A x \in c.hosts :
       /\ Cardinality(DOMAIN r.host[x].reserved)
            = Cardinality(DOMAIN c.host[x].reserved) + Cardinality(GivenTo(r.to, x, DOMAIN r.to))
       /\ SlotsReserved(r.host, x)
            = SlotsReserved(c.host, x) + SlotsTaken(c.host, c.hosts, r.to, x, DOMAIN r.to)

(* Each batch was given as a handout gives it, under the limits so far. *)
Served(c, r) ==
  \A e \in DOMAIN r.to :
    LET B == BeforeIn(r.to, e)
        p == r.to[e]
    IN  /\ HasRoom(c.host, c.hosts, r.to, B, p)
        /\ Left(c.queue, B) > r.limit[p]
        /\ Slow(c, p) => Left(c.queue, B) > TailStart
        /\ SizeOf(r.to, e) \in BatchSizes(Left(c.queue, B))
        /\ \A x \in c.hosts : Rank[x] < Rank[p] =>
             x \notin Hungry(c.queue, c.host, c.hosts, r.limit, r.to, B)

(* A limit stands for a host that the throttle holds back from now on. *)
HeldBack(c, r) ==
  \A p \in c.hosts : r.limit[p] # 0 =>
    /\ Slow(c, p) /\ r.limit[p] \in TailStart .. TailBudget
    /\ Len(r.queue.pending) <= r.limit[p]
    /\ IsThrottled(c, p, Len(r.queue.pending), FreeSlots(r.host, p))

(* Host p gets no more. *)
Sated(c, p, r) ==
  \/ IsFull(c, p, r)
  \/ NeedsWarmup(c.host, c.hosts) /\ c.host[p].warmed
  \/ r.limit[p] # 0

(* The loops with V visited and, while W feeds, with the hosts in W fed. *)
Feeding(c, V, W, r) ==
  /\ Carried(c, r) /\ Served(c, r) /\ HeldBack(c, r)
  /\ \A x \in V : Sated(c, x, r)
  /\ \A e \in DOMAIN r.to : r.to[e] \in W

(* p comes right after the hosts in V. *)
ComesNext(c, V, p) ==
  /\ p \in c.hosts /\ p \notin V /\ V \subseteq c.hosts
  /\ \A x \in V : Rank[x] < Rank[p]
  /\ \A x \in c.hosts : Rank[x] < Rank[p] => x \in V

(* What is left and what is free in state r. *)
Stock(c, r) ==
  /\ Len(r.queue.pending) \in Nat /\ Len(r.queue.pending) = Left(c.queue, DOMAIN r.to)
  /\ Max({0} \cup DOMAIN r.to) \in 0 .. Len(c.queue.pending)
  /\ Len(c.queue.pending) \in Nat /\ c.queue.nextBatchSeq \in Nat
  /\ r.queue.nextBatchSeq = c.queue.nextBatchSeq + Cardinality(DOMAIN r.to)
  /\ Cardinality(DOMAIN r.to) \in Nat
  /\ \A x \in Peer : /\ IsFiniteSet(DOMAIN r.host[x].reserved)
                     /\ Cardinality(DOMAIN r.host[x].reserved) \in Nat
                     /\ SlotsReserved(r.host, x) \in Nat
                     /\ FreeSlots(r.host, x) \in 0 .. Workers[x]
                     /\ FreeSlots(r.host, x) = 0 <=> SlotsReserved(r.host, x) >= Workers[x]
                     /\ TargetDepth(c.host, c.hosts, x) \in Nat \ {0}

(* What a handout leaves. *)
LEMMA LengthAfter ==
  ASSUME NEW q, QueueTypeOK(q), NEW hosts, NEW to, Cuts(q, hosts, to)
  PROVE  LET given == Max({0} \cup DOMAIN to)
         IN  /\ Len(HandOut(q, to).pending) = Len(q.pending) - given
             /\ HandOut(q, to).nextBatchSeq = q.nextBatchSeq + Cardinality(DOMAIN to)
             /\ given \in 0 .. Len(q.pending) /\ Len(q.pending) \in Nat
             /\ q.nextBatchSeq \in Nat /\ Cardinality(DOMAIN to) \in Nat
<1>1. q.pending \in Seq(Policy) /\ q.nextBatchSeq \in Nat
  BY DEF QueueTypeOK
<1> PICK n : n = Len(q.pending)
  OBVIOUS
<1> PICK given : given = Max({0} \cup DOMAIN to)
  OBVIOUS
<1>2. DOMAIN to \in SUBSET (1 .. n) /\ n \in Nat
  BY <1>1, LenProperties DEF Cuts
<1>3. given \in 0 .. n
  BY <1>2, MaxUpTo
<1>4. Cardinality(DOMAIN to) \in Nat
  <2>1. IsFiniteSet(1 .. n)
    BY <1>2, FS_Interval
  <2> QED
    BY <1>2, <2>1, FS_Subset, FS_CardinalityType
<1>5. /\ HandOut(q, to).pending = SubSeq(q.pending, given + 1, n)
      /\ HandOut(q, to).nextBatchSeq = q.nextBatchSeq + Cardinality(DOMAIN to)
  BY <1>1 DEF HandOut, QueueTypeOK
<1>6. Len(HandOut(q, to).pending) = n - given
  <2> PICK s : s = q.pending
    OBVIOUS
  <2>1. s \in Seq(Policy) /\ Len(s) = n /\ \A i \in given + 1 .. n : s[i] \in Policy
    BY <1>1, <1>2, <1>3, ElementOfSeq
  <2>2. Len(SubSeq(s, given + 1, n)) = IF given + 1 <= n THEN n - (given + 1) + 1 ELSE 0
    BY <1>2, <1>3, <2>1, SubSeqProperties
  <2>3. Len(SubSeq(s, given + 1, n)) = n - given
    BY ONLY <1>2, <1>3, <2>2
  <2> QED
    BY <1>5, <2>3
<1> QED
  BY <1>1, <1>2, <1>3, <1>4, <1>5, <1>6

LEMMA StockFacts ==
  ASSUME NEW c, IsCall(c), NEW r, Carried(c, r)
  PROVE  Stock(c, r)
<1>1. /\ QueueTypeOK(c.queue) /\ Cuts(c.queue, c.hosts, r.to)
      /\ r.queue = HandOut(c.queue, r.to)
  BY CallTypes DEF Carried
<1>2. /\ Len(r.queue.pending) = Len(c.queue.pending) - Max({0} \cup DOMAIN r.to)
      /\ r.queue.nextBatchSeq = c.queue.nextBatchSeq + Cardinality(DOMAIN r.to)
      /\ Max({0} \cup DOMAIN r.to) \in 0 .. Len(c.queue.pending) /\ Len(c.queue.pending) \in Nat
      /\ c.queue.nextBatchSeq \in Nat /\ Cardinality(DOMAIN r.to) \in Nat
  BY <1>1, LengthAfter
<1>8. r.queue.nextBatchSeq \in Nat
  BY <1>2
<1>9. ASSUME NEW x \in Peer
      PROVE  /\ IsFiniteSet(DOMAIN r.host[x].reserved)
             /\ Cardinality(DOMAIN r.host[x].reserved) \in Nat
             /\ SlotsReserved(r.host, x) \in Nat
             /\ FreeSlots(r.host, x) \in 0 .. Workers[x]
             /\ FreeSlots(r.host, x) = 0 <=> SlotsReserved(r.host, x) >= Workers[x]
             /\ TargetDepth(c.host, c.hosts, x) \in Nat \ {0}
  <2>1. /\ r.host[x].reserved \in [DOMAIN r.host[x].reserved -> Nat]
        /\ DOMAIN r.host[x].reserved \subseteq 1 .. r.queue.nextBatchSeq
    BY DEF Carried, HostRecords
  <2>2. IsFiniteSet(DOMAIN r.host[x].reserved)
    <3>1. IsFiniteSet(1 .. r.queue.nextBatchSeq)
      BY <1>8, FS_Interval
    <3> QED
      BY <2>1, <3>1, FS_Subset
  <2>3. SlotsReserved(r.host, x) \in Nat
    BY <2>1, <2>2, SlotsFinite DEF SlotsReserved
  <2>4. Workers[x] \in Nat
    BY PumpAssumption
  <2>5. TargetDepth(c.host, c.hosts, x) \in Nat \ {0}
    BY PumpAssumption DEF TargetDepth
  <2> PICK k : k = SlotsReserved(r.host, x)
    OBVIOUS
  <2> PICK w : w = Workers[x]
    OBVIOUS
  <2>6. FreeSlots(r.host, x) = IF 0 >= w - k THEN 0 ELSE w - k
    BY <2>3, <2>4, GreaterOf DEF FreeSlots
  <2>7. FreeSlots(r.host, x) \in 0 .. w /\ (FreeSlots(r.host, x) = 0 <=> k >= w)
    <3>1. k \in Nat /\ w \in Nat
      BY <2>3, <2>4
    <3> PICK f : f = FreeSlots(r.host, x)
      OBVIOUS
    <3>2. f = IF 0 >= w - k THEN 0 ELSE w - k
      BY <2>6
    <3>3. f \in 0 .. w /\ (f = 0 <=> k >= w)
      BY ONLY <3>1, <3>2
    <3> QED
      BY <3>3
  <2> QED
    BY <2>2, <2>3, <2>5, <2>7, FS_CardinalityType
<1>10. Len(r.queue.pending) \in Nat
  BY <1>2
<1> QED
  BY <1>2, <1>9, <1>10 DEF Stock, Left

(* A host that gets no more is not hungry. *)
LEMMA SatedIsNotHungry ==
  ASSUME NEW c, IsCall(c), NEW r, Carried(c, r), HeldBack(c, r), NEW x \in c.hosts, Sated(c, x, r)
  PROVE  x \notin Hungry(c.queue, c.host, c.hosts, r.limit, r.to, DOMAIN r.to)
<1>1. Stock(c, r) /\ x \in Peer
  BY StockFacts, CallTypes
<1>2. /\ Len(r.queue.pending) \in Nat /\ Len(r.queue.pending) = Left(c.queue, DOMAIN r.to)
      /\ FreeSlots(r.host, x) = 0 <=> SlotsReserved(r.host, x) >= Workers[x]
      /\ SlotsReserved(r.host, x) \in Nat /\ Cardinality(DOMAIN r.host[x].reserved) \in Nat
      /\ TargetDepth(c.host, c.hosts, x) \in Nat
  BY <1>1 DEF Stock
<1>3. /\ r.limit[x] \in Nat /\ Workers[x] \in Nat
      /\ Cardinality(DOMAIN r.host[x].reserved)
           = Cardinality(DOMAIN c.host[x].reserved) + Cardinality(GivenTo(r.to, x, DOMAIN r.to))
      /\ SlotsReserved(r.host, x)
           = SlotsReserved(c.host, x) + SlotsTaken(c.host, c.hosts, r.to, x, DOMAIN r.to)
  BY <1>1, PumpAssumption DEF Carried
<1>4. CASE Len(r.queue.pending) = 0
  BY <1>2, <1>3, <1>4 DEF Hungry
<1>5. CASE Cardinality(DOMAIN r.host[x].reserved) >= TargetDepth(c.host, c.hosts, x)
  <2>1. ~(Cardinality(DOMAIN r.host[x].reserved) < TargetDepth(c.host, c.hosts, x))
    BY <1>2, <1>5
  <2> QED
    BY <1>3, <2>1 DEF Hungry, HasRoom, GivenTo
<1>6. CASE FreeSlots(r.host, x) = 0
  <2>1. ~(SlotsReserved(r.host, x) < Workers[x])
    BY <1>2, <1>3, <1>6
  <2> QED
    BY <1>3, <2>1 DEF Hungry, HasRoom
<1>7. CASE NeedsWarmup(c.host, c.hosts) /\ c.host[x].warmed
  BY <1>7 DEF Hungry, HasRoom
<1>8. CASE r.limit[x] # 0
  <2>1. Len(r.queue.pending) <= r.limit[x]
    BY <1>8 DEF HeldBack
  <2> QED
    BY <1>2, <1>3, <2>1 DEF Hungry
<1> QED
  BY <1>4, <1>5, <1>6, <1>7, <1>8 DEF Sated, IsFull

(* State r2 is state r with one batch of `size` policies more, for p. *)
Longer(c, r, p, size, end, r2) ==
  /\ Grown(c.queue, c.hosts, r.to, end, p, r2.to)
  /\ r2 = [queue |-> r2.queue, host |-> r2.host, to |-> r2.to, limit |-> r.limit]
  /\ r2.queue = HandOut(c.queue, r2.to)
  /\ r2.host = Reserve(c.queue, c.host, c.hosts, r2.to)
  /\ r2.host = AddBatch(r.host, p, r.queue.nextBatchSeq + 1,
                 ReservationFor(p, TargetDepth(c.host, c.hosts, p), SizeOf(r2.to, end)))
  /\ SizeOf(r2.to, end) = size

LEMMA AssignedIsLonger ==
  ASSUME NEW c, IsCall(c), NEW r, Carried(c, r), NEW p \in c.hosts,
         Len(r.queue.pending) # 0, NEW n \in Nat \ {0}
  PROVE  /\ LesserOf(n, Len(r.queue.pending)) \in 1 .. Len(r.queue.pending)
         /\ \E end : Longer(c, r, p, LesserOf(n, Len(r.queue.pending)), end, Assigned(c, r, p, n))
<1> PICK q : q = c.queue
  OBVIOUS
<1> PICK to : to = r.to
  OBVIOUS
<1> PICK N : N = Len(q.pending)
  OBVIOUS
<1> PICK given : given = Max({0} \cup DOMAIN to)
  OBVIOUS
<1> PICK left : left = Len(r.queue.pending)
  OBVIOUS
<1> PICK k : k = LesserOf(n, left)
  OBVIOUS
<1>1. Stock(c, r) /\ p \in Peer
  BY StockFacts, CallTypes
<1>2. given \in 0 .. N /\ N \in Nat /\ left = N - given /\ left \in Nat \ {0}
  BY <1>1 DEF Stock, Left
<1>3. k = IF n < left THEN n ELSE left
  BY DEF LesserOf
<1>4. k \in 1 .. left /\ k \in Nat \ {0} /\ given + k \in given + 1 .. N
  BY ONLY <1>2, <1>3, n \in Nat \ {0}
<1> PICK to2 : to2 = Extended(to, given + k, p)
  OBVIOUS
<1>5. /\ QueueTypeOK(q) /\ IsInjective(q.pending) /\ c.hosts \in SUBSET Peer /\ HostRecords(c.host)
      /\ Cuts(q, c.hosts, to) /\ r.queue = HandOut(q, to) /\ q.nextBatchSeq \in Nat
      /\ r.host = Reserve(q, c.host, c.hosts, to)
      /\ r.queue.nextBatchSeq = q.nextBatchSeq + Cardinality(DOMAIN to)
      /\ Cardinality(DOMAIN to) \in Nat
  BY <1>1, CallTypes DEF Carried, Stock
<1>6. Grown(q, c.hosts, to, given + k, p, to2)
  <2>1. given + k \in Max({0} \cup DOMAIN to) + 1 .. Len(q.pending) /\ Len(q.pending) \in Nat
    BY <1>2, <1>4
  <2> QED
    BY <1>5, <2>1, OneMoreCut
<1> PICK end : end = given + k
  OBVIOUS
<1>7. /\ Cuts(q, c.hosts, to2) /\ Max({0} \cup DOMAIN to2) = end /\ CutBefore(to2, end) = given
      /\ Cardinality(DOMAIN to2) = Cardinality(DOMAIN to) + 1
  BY <1>6 DEF Grown
<1> PICK q2 : q2 = AssignBatch(r.queue, p, n)
  OBVIOUS
<1>8. q2 = HandOut(q, to2)
  <2>1. AssignBatch(HandOut(q, to), p, n) = HandOut(q, to2)
    <3>1. k = LesserOf(n, left) /\ given = Max({0} \cup DOMAIN to) /\ left = Len(q.pending) - given
      BY <1>2
    <3> QED
      BY ONLY <1>4, <1>5, <1>6, <3>1, p \in c.hosts, n \in Nat \ {0}, AssignExtends
  <2> QED
    BY <1>5, <2>1
<1>9. /\ Len(q2.pending) = N - end
      /\ q2.nextBatchSeq = q.nextBatchSeq + (Cardinality(DOMAIN to) + 1)
  <2>1. /\ Len(HandOut(q, to2).pending) = Len(q.pending) - Max({0} \cup DOMAIN to2)
        /\ HandOut(q, to2).nextBatchSeq = q.nextBatchSeq + Cardinality(DOMAIN to2)
    BY ONLY <1>5, <1>7, LengthAfter
  <2> QED
    BY <1>7, <1>8, <2>1
<1>10. /\ N - Len(q2.pending) = end /\ left - Len(q2.pending) = k
       /\ q2.nextBatchSeq = r.queue.nextBatchSeq + 1
       /\ q2.nextBatchSeq = q.nextBatchSeq + Cardinality(DOMAIN to) + 1
  <2> PICK s : s = q.nextBatchSeq
    OBVIOUS
  <2> PICK m : m = Cardinality(DOMAIN to)
    OBVIOUS
  <2>2. s + (m + 1) = s + m + 1
    <3>1. s \in Nat /\ m \in Nat
      BY <1>5
    <3> QED
      BY ONLY <3>1
  <2>3. r.queue.nextBatchSeq = s + m /\ q2.nextBatchSeq = s + (m + 1)
    BY <1>5, <1>9
  <2>1. N - (N - end) = end /\ left - (N - end) = k
    BY ONLY <1>2, <1>4, end = given + k
  <2> QED
    BY <1>9, <2>1, <2>2, <2>3
<1>11. SizeOf(to2, end) = k
  <2>1. end - given = k
    BY ONLY <1>2, <1>4, end = given + k
  <2> QED
    BY <1>7, <2>1 DEF SizeOf
<1> PICK depth : depth = TargetDepth(c.host, c.hosts, p)
  OBVIOUS
<1> PICK slots : slots = ReservationFor(p, depth, k)
  OBVIOUS
<1>12. ReserveWorkerSlotsForBatch(Workers[p], depth, k) = slots
  <2>1. depth \in Nat \ {0}
    BY <1>1 DEF Stock
  <2> QED
    BY <1>1, <1>4, <2>1, SameReservation
<1> PICK h2 : h2 = AddBatch(r.host, p, q2.nextBatchSeq, slots)
  OBVIOUS
<1>13. h2 = Reserve(q, c.host, c.hosts, to2)
  <2>1. /\ q2.nextBatchSeq = q.nextBatchSeq + Cardinality(DOMAIN to) + 1
        /\ slots = ReservationFor(p, TargetDepth(c.host, c.hosts, p), SizeOf(to2, end))
        /\ Len(q.pending) \in Nat /\ Grown(q, c.hosts, to, end, p, to2)
    BY <1>2, <1>6, <1>10, <1>11
  <2>2. AddBatch(Reserve(q, c.host, c.hosts, to), p, q2.nextBatchSeq, slots) = Reserve(q, c.host, c.hosts, to2)
    BY ONLY <1>5, <2>1, p \in c.hosts, ReserveExtends
  <2> QED
    BY <1>5, <2>2
<1>14. Assigned(c, r, p, n) = [queue |-> q2, host |-> h2, to |-> to2, limit |-> r.limit]
  <2>1. to2 = [e \in DOMAIN r.to \cup {end} |-> IF e = end THEN p ELSE r.to[e]]
    BY DEF Extended
  <2>2. /\ Len(c.queue.pending) - Len(q2.pending) = end
        /\ Len(r.queue.pending) - Len(q2.pending) = k
    BY <1>10
  <2> QED
    BY <1>12, <2>1, <2>2 DEF Assigned
<1> PICK r2 : r2 = Assigned(c, r, p, n)
  OBVIOUS
<1>15. r2.queue = q2 /\ r2.host = h2 /\ r2.to = to2
       /\ r2 = [queue |-> q2, host |-> h2, to |-> to2, limit |-> r.limit]
  BY <1>14
<1>16. h2 = AddBatch(r.host, p, r.queue.nextBatchSeq + 1,
              ReservationFor(p, TargetDepth(c.host, c.hosts, p), SizeOf(to2, end)))
  BY <1>10, <1>11
<1>17. Longer(c, r, p, k, end, r2)
  BY <1>6, <1>8, <1>11, <1>13, <1>15, <1>16 DEF Longer
<1> QED
  BY <1>4, <1>17

(* The records with one more batch b for p. *)
Entered(h, p, b, slots, h2) ==
  /\ HostRecords(h2)
  /\ \A x \in Peer : x # p => h2[x] = h[x]
  /\ h2[p].warmed = h[p].warmed /\ h2[p].incomplete = h[p].incomplete
  /\ h2[p].cooling = h[p].cooling
  /\ DOMAIN h2[p].reserved = DOMAIN h[p].reserved \cup {b}
  /\ h2[p].reserved[b] = slots
  /\ \A d \in DOMAIN h[p].reserved : d # b => h2[p].reserved[d] = h[p].reserved[d]

LEMMA AddBatchEnters ==
  ASSUME NEW h, HostRecords(h), NEW p \in Peer, NEW b, NEW slots \in Nat
  PROVE  Entered(h, p, b, slots, AddBatch(h, p, b, slots))
<1> DEFINE old == h[p].reserved
           new == [d \in DOMAIN old \cup {b} |-> IF d = b THEN slots ELSE old[d]]
           h2  == AddBatch(h, p, b, slots)
<1>1. /\ DOMAIN h = Peer /\ h = [x \in Peer |-> h[x]]
      /\ \A x \in Peer : h[x] \in [ reserved : [DOMAIN h[x].reserved -> Nat],
                                    warmed : BOOLEAN, incomplete : Nat, cooling : BOOLEAN ]
  BY DEF HostRecords
<1>2. new \in [DOMAIN old \cup {b} -> Nat] /\ DOMAIN new = DOMAIN old \cup {b}
      /\ new[b] = slots /\ \A d \in DOMAIN old : d # b => new[d] = old[d]
  <2>1. old \in [DOMAIN old -> Nat]
    BY <1>1
  <2> QED
    BY <2>1
<1>3. h2 = [h EXCEPT ![p].reserved = new]
  BY DEF AddBatch
<1> HIDE DEF new, old, h2
<1>4. DOMAIN h2 = Peer /\ h2 = [x \in Peer |-> h2[x]]
  BY <1>1, <1>3
<1>5. \A x \in Peer : x # p => h2[x] = h[x]
  BY <1>1, <1>3
<1>6. h2[p] = [h[p] EXCEPT !.reserved = new]
  BY <1>1, <1>3
<1>7. /\ h2[p].reserved = new /\ h2[p].warmed = h[p].warmed
      /\ h2[p].incomplete = h[p].incomplete /\ h2[p].cooling = h[p].cooling
      /\ h2[p] \in [ reserved : [DOMAIN new -> Nat],
                     warmed : BOOLEAN, incomplete : Nat, cooling : BOOLEAN ]
  BY <1>1, <1>2, <1>6
<1>8. \A x \in Peer : h2[x] \in [ reserved : [DOMAIN h2[x].reserved -> Nat],
                                  warmed : BOOLEAN, incomplete : Nat, cooling : BOOLEAN ]
  BY <1>1, <1>5, <1>7
<1>9. HostRecords(h2)
  BY <1>4, <1>8 DEF HostRecords
<1> QED
  BY <1>2, <1>5, <1>7, <1>9 DEF Entered, h2, old

(* Handing out one more batch carries on. *)
LEMMA LongerIsCarried ==
  ASSUME NEW c, IsCall(c), NEW r, Carried(c, r), NEW p \in c.hosts, NEW size, NEW end, NEW r2,
         Longer(c, r, p, size, end, r2)
  PROVE  /\ Carried(c, r2)
         /\ r2.limit = r.limit
         /\ \A x \in Peer : x # p => r2.host[x] = r.host[x]
         /\ Cardinality(DOMAIN r2.host[p].reserved) = Cardinality(DOMAIN r.host[p].reserved) + 1
<1> PICK b : b = r.queue.nextBatchSeq + 1
  OBVIOUS
<1> PICK slots : slots = ReservationFor(p, TargetDepth(c.host, c.hosts, p), SizeOf(r2.to, end))
  OBVIOUS
<1>1. Stock(c, r) /\ p \in Peer /\ c.hosts \in SUBSET Peer /\ QueueTypeOK(c.queue)
      /\ Len(c.queue.pending) \in Nat
  BY StockFacts, CallTypes DEF Stock
<1>2. /\ Grown(c.queue, c.hosts, r.to, end, p, r2.to)
      /\ r2 = [queue |-> r2.queue, host |-> r2.host, to |-> r2.to, limit |-> r.limit]
      /\ r2.queue = HandOut(c.queue, r2.to)
      /\ r2.host = Reserve(c.queue, c.host, c.hosts, r2.to)
      /\ r2.host = AddBatch(r.host, p, b, slots)
  BY DEF Longer
<1>3. Cuts(c.queue, c.hosts, r2.to) /\ Cuts(c.queue, c.hosts, r.to)
      /\ Cardinality(DOMAIN r2.to) = Cardinality(DOMAIN r.to) + 1
      /\ Cardinality(DOMAIN r.to) \in Nat
  BY <1>2 DEF Grown, Carried
<1>4. TakesMore(c.host, c.hosts, r.to, end, p, r2.to)
  BY ONLY <1>1, <1>2, <1>3, p \in c.hosts, TakenExtends
<1>5. /\ SlotsTaken(c.host, c.hosts, r2.to, p, DOMAIN r2.to)
           = SlotsTaken(c.host, c.hosts, r.to, p, DOMAIN r.to) + slots
      /\ SlotsTaken(c.host, c.hosts, r.to, p, DOMAIN r.to) \in Nat /\ slots \in Nat
      /\ Cardinality(GivenTo(r2.to, p, DOMAIN r2.to)) = Cardinality(GivenTo(r.to, p, DOMAIN r.to)) + 1
      /\ Cardinality(GivenTo(r.to, p, DOMAIN r.to)) \in Nat
      /\ \A x \in c.hosts : x # p =>
           /\ SlotsTaken(c.host, c.hosts, r2.to, x, DOMAIN r2.to) = SlotsTaken(c.host, c.hosts, r.to, x, DOMAIN r.to)
           /\ GivenTo(r2.to, x, DOMAIN r2.to) = GivenTo(r.to, x, DOMAIN r.to)
  BY <1>4 DEF TakesMore
<1>6. /\ HostRecords(r.host) /\ r.limit \in [c.hosts -> Nat]
      /\ \A x \in Peer :
           /\ DOMAIN r.host[x].reserved \subseteq 1 .. r.queue.nextBatchSeq
           /\ r.host[x].warmed = c.host[x].warmed
      /\ \A x \in c.hosts :
           /\ Cardinality(DOMAIN r.host[x].reserved)
                = Cardinality(DOMAIN c.host[x].reserved) + Cardinality(GivenTo(r.to, x, DOMAIN r.to))
           /\ SlotsReserved(r.host, x)
                = SlotsReserved(c.host, x) + SlotsTaken(c.host, c.hosts, r.to, x, DOMAIN r.to)
  BY DEF Carried
<1>7. Entered(r.host, p, b, slots, r2.host)
  BY <1>1, <1>2, <1>5, <1>6, AddBatchEnters
<1>8. r2.queue.nextBatchSeq = b /\ r.queue.nextBatchSeq \in Nat /\ b = r.queue.nextBatchSeq + 1
  <2>1. r2.queue.nextBatchSeq = c.queue.nextBatchSeq + Cardinality(DOMAIN r2.to)
    <3>1. HandOut(c.queue, r2.to).nextBatchSeq = c.queue.nextBatchSeq + Cardinality(DOMAIN r2.to)
      BY ONLY <1>1, <1>3, LengthAfter
    <3> QED
      BY <1>2, <3>1
  <2>2. /\ r.queue.nextBatchSeq = c.queue.nextBatchSeq + Cardinality(DOMAIN r.to)
        /\ c.queue.nextBatchSeq \in Nat
    BY <1>1 DEF Stock
  <2> PICK s : s = c.queue.nextBatchSeq
    OBVIOUS
  <2> PICK m : m = Cardinality(DOMAIN r.to)
    OBVIOUS
  <2>3. s \in Nat /\ m \in Nat
    BY <1>3, <2>2
  <2>4. s + (m + 1) = s + m + 1 /\ s + m \in Nat
    BY ONLY <2>3
  <2> QED
    BY <1>3, <2>1, <2>2, <2>4
<1>9. b \notin DOMAIN r.host[p].reserved
  <2>1. DOMAIN r.host[p].reserved \subseteq 1 .. r.queue.nextBatchSeq
    BY <1>1, <1>6
  <2>2. b \notin 1 .. r.queue.nextBatchSeq
    BY ONLY <1>8
  <2> QED
    BY <2>1, <2>2
<1>10. /\ HostRecords(r2.host)
       /\ \A x \in Peer : x # p => r2.host[x] = r.host[x]
       /\ r2.host[p].warmed = r.host[p].warmed
       /\ DOMAIN r2.host[p].reserved = DOMAIN r.host[p].reserved \cup {b}
       /\ r2.host[p].reserved[b] = slots
       /\ \A d \in DOMAIN r.host[p].reserved : r2.host[p].reserved[d] = r.host[p].reserved[d]
  BY <1>7, <1>9 DEF Entered
<1>11. /\ IsFiniteSet(DOMAIN r.host[p].reserved)
       /\ Cardinality(DOMAIN r.host[p].reserved) \in Nat
  BY <1>1 DEF Stock
<1>12. Cardinality(DOMAIN r2.host[p].reserved) = Cardinality(DOMAIN r.host[p].reserved) + 1
  <2> PICK A : A = DOMAIN r.host[p].reserved
    OBVIOUS
  <2>1. b \notin A /\ IsFiniteSet(A) /\ DOMAIN r2.host[p].reserved = A \cup {b}
    BY <1>9, <1>10, <1>11
  <2>2. Cardinality(A \cup {b}) = Cardinality(A) + 1
    BY ONLY <2>1, FS_AddElement
  <2> QED
    BY <2>1, <2>2
<1>13. SlotsReserved(r2.host, p) = SlotsReserved(r.host, p) + slots
       /\ SlotsReserved(r.host, p) \in Nat
  <2> PICK A : A = DOMAIN r.host[p].reserved
    OBVIOUS
  <2> PICK f : f = r.host[p].reserved
    OBVIOUS
  <2> PICK w : w = r2.host[p].reserved
    OBVIOUS
  <2>1. f \in [A -> Nat]
    BY <1>1, <1>6 DEF HostRecords
  <2>2. IsFiniteSet(A) /\ b \notin A /\ slots \in Nat /\ DOMAIN w = A \cup {b}
        /\ w[b] = slots /\ \A d \in A : w[d] = f[d]
    BY <1>5, <1>9, <1>10, <1>11
  <2>3. Cardinality(SlotsOf(w)) = Cardinality(SlotsOf(f)) + slots /\ Cardinality(SlotsOf(f)) \in Nat
    BY ONLY <2>1, <2>2, SlotsAdded
  <2> QED
    BY <2>3 DEF SlotsReserved
<1>14. ASSUME NEW x \in Peer
       PROVE  /\ DOMAIN r2.host[x].reserved \subseteq 1 .. r2.queue.nextBatchSeq
              /\ r2.host[x].warmed = c.host[x].warmed
  <2>1. /\ DOMAIN r.host[x].reserved \subseteq 1 .. r.queue.nextBatchSeq
        /\ r.host[x].warmed = c.host[x].warmed
    BY <1>6
  <2>2. 1 .. r.queue.nextBatchSeq \subseteq 1 .. b /\ b \in 1 .. b
    BY ONLY <1>8
  <2> QED
    BY <1>8, <1>10, <2>1, <2>2
<1>15. ASSUME NEW x \in c.hosts
       PROVE  /\ Cardinality(DOMAIN r2.host[x].reserved)
                   = Cardinality(DOMAIN c.host[x].reserved) + Cardinality(GivenTo(r2.to, x, DOMAIN r2.to))
              /\ SlotsReserved(r2.host, x)
                   = SlotsReserved(c.host, x) + SlotsTaken(c.host, c.hosts, r2.to, x, DOMAIN r2.to)
  <2>1. CASE x # p
    <3>1. r2.host[x] = r.host[x]
      BY <1>1, <1>10, <2>1
    <3>2. SlotsReserved(r2.host, x) = SlotsReserved(r.host, x)
      BY <3>1 DEF SlotsReserved
    <3> QED
      BY <1>5, <1>6, <2>1, <3>1, <3>2
  <2>2. CASE x = p
    <3> PICK u : u = Cardinality(DOMAIN c.host[p].reserved)
      OBVIOUS
    <3> PICK g : g = Cardinality(GivenTo(r.to, p, DOMAIN r.to))
      OBVIOUS
    <3> PICK v : v = SlotsReserved(c.host, p)
      OBVIOUS
    <3> PICK t : t = SlotsTaken(c.host, c.hosts, r.to, p, DOMAIN r.to)
      OBVIOUS
    <3>0. u \in Nat /\ v \in Nat
      <4>1. /\ c.host[p].reserved \in [DOMAIN c.host[p].reserved -> Nat]
            /\ DOMAIN c.host[p].reserved \subseteq 1 .. c.queue.nextBatchSeq
            /\ c.queue.nextBatchSeq \in Nat
        BY <1>1, CallTypes DEF HostRecords, Stock
      <4>2. IsFiniteSet(DOMAIN c.host[p].reserved)
        <5>1. IsFiniteSet(1 .. c.queue.nextBatchSeq)
          BY <4>1, FS_Interval
        <5> QED
          BY <4>1, <5>1, FS_Subset
      <4> QED
        BY <4>1, <4>2, SlotsFinite, FS_CardinalityType DEF SlotsReserved
    <3>1. g \in Nat /\ t \in Nat /\ slots \in Nat
      BY <1>5
    <3>2. u + g + 1 = u + (g + 1) /\ v + t + slots = v + (t + slots)
      BY ONLY <3>0, <3>1
    <3>3. /\ Cardinality(DOMAIN r2.host[p].reserved) = u + g + 1
          /\ SlotsReserved(r2.host, p) = v + t + slots
      BY <1>6, <1>12, <1>13
    <3> QED
      BY <1>5, <2>2, <3>2, <3>3
  <2> QED
    BY <2>1, <2>2
<1>16. r2.limit = r.limit
  BY <1>2
<1>17. Carried(c, r2)
  BY <1>2, <1>3, <1>6, <1>10, <1>14, <1>15, <1>16 DEF Carried
<1> QED
  BY <1>10, <1>12, <1>16, <1>17

(* What a further batch leaves of the earlier batches. *)
LEMMA CutsRise ==
  ASSUME NEW c, IsCall(c), NEW r, Carried(c, r), NEW e \in DOMAIN r.to
  PROVE  /\ BeforeIn(r.to, e) \in SUBSET DOMAIN r.to
         /\ Left(c.queue, BeforeIn(r.to, e)) \in Nat
         /\ Left(c.queue, BeforeIn(r.to, e)) > Len(r.queue.pending)
<1> PICK n : n = Len(c.queue.pending)
  OBVIOUS
<1> PICK given : given = Max({0} \cup DOMAIN r.to)
  OBVIOUS
<1> PICK cut : cut = CutBefore(r.to, e)
  OBVIOUS
<1>1. Stock(c, r) /\ Cuts(c.queue, c.hosts, r.to)
  BY StockFacts DEF Carried
<1>2. n \in Nat /\ Len(r.queue.pending) = n - given /\ given \in 0 .. n
  BY <1>1 DEF Stock, Left
<1>3. cut \in 0 .. e - 1 /\ e <= given /\ e \in 1 .. n
  BY <1>1, <1>2, CutsPart
<1>4. Left(c.queue, BeforeIn(r.to, e)) = n - cut
  BY DEF Left, BeforeIn, CutBefore
<1>5. n - cut \in Nat /\ n - cut > n - given
  BY ONLY <1>2, <1>3
<1> QED
  BY <1>2, <1>4, <1>5 DEF BeforeIn

(* A turn that hands out a batch. *)
LEMMA LongerKeeps ==
  ASSUME NEW c, IsCall(c), NEW V, NEW p, ComesNext(c, V, p), NEW r, Feeding(c, V, V \cup {p}, r),
         ~IsFull(c, p, r),
         ~IsThrottled(c, p, Len(r.queue.pending), FreeSlots(r.host, p)),
         ~(NeedsWarmup(c.host, c.hosts) /\ c.host[p].warmed),
         NEW size \in 1 .. Len(r.queue.pending),
         size \in BatchSizes(Len(r.queue.pending)), NEW end, NEW r2,
         Longer(c, r, p, size, end, r2)
  PROVE  Feeding(c, V, V \cup {p}, r2)
<1>1. /\ p \in c.hosts /\ p \notin V /\ V \subseteq c.hosts
      /\ \A x \in V : Rank[x] < Rank[p]
      /\ \A x \in c.hosts : Rank[x] < Rank[p] => x \in V
  BY DEF ComesNext
<1>2. /\ Carried(c, r) /\ Served(c, r) /\ HeldBack(c, r)
      /\ \A x \in V : Sated(c, x, r)
      /\ \A e \in DOMAIN r.to : r.to[e] \in V \cup {p}
  BY DEF Feeding
<1>3. /\ Carried(c, r2) /\ r2.limit = r.limit
      /\ \A x \in Peer : x # p => r2.host[x] = r.host[x]
  BY <1>1, <1>2, LongerIsCarried
<1>4. Grown(c.queue, c.hosts, r.to, end, p, r2.to) /\ SizeOf(r2.to, end) = size
  BY DEF Longer
<1>5. /\ DOMAIN r2.to = DOMAIN r.to \cup {end} /\ r2.to[end] = p
      /\ \A e \in DOMAIN r.to : /\ r2.to[e] = r.to[e]
                                /\ CutBefore(r2.to, e) = CutBefore(r.to, e)
                                /\ BeforeIn(r2.to, e) = BeforeIn(r.to, e)
      /\ BeforeIn(r2.to, end) = DOMAIN r.to
      /\ end > Max({0} \cup DOMAIN r.to) /\ end \in Nat
  <2>1. /\ Max({0} \cup DOMAIN r2.to) = end /\ Cuts(c.queue, c.hosts, r2.to)
        /\ CutBefore(r2.to, end) = Max({0} \cup DOMAIN r.to) /\ DOMAIN r2.to = DOMAIN r.to \cup {end}
        /\ end \in 1 .. Len(c.queue.pending)
    BY <1>4 DEF Grown
  <2>2. Len(c.queue.pending) \in Nat
    BY <1>2, StockFacts DEF Stock
  <2>3. CutBefore(r2.to, end) \in 0 .. end - 1
    BY <2>1, <2>2, CutsPart
  <2>4. end > Max({0} \cup DOMAIN r.to) /\ end \in Nat
    <3> PICK m : m = Max({0} \cup DOMAIN r.to)
      OBVIOUS
    <3>1. m \in 0 .. end - 1 /\ end \in Nat
      BY <2>1, <2>3
    <3> QED
      BY ONLY <3>1, m = Max({0} \cup DOMAIN r.to)
  <2> QED
    BY <1>4, <2>4 DEF Grown
<1>6. /\ \A x \in c.hosts : \A D \in SUBSET DOMAIN r.to :
           /\ SlotsTaken(c.host, c.hosts, r2.to, x, D) = SlotsTaken(c.host, c.hosts, r.to, x, D)
           /\ GivenTo(r2.to, x, D) = GivenTo(r.to, x, D)
  <2>1. /\ Len(c.queue.pending) \in Nat /\ c.hosts \in SUBSET Peer /\ Cuts(c.queue, c.hosts, r.to)
    BY <1>2, StockFacts, CallTypes DEF Stock, Carried
  <2>2. TakesMore(c.host, c.hosts, r.to, end, p, r2.to)
    BY ONLY <1>1, <1>4, <2>1, TakenExtends
  <2> QED
    BY <2>2 DEF TakesMore
<1>7. ASSUME NEW D \in SUBSET DOMAIN r.to
      PROVE  /\ \A x \in c.hosts : HasRoom(c.host, c.hosts, r2.to, D, x) <=> HasRoom(c.host, c.hosts, r.to, D, x)
             /\ Hungry(c.queue, c.host, c.hosts, r2.limit, r2.to, D) = Hungry(c.queue, c.host, c.hosts, r.limit, r.to, D)
  <2>1. \A x \in c.hosts : HasRoom(c.host, c.hosts, r2.to, D, x) <=> HasRoom(c.host, c.hosts, r.to, D, x)
    BY <1>6, RoomSame
  <2> QED
    BY <1>3, <2>1 DEF Hungry
<1>8. /\ Len(r.queue.pending) \in Nat /\ Len(r.queue.pending) = Left(c.queue, DOMAIN r.to)
      /\ Len(r2.queue.pending) \in Nat /\ Len(r2.queue.pending) <= Len(r.queue.pending)
  <2>1. Stock(c, r) /\ Stock(c, r2)
    BY <1>2, <1>3, StockFacts
  <2>2. Max({0} \cup DOMAIN r2.to) = end
    BY <1>4 DEF Grown
  <2> PICK m : m = Max({0} \cup DOMAIN r.to)
    OBVIOUS
  <2> PICK n : n = Len(c.queue.pending)
    OBVIOUS
  <2>3. /\ Len(r.queue.pending) = n - m /\ Len(r2.queue.pending) = n - end
        /\ Len(r.queue.pending) \in Nat /\ Len(r2.queue.pending) \in Nat
        /\ m \in 0 .. n /\ n \in Nat
    BY <2>1, <2>2 DEF Stock, Left
  <2>4. n - end <= n - m
    BY ONLY <1>5, <2>3, m = Max({0} \cup DOMAIN r.to)
  <2> QED
    BY <2>1, <2>3, <2>4 DEF Stock
<1>9. r.limit[p] = 0
  BY <1>1, <1>2 DEF HeldBack
<1>10. HasRoom(c.host, c.hosts, r.to, DOMAIN r.to, p)
  <2>1. Stock(c, r) /\ p \in Peer /\ Workers[p] \in Nat
    BY <1>1, <1>2, StockFacts, CallTypes, PumpAssumption
  <2>2. /\ Cardinality(DOMAIN r.host[p].reserved) < TargetDepth(c.host, c.hosts, p)
        /\ FreeSlots(r.host, p) # 0
    BY <2>1 DEF IsFull, Stock
  <2>3. SlotsReserved(r.host, p) < Workers[p]
    BY <2>1, <2>2 DEF Stock
  <2>4. /\ Cardinality(DOMAIN r.host[p].reserved)
             = Cardinality(DOMAIN c.host[p].reserved) + Cardinality(GivenTo(r.to, p, DOMAIN r.to))
        /\ SlotsReserved(r.host, p)
             = SlotsReserved(c.host, p) + SlotsTaken(c.host, c.hosts, r.to, p, DOMAIN r.to)
    BY <1>1, <1>2 DEF Carried
  <2> QED
    BY <2>2, <2>3, <2>4 DEF HasRoom, GivenTo
<1>11. ASSUME NEW e \in DOMAIN r2.to
       PROVE  /\ HasRoom(c.host, c.hosts, r2.to, BeforeIn(r2.to, e), r2.to[e])
              /\ Left(c.queue, BeforeIn(r2.to, e)) > r2.limit[r2.to[e]]
              /\ Slow(c, r2.to[e]) => Left(c.queue, BeforeIn(r2.to, e)) > TailStart
              /\ SizeOf(r2.to, e) \in BatchSizes(Left(c.queue, BeforeIn(r2.to, e)))
              /\ \A x \in c.hosts : Rank[x] < Rank[r2.to[e]] =>
                   x \notin Hungry(c.queue, c.host, c.hosts, r2.limit, r2.to, BeforeIn(r2.to, e))
  <2>1. CASE e \in DOMAIN r.to
    <3>1. /\ BeforeIn(r2.to, e) = BeforeIn(r.to, e) /\ r2.to[e] = r.to[e]
          /\ SizeOf(r2.to, e) = SizeOf(r.to, e) /\ BeforeIn(r.to, e) \in SUBSET DOMAIN r.to
      BY <1>5, <2>1 DEF SizeOf, BeforeIn
    <3>2. r.to[e] \in c.hosts
      BY <1>1, <1>2, <2>1
    <3>3. /\ HasRoom(c.host, c.hosts, r.to, BeforeIn(r.to, e), r.to[e])
          /\ Left(c.queue, BeforeIn(r.to, e)) > r.limit[r.to[e]]
          /\ Slow(c, r.to[e]) => Left(c.queue, BeforeIn(r.to, e)) > TailStart
          /\ SizeOf(r.to, e) \in BatchSizes(Left(c.queue, BeforeIn(r.to, e)))
          /\ \A x \in c.hosts : Rank[x] < Rank[r.to[e]] =>
               x \notin Hungry(c.queue, c.host, c.hosts, r.limit, r.to, BeforeIn(r.to, e))
      BY <1>2, <2>1 DEF Served
    <3>4. /\ HasRoom(c.host, c.hosts, r2.to, BeforeIn(r.to, e), r.to[e])
          /\ Hungry(c.queue, c.host, c.hosts, r2.limit, r2.to, BeforeIn(r.to, e))
               = Hungry(c.queue, c.host, c.hosts, r.limit, r.to, BeforeIn(r.to, e))
      BY <1>7, <3>1, <3>2, <3>3
    <3> QED
      BY <1>3, <3>1, <3>3, <3>4
  <2>2. CASE e = end
    <3>1. BeforeIn(r2.to, e) = DOMAIN r.to /\ r2.to[e] = p
      BY <1>5, <2>2
    <3>2. HasRoom(c.host, c.hosts, r2.to, DOMAIN r.to, p)
      BY <1>1, <1>7, <1>10
    <3>3. Left(c.queue, DOMAIN r.to) > r2.limit[p]
      <4>1. Len(r.queue.pending) > 0
        BY <1>8 DEF IsFull
      <4> QED
        BY <1>3, <1>8, <1>9, <4>1
    <3>4. Slow(c, p) => Left(c.queue, DOMAIN r.to) > TailStart
      <4>1. FreeSlots(r.host, p) \in 0 .. Workers[p]
        BY <1>1, <1>2, StockFacts, CallTypes DEF Stock
      <4>2. Slow(c, p) => Len(r.queue.pending) > TailStart
        BY <1>1, <1>8, <4>1, ThrottleBounds
      <4> QED
        BY <1>8, <4>2
    <3>5. SizeOf(r2.to, e) \in BatchSizes(Left(c.queue, DOMAIN r.to))
      BY <1>4, <1>8, <2>2
    <3>6. \A x \in c.hosts : Rank[x] < Rank[p] =>
            x \notin Hungry(c.queue, c.host, c.hosts, r2.limit, r2.to, DOMAIN r.to)
      <4> TAKE x \in c.hosts
      <4> HAVE Rank[x] < Rank[p]
      <4>1. Sated(c, x, r)
        BY <1>1, <1>2
      <4>2. x \notin Hungry(c.queue, c.host, c.hosts, r.limit, r.to, DOMAIN r.to)
        BY <1>2, <4>1, SatedIsNotHungry
      <4> QED
        BY <1>7, <4>2
    <3> QED
      BY <3>1, <3>2, <3>3, <3>4, <3>5, <3>6
  <2> QED
    BY <1>5, <2>1, <2>2
<1>12. Served(c, r2)
  BY <1>11, Zenon DEF Served
<1>13. HeldBack(c, r2)
  <2> SUFFICES ASSUME NEW x \in c.hosts, r2.limit[x] # 0
               PROVE  /\ Slow(c, x) /\ r2.limit[x] \in TailStart .. TailBudget
                      /\ Len(r2.queue.pending) <= r2.limit[x]
                      /\ IsThrottled(c, x, Len(r2.queue.pending), FreeSlots(r2.host, x))
    BY DEF HeldBack
  <2>1. /\ Slow(c, x) /\ r.limit[x] \in TailStart .. TailBudget
        /\ Len(r.queue.pending) <= r.limit[x]
        /\ IsThrottled(c, x, Len(r.queue.pending), FreeSlots(r.host, x))
    BY <1>2, <1>3 DEF HeldBack
  <2>2. x # p /\ x \in Peer
    BY <1>3, <1>9, CallTypes
  <2>3. FreeSlots(r2.host, x) = FreeSlots(r.host, x)
    BY <1>3, <2>2 DEF FreeSlots, SlotsReserved
  <2>4. FreeSlots(r.host, x) \in 0 .. Workers[x]
    BY <1>2, <2>2, StockFacts DEF Stock
  <2>5. IsThrottled(c, x, Len(r2.queue.pending), FreeSlots(r.host, x))
    BY <1>8, <2>1, <2>4, ThrottleBounds
  <2>6. Len(r2.queue.pending) <= r.limit[x]
    <3>1. r.limit[x] \in Nat
      BY <1>2 DEF Carried
    <3> QED
      BY <1>8, <2>1, <3>1
  <2> QED
    BY <1>3, <2>1, <2>3, <2>5, <2>6
<1>14. ASSUME NEW x \in V PROVE Sated(c, x, r2)
  <2>1. Sated(c, x, r) /\ x # p /\ x \in Peer
    BY <1>1, <1>2, CallTypes
  <2>2. r2.host[x] = r.host[x]
    BY <1>3, <2>1
  <2>3. Len(r.queue.pending) # 0
    BY DEF IsFull
  <2> QED
    BY <1>3, <2>1, <2>2, <2>3 DEF Sated, IsFull, FreeSlots, SlotsReserved
<1>15. \A e \in DOMAIN r2.to : r2.to[e] \in V \cup {p}
  BY <1>2, <1>5
<1> QED
  BY <1>3, <1>12, <1>13, <1>14, <1>15 DEF Feeding

(* A turn that holds the host back. *)
LEMMA HoldingBackKeeps ==
  ASSUME NEW c, IsCall(c), NEW V, NEW p, ComesNext(c, V, p), NEW r, Feeding(c, V, V \cup {p}, r),
         ~IsFull(c, p, r),
         IsThrottled(c, p, Len(r.queue.pending), FreeSlots(r.host, p)),
         NEW r2, r2 = [r EXCEPT !.limit[p] = Max({Len(r.queue.pending), TAIL_STEAL_THRESHOLD})]
  PROVE  Feeding(c, V, V \cup {p}, r2) /\ Sated(c, p, r2)
<1> PICK left : left = Len(r.queue.pending)
  OBVIOUS
<1> PICK L : L = Max({left, TAIL_STEAL_THRESHOLD})
  OBVIOUS
<1>1. /\ p \in c.hosts /\ p \notin V /\ V \subseteq c.hosts /\ c.hosts \in SUBSET Peer
      /\ \A x \in V : Rank[x] < Rank[p]
      /\ \A x \in c.hosts : Rank[x] < Rank[p] => x \in V
  BY CallTypes DEF ComesNext
<1>2. /\ Carried(c, r) /\ Served(c, r) /\ HeldBack(c, r)
      /\ \A x \in V : Sated(c, x, r)
      /\ \A e \in DOMAIN r.to : r.to[e] \in V \cup {p}
  BY DEF Feeding
<1>3. Stock(c, r)
  BY <1>2, StockFacts
<1>4. left \in Nat /\ FreeSlots(r.host, p) \in 0 .. Workers[p]
  BY <1>1, <1>3 DEF Stock
<1>5. Slow(c, p) /\ left <= TailBudget
  BY <1>1, <1>4, ThrottleBounds
<1>6. L \in Nat /\ L # 0 /\ L \in TailStart .. TailBudget /\ left <= L
      /\ (L = left \/ L = TailStart)
  <2>1. /\ TAIL_STEAL_THRESHOLD = 16 /\ TailStart = 16 /\ TailBudget \in Nat /\ TailBudget >= TailStart
    BY PumpAssumption, PumpLoopAssumption DEF TAIL_STEAL_THRESHOLD
  <2>2. L = IF left >= 16 THEN left ELSE 16
    BY <1>4, <2>1, GreaterOf
  <2> QED
    BY ONLY <1>4, <1>5, <2>1, <2>2
<1>7. /\ r2 = [queue |-> r2.queue, host |-> r2.host, to |-> r2.to, limit |-> r2.limit]
      /\ r2.queue = r.queue /\ r2.host = r.host /\ r2.to = r.to
      /\ r2.limit = [r.limit EXCEPT ![p] = L]
  <2>1. r = [queue |-> r.queue, host |-> r.host, to |-> r.to, limit |-> r.limit]
    BY <1>2 DEF Carried
  <2> QED
    BY <2>1
<1>8. /\ r2.limit \in [c.hosts -> Nat] /\ r2.limit[p] = L
      /\ \A x \in c.hosts : x # p => r2.limit[x] = r.limit[x]
  <2>1. r.limit \in [c.hosts -> Nat]
    BY <1>2 DEF Carried
  <2> QED
    BY <1>1, <1>6, <1>7, <2>1
<1>9. Carried(c, r2)
  BY <1>2, <1>7, <1>8 DEF Carried
<1>10. ASSUME NEW e \in DOMAIN r2.to
       PROVE  /\ HasRoom(c.host, c.hosts, r2.to, BeforeIn(r2.to, e), r2.to[e])
              /\ Left(c.queue, BeforeIn(r2.to, e)) > r2.limit[r2.to[e]]
              /\ Slow(c, r2.to[e]) => Left(c.queue, BeforeIn(r2.to, e)) > TailStart
              /\ SizeOf(r2.to, e) \in BatchSizes(Left(c.queue, BeforeIn(r2.to, e)))
              /\ \A x \in c.hosts : Rank[x] < Rank[r2.to[e]] =>
                   x \notin Hungry(c.queue, c.host, c.hosts, r2.limit, r2.to, BeforeIn(r2.to, e))
  <2> PICK y : y = r.to[e]
    OBVIOUS
  <2>1. y \in V \cup {p} /\ e \in DOMAIN r.to
    BY <1>2, <1>7
  <2>2. /\ HasRoom(c.host, c.hosts, r.to, BeforeIn(r.to, e), y)
        /\ Left(c.queue, BeforeIn(r.to, e)) > r.limit[y]
        /\ Slow(c, y) => Left(c.queue, BeforeIn(r.to, e)) > TailStart
        /\ SizeOf(r.to, e) \in BatchSizes(Left(c.queue, BeforeIn(r.to, e)))
        /\ \A x \in c.hosts : Rank[x] < Rank[y] =>
             x \notin Hungry(c.queue, c.host, c.hosts, r.limit, r.to, BeforeIn(r.to, e))
    BY <1>2, <2>1 DEF Served
  <2>3. Left(c.queue, BeforeIn(r.to, e)) > r2.limit[y]
    <3>1. CASE y = p
      <4>1. Left(c.queue, BeforeIn(r.to, e)) > left
        BY <1>2, <2>1, CutsRise
      <4>2. Left(c.queue, BeforeIn(r.to, e)) > TailStart
        BY <1>5, <2>2, <3>1
      <4> QED
        BY <1>6, <1>8, <3>1, <4>1, <4>2
    <3>2. CASE y # p
      BY <1>1, <1>8, <2>1, <2>2, <3>2
    <3> QED
      BY <3>1, <3>2
  <2>4. \A x \in c.hosts : Rank[x] < Rank[y] =>
          x \notin Hungry(c.queue, c.host, c.hosts, r2.limit, r.to, BeforeIn(r.to, e))
    <3> TAKE x \in c.hosts
    <3> HAVE Rank[x] < Rank[y]
    <3>1. x # p
      <4>1. Rank \in [Peer -> Nat]
        BY PumpAssumption
      <4>2. y \in Peer /\ p \in Peer /\ (y = p \/ Rank[y] < Rank[p])
        BY <1>1, <2>1
      <4>3. Rank[y] \in Nat /\ Rank[p] \in Nat
        BY <4>1, <4>2
      <4>4. x = p => Rank[p] < Rank[y]
        OBVIOUS
      <4> QED
        BY <4>2, <4>3, <4>4
    <3>2. x \notin Hungry(c.queue, c.host, c.hosts, r.limit, r.to, BeforeIn(r.to, e))
      BY <2>2
    <3> QED
      BY <1>8, <3>1, <3>2 DEF Hungry
  <2> QED
    BY <1>7, <2>2, <2>3, <2>4
<1>11. Served(c, r2)
  BY <1>10, Zenon DEF Served
<1>12. HeldBack(c, r2)
  <2> SUFFICES ASSUME NEW x \in c.hosts, r2.limit[x] # 0
               PROVE  /\ Slow(c, x) /\ r2.limit[x] \in TailStart .. TailBudget
                      /\ Len(r2.queue.pending) <= r2.limit[x]
                      /\ IsThrottled(c, x, Len(r2.queue.pending), FreeSlots(r2.host, x))
    BY DEF HeldBack
  <2>1. CASE x = p
    BY <1>5, <1>6, <1>7, <1>8, <2>1
  <2>2. CASE x # p
    BY <1>2, <1>7, <1>8, <2>2 DEF HeldBack
  <2> QED
    BY <2>1, <2>2
<1>13. ASSUME NEW x \in V PROVE Sated(c, x, r2)
  <2>1. Sated(c, x, r) /\ x # p /\ x \in c.hosts
    BY <1>1, <1>2
  <2> QED
    BY <1>7, <1>8, <2>1 DEF Sated, IsFull
<1>14. \A e \in DOMAIN r2.to : r2.to[e] \in V \cup {p}
  BY <1>2, <1>7
<1>15. Sated(c, p, r2)
  BY <1>6, <1>8 DEF Sated
<1> QED
  BY <1>9, <1>11, <1>12, <1>13, <1>14, <1>15 DEF Feeding

(* The turns for one host. *)
LEMMA TurnSteps ==
  ASSUME NEW c, NEW p, NEW r, NEW n \in Nat, n = TargetDepth(c.host, c.hosts, p)
  PROVE  \E after : /\ after[0] = r /\ after[n] = FeedHost(c, p, r)
                    /\ \A k \in 1 .. n : after[k] = FeedOnce(c, p, after[k - 1])
<1> DEFINE F(f, m) == [k \in 0 .. m |-> IF k = 0 THEN r ELSE FeedOnce(c, p, f[k - 1])]
           Good == {m \in 0 .. n : \E f : f = F(f, m)}
           after == CHOOSE f : f = F(f, n)
<1>1. 0 \in Good
  <2> DEFINE f == [k \in 0 .. 0 |-> r]
  <2>1. f = F(f, 0)
    OBVIOUS
  <2>2. 0 \in 0 .. n
    OBVIOUS
  <2> HIDE DEF f
  <2> QED
    BY <2>1, <2>2
<1>2. ASSUME NEW m \in 1 .. n, m - 1 \in Good PROVE m \in Good
  <2>1. PICK f : f = F(f, m - 1)
    BY <1>2
  <2> DEFINE g == [k \in 0 .. m |-> IF k = m THEN FeedOnce(c, p, f[m - 1]) ELSE f[k]]
  <2>2. \A k \in 0 .. m - 1 : g[k] = f[k]
    OBVIOUS
  <2>3. \A k \in 0 .. m - 1 : f[k] = IF k = 0 THEN r ELSE FeedOnce(c, p, f[k - 1])
    BY <2>1
  <2>4. ASSUME NEW k \in 0 .. m
        PROVE  g[k] = IF k = 0 THEN r ELSE FeedOnce(c, p, g[k - 1])
    <3>1. CASE k = m
      <4>1. m - 1 \in 0 .. m - 1 /\ m # 0
        OBVIOUS
      <4> QED
        BY <2>2, <3>1, <4>1
    <3>2. CASE k # m /\ k # 0
      <4>1. k \in 0 .. m - 1 /\ k - 1 \in 0 .. m - 1
        BY <3>2
      <4> QED
        BY <2>2, <2>3, <3>2, <4>1
    <3>3. CASE k # m /\ k = 0
      <4>1. k \in 0 .. m - 1
        BY <3>3
      <4> QED
        BY <2>2, <2>3, <3>3, <4>1
    <3> QED
      BY <3>1, <3>2, <3>3
  <2>5. g = [k \in 0 .. m |-> g[k]]
    OBVIOUS
  <2> HIDE DEF g
  <2>6. g = F(g, m)
    BY <2>4, <2>5
  <2>7. m \in 0 .. n
    OBVIOUS
  <2> QED
    BY <2>6, <2>7
<1>3. n \in Good
  <2> HIDE DEF Good
  <2>1. \A i \in 0 .. n : i \in Good
    BY <1>1, <1>2, UpTo
  <2> QED
    BY <2>1
<1>4. after = F(after, n)
  BY <1>3
<1>5. FeedHost(c, p, r) = after[n]
  BY DEF FeedHost
<1> DEFINE g == F(after, n)
<1>6. g[0] = r /\ \A k \in 1 .. n : g[k] = FeedOnce(c, p, after[k - 1])
  OBVIOUS
<1>7. after = g
  BY <1>4
<1> HIDE DEF after, g
<1>8. after[0] = r /\ \A k \in 1 .. n : after[k] = FeedOnce(c, p, after[k - 1])
  BY <1>6, <1>7
<1> QED
  BY <1>5, <1>8

(* The visits to the hosts. *)
LEMMA VisitSteps ==
  ASSUME NEW c, NEW order, order = InNameOrder(c.hosts), NEW n \in Nat, n = Len(order)
  PROVE  \E after : /\ after[0] = Started(c) /\ after[n] = PumpDispatch(c)
                    /\ \A k \in 1 .. n : after[k] = Visit(c, order[k], after[k - 1])
<1> DEFINE F(f, m) == [k \in 0 .. m |-> IF k = 0 THEN Started(c) ELSE Visit(c, order[k], f[k - 1])]
           Good == {m \in 0 .. n : \E f : f = F(f, m)}
           after == CHOOSE f : f = F(f, n)
<1>1. 0 \in Good
  <2> DEFINE f == [k \in 0 .. 0 |-> Started(c)]
  <2>1. f = F(f, 0)
    OBVIOUS
  <2>2. 0 \in 0 .. n
    OBVIOUS
  <2> HIDE DEF f
  <2> QED
    BY <2>1, <2>2
<1>2. ASSUME NEW m \in 1 .. n, m - 1 \in Good PROVE m \in Good
  <2>1. PICK f : f = F(f, m - 1)
    BY <1>2
  <2> DEFINE g == [k \in 0 .. m |-> IF k = m THEN Visit(c, order[m], f[m - 1]) ELSE f[k]]
  <2>2. \A k \in 0 .. m - 1 : g[k] = f[k]
    OBVIOUS
  <2>3. \A k \in 0 .. m - 1 : f[k] = IF k = 0 THEN Started(c) ELSE Visit(c, order[k], f[k - 1])
    BY <2>1
  <2>4. ASSUME NEW k \in 0 .. m
        PROVE  g[k] = IF k = 0 THEN Started(c) ELSE Visit(c, order[k], g[k - 1])
    <3>1. CASE k = m
      <4>1. m - 1 \in 0 .. m - 1 /\ m # 0
        OBVIOUS
      <4> QED
        BY <2>2, <3>1, <4>1
    <3>2. CASE k # m /\ k # 0
      <4>1. k \in 0 .. m - 1 /\ k - 1 \in 0 .. m - 1
        BY <3>2
      <4> QED
        BY <2>2, <2>3, <3>2, <4>1
    <3>3. CASE k # m /\ k = 0
      <4>1. k \in 0 .. m - 1
        BY <3>3
      <4> QED
        BY <2>2, <2>3, <3>3, <4>1
    <3> QED
      BY <3>1, <3>2, <3>3
  <2>5. g = [k \in 0 .. m |-> g[k]]
    OBVIOUS
  <2> HIDE DEF g
  <2>6. g = F(g, m)
    BY <2>4, <2>5
  <2>7. m \in 0 .. n
    OBVIOUS
  <2> QED
    BY <2>6, <2>7
<1>3. n \in Good
  <2> HIDE DEF Good
  <2>1. \A i \in 0 .. n : i \in Good
    BY <1>1, <1>2, UpTo
  <2> QED
    BY <2>1
<1>4. after = F(after, n)
  BY <1>3
<1>5. PumpDispatch(c) = after[n]
  BY DEF PumpDispatch
<1> DEFINE g == F(after, n)
<1>6. g[0] = Started(c) /\ \A k \in 1 .. n : g[k] = Visit(c, order[k], after[k - 1])
  OBVIOUS
<1>7. after = g
  BY <1>4
<1> HIDE DEF after, g
<1>8. after[0] = Started(c) /\ \A k \in 1 .. n : after[k] = Visit(c, order[k], after[k - 1])
  BY <1>6, <1>7
<1> QED
  BY <1>5, <1>8

(* One turn keeps the batches right, and fills a place or is the last. *)
LEMMA TurnKeeps ==
  ASSUME NEW c, IsCall(c), NEW V, NEW p, ComesNext(c, V, p), NEW r, Feeding(c, V, V \cup {p}, r),
         ~(NeedsWarmup(c.host, c.hosts) /\ c.host[p].warmed),
         NEW r2, r2 = FeedOnce(c, p, r)
  PROVE  /\ Feeding(c, V, V \cup {p}, r2)
         /\ \/ Sated(c, p, r2)
            \/ ~Sated(c, p, r) /\ Cardinality(DOMAIN r2.host[p].reserved)
                                    = Cardinality(DOMAIN r.host[p].reserved) + 1
<1> PICK left : left = Len(r.queue.pending)
  OBVIOUS
<1> PICK free : free = FreeSlots(r.host, p)
  OBVIOUS
<1>1. Carried(c, r) /\ HeldBack(c, r) /\ p \in c.hosts /\ p \in Peer
  BY CallTypes DEF Feeding, ComesNext
<1>2. left \in Nat /\ free \in 0 .. Workers[p]
  BY <1>1, StockFacts DEF Stock
<1>3. CASE IsFull(c, p, r)
  <2>1. r2 = r
    BY <1>3 DEF FeedOnce
  <2> QED
    BY <1>3, <2>1 DEF Sated
<1>4. CASE ~IsFull(c, p, r) /\ IsThrottled(c, p, left, free)
  <2>1. r2 = [r EXCEPT !.limit[p] = Max({left, TAIL_STEAL_THRESHOLD})]
    BY <1>4 DEF FeedOnce
  <2> QED
    BY <1>4, <2>1, HoldingBackKeeps
<1>5. CASE ~IsFull(c, p, r) /\ ~IsThrottled(c, p, left, free)
  <2> PICK n : n = PlannedSize(c, p, left, free)
    OBVIOUS
  <2> PICK size : size = LesserOf(n, left)
    OBVIOUS
  <2>1. r2 = Assigned(c, r, p, n)
    BY <1>5 DEF FeedOnce
  <2>2. PICK a \in 1 .. LargestBatch : \A x \in Nat : Shaped(PlannedSize(c, p, x, free), a, x)
    BY <1>1, <1>2, PlannedShape
  <2>3. left # 0
    BY <1>5 DEF IsFull
  <2>4. /\ n = IF left <= 16 THEN 1 ELSE IF a <= left THEN a ELSE left
        /\ a \in 1 .. LargestBatch /\ LargestBatch \in Nat /\ TailStart = 16
    BY <1>2, <2>2, PumpAssumption, PumpLoopAssumption DEF Shaped, TAIL_STEAL_THRESHOLD
  <2>5. n \in Nat \ {0} /\ size = IF n < left THEN n ELSE left
    <3>1. n \in Nat \ {0}
      BY ONLY <1>2, <2>3, <2>4
    <3> QED
      BY <3>1 DEF LesserOf
  <2>6. size \in 1 .. left /\ size \in BatchSizes(left)
    <3>1. size \in 1 .. left /\ size \in 1 .. (IF left <= TailStart THEN 1 ELSE LargestBatch)
      BY ONLY <1>2, <2>3, <2>4, <2>5
    <3> QED
      BY <3>1 DEF BatchSizes
  <2>7. PICK end : Longer(c, r, p, size, end, r2)
    BY <1>1, <2>1, <2>3, <2>5, AssignedIsLonger
  <2>8. Feeding(c, V, V \cup {p}, r2)
    BY <1>5, <2>6, <2>7, LongerKeeps
  <2>9. Cardinality(DOMAIN r2.host[p].reserved) = Cardinality(DOMAIN r.host[p].reserved) + 1
    BY <1>1, <2>7, LongerIsCarried
  <2>10. ~Sated(c, p, r)
    BY <1>1, <1>5 DEF Sated, HeldBack
  <2> QED
    BY <2>8, <2>9, <2>10
<1> QED
  BY <1>3, <1>4, <1>5

(* After all its turns the host gets no more. *)
LEMMA FeedHostKeeps ==
  ASSUME NEW c, IsCall(c), NEW V, NEW p, ComesNext(c, V, p), NEW r, Feeding(c, V, V \cup {p}, r),
         ~(NeedsWarmup(c.host, c.hosts) /\ c.host[p].warmed)
  PROVE  Feeding(c, V \cup {p}, V \cup {p}, FeedHost(c, p, r))
<1> PICK n : n = TargetDepth(c.host, c.hosts, p)
  OBVIOUS
<1>1. p \in c.hosts /\ p \in Peer
  BY CallTypes DEF ComesNext
<1>2. n \in Nat
  BY <1>1, StockFacts DEF Feeding, Stock
<1>0. IsCall(c) /\ ComesNext(c, V, p) /\ ~(NeedsWarmup(c.host, c.hosts) /\ c.host[p].warmed)
  OBVIOUS
<1>3. PICK turn : /\ turn[0] = r /\ turn[n] = FeedHost(c, p, r)
                  /\ \A k \in 1 .. n : turn[k] = FeedOnce(c, p, turn[k - 1])
  BY <1>2, TurnSteps
<1> DEFINE Good == {k \in 0 .. n :
                      /\ Feeding(c, V, V \cup {p}, turn[k])
                      /\ \/ Sated(c, p, turn[k])
                         \/ Cardinality(DOMAIN turn[k].host[p].reserved) >= k}
<1>4. \A k \in 0 .. n : Feeding(c, V, V \cup {p}, turn[k])
        => Cardinality(DOMAIN turn[k].host[p].reserved) \in Nat
  BY <1>1, StockFacts DEF Feeding, Stock
<1>5. 0 \in Good
  <2>1. 0 \in 0 .. n /\ Feeding(c, V, V \cup {p}, turn[0])
    BY <1>2, <1>3
  <2>2. Cardinality(DOMAIN turn[0].host[p].reserved) \in Nat
    BY <1>4, <2>1
  <2>3. Cardinality(DOMAIN turn[0].host[p].reserved) >= 0
    BY <2>2
  <2> QED
    BY <2>1, <2>3
<1>6. ASSUME NEW k \in 1 .. n, k - 1 \in Good PROVE k \in Good
  <2> PICK u : u = turn[k - 1]
    OBVIOUS
  <2> PICK w : w = turn[k]
    OBVIOUS
  <2>1. /\ Feeding(c, V, V \cup {p}, u) /\ k - 1 \in 0 .. n
        /\ Sated(c, p, u) \/ Cardinality(DOMAIN u.host[p].reserved) >= k - 1
    BY <1>6
  <2>2. w = FeedOnce(c, p, u)
    BY <1>3
  <2>3. /\ Feeding(c, V, V \cup {p}, w)
        /\ \/ Sated(c, p, w)
           \/ ~Sated(c, p, u) /\ Cardinality(DOMAIN w.host[p].reserved)
                                   = Cardinality(DOMAIN u.host[p].reserved) + 1
    BY ONLY <1>0, <2>1, <2>2, TurnKeeps
  <2>4. Cardinality(DOMAIN u.host[p].reserved) \in Nat
    BY <1>4, <2>1
  <2>5. Sated(c, p, w) \/ Cardinality(DOMAIN w.host[p].reserved) >= k
    <3>1. CASE Sated(c, p, w)
      BY <3>1
    <3>2. CASE ~Sated(c, p, w)
      <4> PICK x : x = Cardinality(DOMAIN u.host[p].reserved)
        OBVIOUS
      <4> PICK y : y = Cardinality(DOMAIN w.host[p].reserved)
        OBVIOUS
      <4>1. y = x + 1 /\ x \in Nat /\ x >= k - 1 /\ k \in Nat
        BY <1>2, <2>1, <2>3, <2>4, <3>2
      <4>2. y >= k
        BY ONLY <4>1
      <4> QED
        BY <4>2
    <3> QED
      BY <3>1, <3>2
  <2>6. k \in 0 .. n
    BY <1>2
  <2> QED
    BY <2>3, <2>5, <2>6
<1>7. n \in Good
  <2> HIDE DEF Good
  <2>1. \A i \in 0 .. n : i \in Good
    BY <1>2, <1>5, <1>6, UpTo
  <2> QED
    BY <1>2, <2>1
<1> PICK w : w = FeedHost(c, p, r)
  OBVIOUS
<1>8. Feeding(c, V, V \cup {p}, w)
      /\ (Sated(c, p, w) \/ Cardinality(DOMAIN w.host[p].reserved) >= n)
  BY <1>3, <1>7
<1>9. Sated(c, p, w)
  BY <1>8 DEF Sated, IsFull
<1> QED
  BY <1>8, <1>9 DEF Feeding

(* So does a visit. *)
LEMMA VisitKeeps ==
  ASSUME NEW c, IsCall(c), NEW V, NEW p, ComesNext(c, V, p), NEW r, Feeding(c, V, V, r)
  PROVE  Feeding(c, V \cup {p}, V \cup {p}, Visit(c, p, r))
<1>1. p \in c.hosts /\ p \in Peer /\ Carried(c, r)
  BY CallTypes DEF ComesNext, Feeding
<1>2. Feeding(c, V, V \cup {p}, r)
  BY DEF Feeding
<1> DEFINE skipped == \/ Len(r.queue.pending) = 0
                      \/ /\ NeedsWarmup(c.host, c.hosts)
                         /\ c.host[p].warmed \/ DOMAIN r.host[p].reserved # {}
<1>3. CASE skipped
  <2>1. Visit(c, p, r) = r
    BY <1>3 DEF Visit
  <2>2. Sated(c, p, r)
    <3>1. CASE Len(r.queue.pending) = 0
      BY <3>1 DEF Sated, IsFull
    <3>2. CASE NeedsWarmup(c.host, c.hosts) /\ c.host[p].warmed
      BY <3>2 DEF Sated
    <3>3. CASE NeedsWarmup(c.host, c.hosts) /\ DOMAIN r.host[p].reserved # {}
      <4>1. /\ IsFiniteSet(DOMAIN r.host[p].reserved)
            /\ Cardinality(DOMAIN r.host[p].reserved) \in Nat
        BY <1>1, StockFacts DEF Stock
      <4>2. Cardinality(DOMAIN r.host[p].reserved) # 0
        BY <3>3, <4>1, FS_EmptySet
      <4>3. TargetDepth(c.host, c.hosts, p) = 1
        BY <3>3 DEF TargetDepth
      <4>4. Cardinality(DOMAIN r.host[p].reserved) >= TargetDepth(c.host, c.hosts, p)
        BY <4>1, <4>2, <4>3
      <4> QED
        BY <4>4 DEF Sated, IsFull
    <3> QED
      BY <1>3, <3>1, <3>2, <3>3
  <2> QED
    BY <1>2, <2>1, <2>2 DEF Feeding
<1>4. CASE ~skipped
  <2>1. Visit(c, p, r) = FeedHost(c, p, r)
    BY <1>4 DEF Visit
  <2>2. ~(NeedsWarmup(c.host, c.hosts) /\ c.host[p].warmed)
    BY <1>4
  <2> QED
    BY <1>2, <2>1, <2>2, FeedHostKeeps
<1> QED
  BY <1>3, <1>4

(* The state the loops start from. *)
LEMMA StartedIsFeeding ==
  ASSUME NEW c, IsCall(c)
  PROVE  Feeding(c, {}, {}, Started(c))
<1> PICK r : r = Started(c)
  OBVIOUS
<1>1. /\ r = [queue |-> r.queue, host |-> r.host, to |-> r.to, limit |-> r.limit]
      /\ r.queue = c.queue /\ r.host = c.host /\ r.to = [e \in {} |-> 0] /\ DOMAIN r.to = {}
      /\ r.limit \in [c.hosts -> Nat] /\ \A p \in c.hosts : r.limit[p] = 0
  BY DEF Started
<1>2. Cuts(c.queue, c.hosts, r.to)
  <2>1. r.to \in [{} -> c.hosts]
    BY <1>1
  <2> QED
    BY <1>1, <2>1 DEF Cuts
<1>3. HandOut(c.queue, r.to) = c.queue /\ Reserve(c.queue, c.host, c.hosts, r.to) = c.host
  BY <1>1, CallTypes, NothingHandedOut
<1>4. ASSUME NEW x \in c.hosts
      PROVE  /\ Cardinality(DOMAIN c.host[x].reserved)
                  = Cardinality(DOMAIN c.host[x].reserved) + Cardinality(GivenTo(r.to, x, DOMAIN r.to))
             /\ SlotsReserved(c.host, x)
                  = SlotsReserved(c.host, x) + SlotsTaken(c.host, c.hosts, r.to, x, DOMAIN r.to)
  <2>1. /\ c.host[x].reserved \in [DOMAIN c.host[x].reserved -> Nat]
        /\ DOMAIN c.host[x].reserved \subseteq 1 .. c.queue.nextBatchSeq
        /\ c.queue.nextBatchSeq \in Nat
    BY CallTypes DEF HostRecords, QueueTypeOK
  <2>2. IsFiniteSet(DOMAIN c.host[x].reserved)
    <3> PICK n : n = c.queue.nextBatchSeq
      OBVIOUS
    <3>0. n \in Nat /\ 1 \in Int /\ n \in Int
      BY <2>1
    <3>1. IsFiniteSet(1 .. n)
      BY ONLY <3>0, FS_Interval
    <3> QED
      BY <2>1, <3>1, FS_Subset
  <2>3. /\ Cardinality(DOMAIN c.host[x].reserved) \in Nat /\ SlotsReserved(c.host, x) \in Nat
    BY <2>1, <2>2, SlotsFinite, FS_CardinalityType DEF SlotsReserved
  <2>4. Cardinality(GivenTo(r.to, x, DOMAIN r.to)) = 0
    <3>1. GivenTo(r.to, x, DOMAIN r.to) = {}
      BY <1>1 DEF GivenTo
    <3> QED
      BY <3>1, FS_EmptySet
  <2>5. SlotsTaken(c.host, c.hosts, r.to, x, DOMAIN r.to) = 0
    <3> DEFINE t == [e \in {e \in DOMAIN r.to : r.to[e] = x} |->
                       ReservationFor(x, TargetDepth(c.host, c.hosts, x), SizeOf(r.to, e))]
    <3>1. DOMAIN t = {}
      BY <1>1
    <3>2. SlotsTaken(c.host, c.hosts, r.to, x, DOMAIN r.to) = Cardinality(SlotsOf(t))
      BY DEF SlotsTaken
    <3> HIDE DEF t
    <3>3. SlotsOf(t) = {}
      BY <3>1, SlotsMember
    <3> QED
      BY <3>2, <3>3, FS_EmptySet
  <2> QED
    BY <2>3, <2>4, <2>5
<1>5. Carried(c, r)
  BY <1>1, <1>2, <1>3, <1>4, CallTypes DEF Carried
<1>6. Served(c, r) /\ HeldBack(c, r)
  BY <1>1 DEF Served, HeldBack
<1> QED
  BY <1>1, <1>5, <1>6 DEF Feeding

(* The hosts in name order: all of them, and each after those of lower     *)
(* rank.                                                                   *)
LEMMA NameOrder ==
  ASSUME NEW hosts \in SUBSET Peer, IsFiniteSet(hosts), NEW order, order = InNameOrder(hosts)
  PROVE  /\ Len(order) \in Nat
         /\ \A i \in 1 .. Len(order) : order[i] \in hosts
         /\ \A x \in hosts : \E i \in 1 .. Len(order) : x = order[i]
         /\ \A i, j \in 1 .. Len(order) : i < j => Rank[order[i]] < Rank[order[j]]
<1> DEFINE less == {pr \in hosts \X hosts : Rank[pr[1]] < Rank[pr[2]]}
<1>1. \A x \in hosts : Rank[x] \in Nat
  BY PumpAssumption
<1>2. \A x, y \in hosts : Rank[x] = Rank[y] => x = y
  BY PumpAssumption DEF IsInjective
<1>3. \A x, y : <<x, y>> \in less <=> x \in hosts /\ y \in hosts /\ Rank[x] < Rank[y]
  OBVIOUS
<1> HIDE DEF less
<1>4. StrictTotal(hosts, less)
  <2>1. \A x \in hosts : <<x, x>> \notin less
    BY <1>1, <1>3
  <2>2. \A x, y \in hosts : x # y => <<x, y>> \in less \/ <<y, x>> \in less
    BY <1>1, <1>2, <1>3
  <2>3. \A x, y, z \in hosts : <<x, y>> \in less /\ <<y, z>> \in less => <<x, z>> \in less
    BY <1>1, <1>3
  <2> QED
    BY <2>1, <2>2, <2>3 DEF StrictTotal
<1>5. order = Listing(hosts, less)
  BY DEF InNameOrder, less
<1>6. /\ order \in Seq(hosts) /\ Range(order) = hosts
      /\ \A i, j \in DOMAIN order : i < j => <<order[i], order[j]>> \in less
  BY <1>4, <1>5, ListingProperties
<1>7. DOMAIN order = 1 .. Len(order) /\ Len(order) \in Nat
  BY <1>6, LenProperties
<1> QED
  BY <1>3, <1>6, <1>7, ElementOfSeq DEF Range

(* The loops end with every host visited. *)
LEMMA PumpFeedsAll ==
  ASSUME NEW c, IsCall(c)
  PROVE  Feeding(c, c.hosts, c.hosts, PumpDispatch(c))
<1> PICK order : order = InNameOrder(c.hosts)
  OBVIOUS
<1> PICK n : n = Len(order)
  OBVIOUS
<1>1. /\ n \in Nat
      /\ \A i \in 1 .. n : order[i] \in c.hosts
      /\ \A x \in c.hosts : \E i \in 1 .. n : x = order[i]
      /\ \A i, j \in 1 .. n : i < j => Rank[order[i]] < Rank[order[j]]
  BY CallTypes, NameOrder
<1>0. order = InNameOrder(c.hosts) /\ n = Len(order) /\ n \in Nat
  BY <1>1
<1>2. PICK after : /\ after[0] = Started(c) /\ after[n] = PumpDispatch(c)
                   /\ \A k \in 1 .. n : after[k] = Visit(c, order[k], after[k - 1])
  BY ONLY <1>0, VisitSteps
<1> DEFINE visited(k) == {order[i] : i \in 1 .. k}
           Good == {k \in 0 .. n : Feeding(c, visited(k), visited(k), after[k])}
<1>3. 0 \in Good
  <2>1. visited(0) = {}
    OBVIOUS
  <2>2. Feeding(c, {}, {}, after[0])
    BY <1>2, StartedIsFeeding
  <2>3. 0 \in 0 .. n
    BY <1>1
  <2> HIDE DEF visited
  <2> QED
    BY <2>1, <2>2, <2>3
<1>4. ASSUME NEW k \in 1 .. n, k - 1 \in Good PROVE k \in Good
  <2> PICK p : p = order[k]
    OBVIOUS
  <2>0. k \in Nat /\ k <= n /\ 1 <= k
    BY <1>1
  <2>1. visited(k) = visited(k - 1) \cup {p}
    <3>1. \A i : i \in 1 .. k <=> i \in 1 .. k - 1 \/ i = k
      BY ONLY <2>0
    <3> QED
      BY <3>1
  <2>2. ComesNext(c, visited(k - 1), p)
    <3>0. \A i : i \in 1 .. k - 1 <=> i \in 1 .. n /\ i < k
      BY ONLY <1>1, <2>0
    <3>00. \A i \in 1 .. n : i < k \/ i = k \/ k < i
      BY ONLY <1>1, <2>0
    <3>1. p \in c.hosts /\ visited(k - 1) \subseteq c.hosts
      <4>1. p \in c.hosts
        BY <1>1
      <4>2. \A i \in 1 .. k - 1 : order[i] \in c.hosts
        BY <1>1, <3>0
      <4> QED
        BY <4>1, <4>2
    <3>2. \A x \in visited(k - 1) : Rank[x] < Rank[p]
      BY <1>1, <3>0
    <3>3. \A x \in Peer : Rank[x] \in Nat
      BY PumpAssumption
    <3>4. p \notin visited(k - 1)
      <4>1. ~(Rank[p] < Rank[p])
        BY <3>1, <3>3, CallTypes
      <4> QED
        BY <3>2, <4>1
    <3>5. ASSUME NEW x \in c.hosts, Rank[x] < Rank[p] PROVE x \in visited(k - 1)
      <4>1. PICK i \in 1 .. n : x = order[i]
        BY <1>1
      <4>2. Rank[x] \in Nat /\ Rank[p] \in Nat
        BY <3>1, <3>3, CallTypes
      <4>3. i # k /\ ~(k < i)
        <5>1. ~(Rank[p] < Rank[x]) /\ Rank[x] # Rank[p]
          BY <3>5, <4>2
        <5> QED
          BY <1>1, <4>1, <5>1
      <4> QED
        BY <3>0, <3>00, <4>1, <4>3
    <3> HIDE DEF visited
    <3> QED
      BY <3>1, <3>2, <3>4, <3>5 DEF ComesNext
  <2>3. Feeding(c, visited(k - 1), visited(k - 1), after[k - 1])
    BY <1>4
  <2> HIDE DEF visited
  <2>4. after[k] = Visit(c, p, after[k - 1])
    BY <1>2
  <2>5. Feeding(c, visited(k), visited(k), after[k])
    BY <2>1, <2>2, <2>3, <2>4, VisitKeeps
  <2>6. k \in 0 .. n
    BY ONLY <1>1, <2>0
  <2> QED
    BY <2>5, <2>6
<1>5. n \in Good
  <2> HIDE DEF Good
  <2>1. \A i \in 0 .. n : i \in Good
    BY <1>1, <1>3, <1>4, UpTo
  <2> QED
    BY <1>1, <2>1
<1>6. visited(n) = c.hosts
  BY <1>1
<1> HIDE DEF visited
<1> QED
  BY <1>2, <1>5, <1>6

(* The first host by name, when no host before it is in the set. *)
LEMMA FirstIs ==
  ASSUME NEW S \in SUBSET Peer, NEW p \in S, \A x \in S : ~(Rank[x] < Rank[p])
  PROVE  FirstByName(S) = p
<1>1. \A x, y \in Peer : Rank[x] \in Nat /\ (Rank[x] = Rank[y] => x = y)
  BY PumpAssumption DEF IsInjective
<1>2. \A x \in S : Rank[p] <= Rank[x]
  BY <1>1
<1>3. FirstByName(S) \in S /\ \A x \in S : Rank[FirstByName(S)] <= Rank[x]
  BY <1>2, Zenon DEF FirstByName
<1> PICK f : f = FirstByName(S)
  OBVIOUS
<1>4. f \in S /\ Rank[f] <= Rank[p] /\ Rank[p] <= Rank[f] /\ Rank[f] \in Nat /\ Rank[p] \in Nat
  BY <1>1, <1>2, <1>3
<1>5. Rank[f] = Rank[p]
  BY ONLY <1>4
<1> QED
  BY <1>1, <1>4, <1>5

(* What the loops hand out is a handout of module DispatchPump. *)
LoopIsHandout(c) ==
  LET r == PumpDispatch(c)
  IN  /\ r.limit \in Limits(c.host, c.hosts)
      /\ IsHandout(c.queue, c.host, c.hosts, r.limit, r.to)
      /\ r.queue = HandOut(c.queue, r.to)
      /\ r.host = Reserve(c.queue, c.host, c.hosts, r.to)

LEMMA LoopHandsOut ==
  ASSUME NEW c, IsCall(c)
  PROVE  LoopIsHandout(c)
<1> PICK r : r = PumpDispatch(c)
  OBVIOUS
<1> PICK E : E = DOMAIN r.to
  OBVIOUS
<1>1. /\ Carried(c, r) /\ Served(c, r) /\ HeldBack(c, r)
      /\ \A x \in c.hosts : Sated(c, x, r)
      /\ \A e \in E : r.to[e] \in c.hosts
  <2>1. Feeding(c, c.hosts, c.hosts, r)
    BY PumpFeedsAll
  <2> QED
    BY <2>1 DEF Feeding
<1>2. r.limit \in Limits(c.host, c.hosts)
  <2>1. r.limit \in [c.hosts -> {0} \cup TailStart .. TailBudget]
    BY <1>1 DEF Carried, HeldBack
  <2>2. NeedsWarmup(c.host, c.hosts) => \A p \in c.hosts : r.limit[p] = 0
    BY <1>1 DEF HeldBack, Slow
  <2>3. c.hosts # {} => \E p \in c.hosts : r.limit[p] = 0
    BY <1>1, SomeHostIsFast DEF HeldBack
  <2> QED
    BY <2>1, <2>2, <2>3 DEF Limits
<1> DEFINE hungry(D) == Hungry(c.queue, c.host, c.hosts, r.limit, r.to, D)
<1>3. ASSUME NEW e \in E
      PROVE  /\ r.to[e] \in hungry(BeforeIn(r.to, e))
             /\ r.to[e] = FirstByName(hungry(BeforeIn(r.to, e)))
             /\ SizeOf(r.to, e) \in BatchSizes(Left(c.queue, BeforeIn(r.to, e)))
  <2> PICK p : p = r.to[e]
    OBVIOUS
  <2> PICK B : B = BeforeIn(r.to, e)
    OBVIOUS
  <2>1. /\ HasRoom(c.host, c.hosts, r.to, B, p)
        /\ Left(c.queue, B) > r.limit[p]
        /\ SizeOf(r.to, e) \in BatchSizes(Left(c.queue, B))
        /\ \A x \in c.hosts : Rank[x] < Rank[p] => x \notin hungry(B)
    BY <1>1 DEF Served
  <2>2. p \in hungry(B) /\ hungry(B) \subseteq c.hosts
    BY <1>1, <2>1 DEF Hungry
  <2> HIDE DEF hungry
  <2>3. hungry(B) \in SUBSET Peer
    BY <2>2, CallTypes
  <2>4. \A x \in hungry(B) : ~(Rank[x] < Rank[p])
    BY <2>1, <2>2
  <2>5. FirstByName(hungry(B)) = p
    BY <2>2, <2>3, <2>4, FirstIs
  <2> QED
    BY <2>1, <2>2, <2>5
<1>4. hungry(E) = {}
  <2>1. \A x \in c.hosts : x \notin hungry(E)
    BY <1>1, SatedIsNotHungry
  <2> QED
    BY <2>1 DEF Hungry
<1>5. IsHandout(c.queue, c.host, c.hosts, r.limit, r.to)
  BY <1>3, <1>4 DEF IsHandout, BeforeIn
<1>6. /\ r.queue = HandOut(c.queue, r.to)
      /\ r.host = Reserve(c.queue, c.host, c.hosts, r.to)
  BY <1>1 DEF Carried
<1> QED
  BY <1>2, <1>5, <1>6 DEF LoopIsHandout

(* After a pump there is a state to pump from. *)
LEMMA PumpedIsCall ==
  ASSUME NEW c, IsCall(c)
  PROVE  IsCall(Pumped(c))
<1> PICK r : r = PumpDispatch(c)
  OBVIOUS
<1> PICK d : d = Pumped(c)
  OBVIOUS
<1>1. /\ d = [queue |-> d.queue, host |-> d.host, hosts |-> d.hosts,
              mean |-> d.mean, trials |-> d.trials]
      /\ d.queue = r.queue /\ d.host = r.host /\ d.hosts = c.hosts
      /\ d.mean = c.mean /\ d.trials = c.trials
  <2>1. c = [queue |-> c.queue, host |-> c.host, hosts |-> c.hosts,
             mean |-> c.mean, trials |-> c.trials]
    BY DEF IsCall
  <2> QED
    BY <2>1 DEF Pumped
<1>2. Carried(c, r)
  BY PumpFeedsAll DEF Feeding
<1>3. QueueTypeOK(r.queue) /\ IsInjective(r.queue.pending)
  <2>1. /\ QueueTypeOK(c.queue) /\ IsInjective(c.queue.pending) /\ c.hosts \in SUBSET Peer
        /\ Cuts(c.queue, c.hosts, r.to) /\ r.queue = HandOut(c.queue, r.to)
    BY <1>2, CallTypes DEF Carried
  <2>2. HandedOut(c.queue, HandOut(c.queue, r.to), r.to)
    BY ONLY <2>1, HandOutFields
  <2> QED
    BY <2>1, <2>2 DEF HandedOut
<1>4. /\ HostRecords(r.host)
      /\ \A p \in Peer : DOMAIN r.host[p].reserved \subseteq 1 .. r.queue.nextBatchSeq
  BY <1>2 DEF Carried
<1>5. /\ c.hosts \in SUBSET Peer /\ IsFiniteSet(c.hosts)
      /\ c.mean \in [Peer -> Nat] /\ c.trials \in Nat \ {0}
  BY DEF IsCall
<1> QED
  BY <1>1, <1>3, <1>4, <1>5 DEF IsCall, HostRecords
-----------------------------------------------------------------------------
(* A second pump.  Quiet: nothing has been handed out, queue and records   *)
(* are as the first pump left them.                                        *)
Quiet(c, r) ==
  /\ r = [queue |-> r.queue, host |-> r.host, to |-> r.to, limit |-> r.limit]
  /\ r.queue = c.queue /\ r.host = c.host /\ DOMAIN r.to = {}

LEMMA SecondVisitIsQuiet ==
  ASSUME NEW c, IsCall(c), NEW d, d = Pumped(c), NEW p \in c.hosts, NEW r, Quiet(d, r)
  PROVE  Quiet(d, Visit(d, p, r))
<1> PICK s : s = PumpDispatch(c)
  OBVIOUS
<1>1. d.queue = s.queue /\ d.host = s.host /\ d.hosts = c.hosts /\ d.mean = c.mean /\ d.trials = c.trials
  <2>1. c = [queue |-> c.queue, host |-> c.host, hosts |-> c.hosts,
             mean |-> c.mean, trials |-> c.trials]
    BY DEF IsCall
  <2> QED
    BY <2>1 DEF Pumped
<1>2. Carried(c, s) /\ HeldBack(c, s) /\ Sated(c, p, s) /\ c.hosts \in SUBSET Peer
  BY PumpFeedsAll, CallTypes DEF Feeding
<1>3. \A x \in c.hosts : d.host[x].warmed = c.host[x].warmed
  BY <1>1, <1>2 DEF Carried
<1>4. /\ NeedsWarmup(d.host, d.hosts) <=> NeedsWarmup(c.host, c.hosts)
      /\ TargetDepth(d.host, d.hosts, p) = TargetDepth(c.host, c.hosts, p)
  <2>1. NeedsWarmup(d.host, d.hosts) <=> NeedsWarmup(c.host, c.hosts)
    BY <1>1, <1>3 DEF NeedsWarmup
  <2> QED
    BY <2>1 DEF TargetDepth
<1>5. \A left, free : IsThrottled(d, p, left, free) <=> IsThrottled(c, p, left, free)
  <2>1. FastestMeasuredMsPerPolicy(d) = FastestMeasuredMsPerPolicy(c)
    BY <1>1, <1>4 DEF FastestMeasuredMsPerPolicy
  <2>2. \A left, free : PlannedSize(d, p, left, free) = PlannedSize(c, p, left, free)
    BY <1>1, <1>3, <1>4 DEF PlannedSize
  <2> QED
    BY <1>1, <1>4, <2>1, <2>2 DEF IsThrottled
<1>6. ASSUME NEW u, Quiet(d, u), ~(NeedsWarmup(c.host, c.hosts) /\ c.host[p].warmed)
      PROVE  Quiet(d, FeedOnce(d, p, u))
  <2>1. u.queue = s.queue /\ u.host = s.host
    BY <1>1, <1>6 DEF Quiet
  <2>2. CASE IsFull(d, p, u)
    <3>1. FeedOnce(d, p, u) = u
      BY <2>2 DEF FeedOnce
    <3> QED
      BY <1>6, <3>1
  <2>3. CASE ~IsFull(d, p, u)
    <3>1. ~IsFull(c, p, s)
      BY <1>4, <2>1, <2>3 DEF IsFull, FreeSlots, SlotsReserved
    <3>2. s.limit[p] # 0
      BY <1>2, <1>6, <3>1 DEF Sated
    <3>3. IsThrottled(c, p, Len(s.queue.pending), FreeSlots(s.host, p))
      BY <1>2, <3>2 DEF HeldBack
    <3>4. IsThrottled(d, p, Len(u.queue.pending), FreeSlots(u.host, p))
      BY <1>5, <2>1, <3>3
    <3>5. FeedOnce(d, p, u)
            = [u EXCEPT !.limit[p] = Max({Len(u.queue.pending), TAIL_STEAL_THRESHOLD})]
      BY <2>3, <3>4 DEF FeedOnce
    <3> QED
      BY <1>6, <3>5 DEF Quiet
  <2> QED
    BY <2>2, <2>3
<1>7. CASE Visit(d, p, r) = r
  BY <1>7
<1>8. CASE Visit(d, p, r) # r
  <2>1. Visit(d, p, r) = FeedHost(d, p, r) /\ ~(NeedsWarmup(c.host, c.hosts) /\ c.host[p].warmed)
    BY <1>1, <1>3, <1>4, <1>8 DEF Visit
  <2> PICK n : n = TargetDepth(d.host, d.hosts, p)
    OBVIOUS
  <2>2. n \in Nat
    BY <1>2, <1>4, StockFacts DEF Stock
  <2>3. PICK turn : /\ turn[0] = r /\ turn[n] = FeedHost(d, p, r)
                    /\ \A k \in 1 .. n : turn[k] = FeedOnce(d, p, turn[k - 1])
    BY <2>2, TurnSteps
  <2> DEFINE Good == {k \in 0 .. n : Quiet(d, turn[k])}
  <2>4. 0 \in Good
    BY <2>2, <2>3
  <2>5. ASSUME NEW k \in 1 .. n, k - 1 \in Good PROVE k \in Good
    <3>1. Quiet(d, turn[k - 1]) /\ k \in 0 .. n
      BY <2>2, <2>5
    <3>2. Quiet(d, FeedOnce(d, p, turn[k - 1]))
      BY <1>6, <2>1, <3>1
    <3> QED
      BY <2>3, <3>1, <3>2
  <2>6. n \in Good
    <3> HIDE DEF Good
    <3>1. \A i \in 0 .. n : i \in Good
      BY <2>2, <2>4, <2>5, UpTo
    <3> QED
      BY <2>2, <3>1
  <2> QED
    BY <2>1, <2>3, <2>6
<1> QED
  BY <1>7, <1>8

LEMMA SecondPumpIsQuiet ==
  ASSUME NEW c, IsCall(c)
  PROVE  DOMAIN PumpDispatch(Pumped(c)).to = {}
<1> PICK d : d = Pumped(c)
  OBVIOUS
<1> PICK order : order = InNameOrder(d.hosts)
  OBVIOUS
<1> PICK n : n = Len(order)
  OBVIOUS
<1>1. d.hosts = c.hosts
  <2>1. c = [queue |-> c.queue, host |-> c.host, hosts |-> c.hosts,
             mean |-> c.mean, trials |-> c.trials]
    BY DEF IsCall
  <2> QED
    BY <2>1 DEF Pumped
<1>2. n \in Nat /\ \A i \in 1 .. n : order[i] \in c.hosts
  BY <1>1, CallTypes, NameOrder
<1>3. PICK after : /\ after[0] = Started(d) /\ after[n] = PumpDispatch(d)
                   /\ \A k \in 1 .. n : after[k] = Visit(d, order[k], after[k - 1])
  BY <1>2, VisitSteps
<1> DEFINE Good == {k \in 0 .. n : Quiet(d, after[k])}
<1>4. 0 \in Good
  <2>1. Quiet(d, Started(d))
    BY DEF Quiet, Started
  <2> QED
    BY <1>2, <1>3, <2>1
<1>5. ASSUME NEW k \in 1 .. n, k - 1 \in Good PROVE k \in Good
  <2>1. Quiet(d, after[k - 1]) /\ k \in 0 .. n
    BY <1>2, <1>5
  <2>2. order[k] \in c.hosts
    BY <1>2
  <2>3. Quiet(d, Visit(d, order[k], after[k - 1]))
    BY <2>1, <2>2, SecondVisitIsQuiet
  <2> QED
    BY <1>3, <2>1, <2>3
<1>6. n \in Good
  <2> HIDE DEF Good
  <2>1. \A i \in 0 .. n : i \in Good
    BY <1>2, <1>4, <1>5, UpTo
  <2> QED
    BY <1>2, <2>1
<1> QED
  BY <1>3, <1>6 DEF Quiet
(* So the loops' handout is one of those a pump can make.                  *)
LEMMA LoopIsAmongHandouts ==
  ASSUME NEW c, IsCall(c)
  PROVE  LET r == PumpDispatch(c)
         IN  /\ r.to \in Handouts(c.queue, c.host, c.hosts)
             /\ r.queue = HandOut(c.queue, r.to)
             /\ r.host = Reserve(c.queue, c.host, c.hosts, r.to)
<1> PICK r : r = PumpDispatch(c)
  OBVIOUS
<1>1. /\ r.limit \in Limits(c.host, c.hosts)
      /\ IsHandout(c.queue, c.host, c.hosts, r.limit, r.to)
      /\ r.queue = HandOut(c.queue, r.to)
      /\ r.host = Reserve(c.queue, c.host, c.hosts, r.to)
  BY LoopHandsOut DEF LoopIsHandout
<1> PICK E : E = DOMAIN r.to
  OBVIOUS
<1>2. E \in SUBSET (1 .. Len(c.queue.pending)) /\ r.to \in [E -> c.hosts]
  <2>1. Feeding(c, c.hosts, c.hosts, r)
    BY PumpFeedsAll
  <2> QED
    BY <2>1 DEF Feeding, Carried, Cuts
<1>3. r.to \in UNION {[D -> c.hosts] : D \in SUBSET (1 .. Len(c.queue.pending))}
  BY <1>2
<1>4. r.to \in Handouts(c.queue, c.host, c.hosts)
  BY <1>1, <1>3 DEF Handouts
<1> QED
  BY <1>1, <1>4
-----------------------------------------------------------------------------
(* What a pump is called with stays what a pump can be called with. *)
LEMMA PumpCallsStay == PumpSpec => []IsCall(call)
<1>1. PumpInit => IsCall(call)
  BY PumpLoopAssumption DEF PumpInit
<1>2. IsCall(call) /\ [PumpNext]_call => IsCall(call)'
  BY PumpedIsCall DEF PumpNext
<1> QED
  BY <1>1, <1>2, PTL DEF PumpSpec

(* pumpDispatch's loops hand out what the dispatcher's actions may, for    *)
(* any queue, hosts, measurements and trials.                              *)
THEOREM LoopsMatchHandouts == PumpSpec => []PumpMatchesLoop
<1>1. IsCall(call) => PumpMatchesLoop
  BY LoopHandsOut DEF PumpMatchesLoop, LoopIsHandout
<1> QED
  BY <1>1, PumpCallsStay, PTL

(* "Calling it more than necessary is harmless": a second pump hands out   *)
(* nothing.                                                                *)
THEOREM PumpingTwiceIsPumpingOnce == PumpSpec => PumpIsIdempotent
<1>1. IsCall(call) /\ PumpNext => DOMAIN PumpDispatch(call').to = {}
  BY SecondPumpIsQuiet DEF PumpNext
<1>2. IsCall(call) /\ [PumpNext]_call => [DOMAIN PumpDispatch(call').to = {}]_call
  BY <1>1
<1> QED
  BY <1>2, PumpCallsStay, PTL DEF PumpSpec, PumpIsIdempotent
-----------------------------------------------------------------------------
(* The loops in the dispatcher: what the handlers pump is what a pump can  *)
(* be called with, so the loops make a step the handlers' Pump allows.     *)

PumpCall(s, h, live, mean, trials) ==
  [queue |-> s.queue, host |-> h, hosts |-> Dispatchable(h, live),
   mean |-> mean, trials |-> trials]

(* Pump with the loops in place of a handout that is free.                 *)
LoopPump(s, h, m, c, live, mean, trials) ==
  \E s1 \in {IF StageDone(s) THEN FineSession(s) ELSE s},
     h1 \in {IF StageDone(s) THEN Unmeasured(h, live) ELSE h} :
    IF IsComplete(s1.queue)
    THEN /\ EndSession(s1, h1, c, "completed", live)
         /\ owed' = m
    ELSE LET r == PumpDispatch(PumpCall(s1, h1, live, mean, trials))
         IN  /\ session' = [s1 EXCEPT !.queue = r.queue]
             /\ host' = r.host
             /\ corpus' = c
             /\ owed' = m \cup {Assignment(s1, r.queue, b) : b \in NewBatches(s1.queue, r.to)}

LEMMA ReadyIsCall ==
  ASSUME NEW s, NEW h, NEW m, NEW c, NEW live, NEW next, Ready(s, h, m, c, live, next),
         IsFiniteSet(live), NEW mean \in [Peer -> Nat], NEW trials \in Nat \ {0}
  PROVE  IsCall(PumpCall(s, h, live, mean, trials))
<1> PICK q : q = s.queue
  OBVIOUS
<1>1. /\ live \in SUBSET Peer /\ HostsOK(h, live) /\ BooksAgree(q, h, live)
      /\ QueueTypeOK(q) /\ IsInjective(q.pending)
  BY DEF Ready, SessionOK, QueueInv, OnePlaceEach
<1>2. Dispatchable(h, live) \subseteq live
  BY DEF Dispatchable
<1>3. Dispatchable(h, live) \in SUBSET Peer /\ IsFiniteSet(Dispatchable(h, live))
  BY <1>1, <1>2, FS_Subset
<1>4. ASSUME NEW p \in Peer
      PROVE  /\ h[p] \in [ reserved : [DOMAIN h[p].reserved -> Nat],
                           warmed : BOOLEAN, incomplete : Nat, cooling : BOOLEAN ]
             /\ DOMAIN h[p].reserved \subseteq 1 .. q.nextBatchSeq
  <2>1. HostRecord(p, h[p])
    BY <1>1 DEF HostsOK
  <2>2. h[p].reserved \in [DOMAIN h[p].reserved -> Nat]
    BY <2>1 DEF HostRecord
  <2>3. h[p] \in [ reserved : {h[p].reserved}, warmed : BOOLEAN, cooling : BOOLEAN,
                   incomplete : 0 .. INCOMPLETE_RESULT_QUARANTINE_THRESHOLD ]
    BY <2>1 DEF HostRecord, RecordType
  <2>4. 0 .. INCOMPLETE_RESULT_QUARANTINE_THRESHOLD \subseteq Nat
    BY DispatcherAssumption
  <2>5. DOMAIN h[p].reserved \subseteq 1 .. q.nextBatchSeq
    <3>1. CASE p \in live
      BY <1>1, <3>1 DEF BooksAgree, BatchesOf, QueueTypeOK
    <3>2. CASE p \notin live
      BY <1>1, <3>2 DEF HostsOK, FreshHost, NoSlots
    <3> QED
      BY <3>1, <3>2
  <2> QED
    BY <2>2, <2>3, <2>4, <2>5
<1>5. h = [p \in Peer |-> h[p]]
  BY <1>1 DEF HostsOK
<1> DEFINE k == PumpCall(s, h, live, mean, trials)
<1>6. /\ k = [queue |-> k.queue, host |-> k.host, hosts |-> k.hosts,
              mean |-> k.mean, trials |-> k.trials]
      /\ k.queue = q /\ k.host = h /\ k.hosts = Dispatchable(h, live)
      /\ k.mean = mean /\ k.trials = trials
  BY DEF PumpCall
<1> HIDE DEF k
<1> QED
  BY <1>1, <1>3, <1>4, <1>5, <1>6 DEF IsCall, k

(* pumpDispatch as the code writes it is a pump of module Dispatcher,      *)
(* whatever the hosts measured, through a change of stage as well.         *)
THEOREM LoopsPump ==
  ASSUME NEW s, NEW h, NEW m, NEW c, NEW live, NEW next, Ready(s, h, m, c, live, next),
         IsFiniteSet(live), NEW mean \in [Peer -> Nat], NEW trials \in Nat \ {0},
         LoopPump(s, h, m, c, live, mean, trials)
  PROVE  Pump(s, h, m, c, live)
<1> DEFINE t == IF StageDone(s) THEN FineSession(s) ELSE s
           g == IF StageDone(s) THEN Unmeasured(h, live) ELSE h
<1>1. Ready(t, g, m, c, live, next)
  <2>1. CASE StageDone(s)
    BY <2>1, FineKeepsReady
  <2>2. CASE ~StageDone(s)
    BY <2>2
  <2> QED
    BY <2>1, <2>2
<1>2. IF IsComplete(t.queue)
      THEN EndSession(t, g, c, "completed", live) /\ owed' = m
      ELSE LET r == PumpDispatch(PumpCall(t, g, live, mean, trials))
           IN  /\ session' = [t EXCEPT !.queue = r.queue]
               /\ host' = r.host
               /\ corpus' = c
               /\ owed' = m \cup {Assignment(t, r.queue, b) : b \in NewBatches(t.queue, r.to)}
  BY DEF LoopPump
<1>3. SUFFICES IF IsComplete(t.queue)
               THEN EndSession(t, g, c, "completed", live) /\ owed' = m
               ELSE \E to \in Handouts(t.queue, g, Dispatchable(g, live)) :
                      LET q == HandOut(t.queue, to)
                      IN  /\ session' = [t EXCEPT !.queue = q]
                          /\ host' = Reserve(t.queue, g, Dispatchable(g, live), to)
                          /\ corpus' = c
                          /\ owed' = m \cup {Assignment(t, q, b) : b \in NewBatches(t.queue, to)}
  BY DEF Pump
<1> HIDE DEF t, g
<1>4. CASE ~IsComplete(t.queue)
  <2> PICK k : k = PumpCall(t, g, live, mean, trials)
    OBVIOUS
  <2> PICK r : r = PumpDispatch(k)
    OBVIOUS
  <2>1. IsCall(k) /\ k.queue = t.queue /\ k.host = g /\ k.hosts = Dispatchable(g, live)
    BY <1>1, ReadyIsCall DEF PumpCall
  <2>2. r.to \in Handouts(k.queue, k.host, k.hosts)
        /\ r.queue = HandOut(k.queue, r.to)
        /\ r.host = Reserve(k.queue, k.host, k.hosts, r.to)
    BY <2>1, LoopIsAmongHandouts
  <2>3. /\ session' = [t EXCEPT !.queue = r.queue]
        /\ host' = r.host
        /\ corpus' = c
        /\ owed' = m \cup {Assignment(t, r.queue, b) : b \in NewBatches(t.queue, r.to)}
    BY <1>2, <1>4
  <2> QED
    BY <1>4, <2>1, <2>2, <2>3
<1> QED
  BY <1>2, <1>4

(* Between two handlers, the pump of the failsafe interval: its loops feed *)
(* the session as the dispatcher's actions may, for any measurements.      *)
LoopsFeedSession ==
  session # NoSession =>
    \A mean \in [Peer -> Nat], trials \in Nat \ {0} :
      LET k == PumpCall(session, host, Live, mean, trials)
          r == PumpDispatch(k)
      IN  /\ r.to \in Handouts(session.queue, host, Dispatchable(host, Live))
          /\ r.queue = HandOut(session.queue, r.to)
          /\ r.host = Reserve(session.queue, host, Dispatchable(host, Live), r.to)

(* In every reachable state of the dispatcher the loops of pumpDispatch    *)
(* feed the active session as a pump of the model may.                     *)
THEOREM LoopsFeedEverySession ==
  ASSUME NoLateCoarse, IsFiniteSet(Peer) PROVE Spec => []LoopsFeedSession
<1>1. DInv => LoopsFeedSession
  <2> SUFFICES ASSUME DInv, session # NoSession,
                      NEW mean \in [Peer -> Nat], NEW trials \in Nat \ {0},
                      NEW k, k = PumpCall(session, host, Live, mean, trials)
               PROVE  LET r == PumpDispatch(k)
                      IN  /\ r.to \in Handouts(session.queue, host, Dispatchable(host, Live))
                          /\ r.queue = HandOut(session.queue, r.to)
                          /\ r.host = Reserve(session.queue, host, Dispatchable(host, Live), r.to)
    BY DEF LoopsFeedSession
  <2>1. Ready(session, host, owed, corpus, Live, nextSession)
    BY DEF DInv
  <2>2. IsFiniteSet(Live)
    BY FS_Subset DEF Live
  <2>3. IsCall(k)
    BY <2>1, <2>2, ReadyIsCall
  <2>4. k.queue = session.queue /\ k.host = host /\ k.hosts = Dispatchable(host, Live)
    BY DEF PumpCall
  <2> QED
    BY <2>3, <2>4, LoopIsAmongHandouts
<1> QED
  BY <1>1, DispatcherInvariant, PTL
=============================================================================
