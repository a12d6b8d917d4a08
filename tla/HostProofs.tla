----------------------------- MODULE HostProofs -----------------------------
(***************************************************************************)
(* Safety properties of module Host, for every number of workers, queue    *)
(* depth, set of batches and number of faults.                             *)
(***************************************************************************)
EXTENDS Host, CommonLemmas

(* The messages q posted to a worker find the sessions of their runs       *)
(* primed, and those the main thread believes primed are so in the end.    *)
InOrder(q, K, believed) ==
  /\ \A i \in 1 .. Len(q) : q[i].kind = "run" => PrimedAfter(q, K, i - 1, q[i].run.session)
  /\ \A s \in believed : PrimedAfter(q, K, Len(q), s)

InboxOK(q) ==
  /\ IsList(q)
  /\ \A i \in 1 .. Len(q) : q[i].kind \in {"prime", "unprime", "cancel", "run"}

Priming(h, k) ==
  \A w \in Slot : /\ InboxOK(h.inbox[w])
                  /\ k[w].alive => InOrder(h.inbox[w], k[w].primed, h.primedIds[w])

Shape(h) ==
  /\ h \in [ active : 0 .. MaxSessions, busy : [Slot -> BOOLEAN],
             primedIds : [Slot -> SUBSET (1 .. MaxSessions)],
             pending : {h.pending}, running : {h.running}, queue : {h.queue},
             inFlight : {h.inFlight}, inbox : {h.inbox}, answers : {h.answers} ]
  /\ h.inbox = [w \in Slot |-> h.inbox[w]]

(* Every run that is waited for belongs to a batch that is being run, and  *)
(* a batch waits for as many runs as slices have not come back.            *)
RunsOf(h, id) == {r \in h.pending : r.batch = id}
BatchOK(b, R) ==
  /\ b \in [parts : Nat, done : {b.done}]
  /\ IsFiniteSet(DOMAIN b.done) /\ DOMAIN b.done \subseteq 0 .. b.parts
  /\ R # {} /\ Cardinality(DOMAIN b.done) + Cardinality(R) = b.parts
  /\ \A r \in R : r.part \in (0 .. b.parts) \ DOMAIN b.done
Books(h) ==
  /\ IsFiniteSet(h.pending)
  /\ \A r \in h.pending : r = RunId(r.batch, r.part) /\ r.batch \in DOMAIN h.running
  /\ h.running = [id \in DOMAIN h.running |-> h.running[id]]
  /\ \A id \in DOMAIN h.running : BatchOK(h.running[id], RunsOf(h, id))

(* The places of a batch. *)
InQueue(h, id) == \E i \in 1 .. Len(h.queue) : h.queue[i].id = id
IsAnswered(h, id) == \E a \in h.answers : a.id = id
Places(h, id) ==
  /\ InQueue(h, id) => id \notin DOMAIN h.running /\ ~IsAnswered(h, id)
  /\ id \in DOMAIN h.running => ~IsAnswered(h, id)

(* The outstanding batches, but for those in X, are held here, in one      *)
(* place; what else is here is of sessions that ended.                     *)
Holds(h, d, u, X) ==
  /\ \A id \in DOMAIN d.outstanding \ X :
       /\ InQueue(h, id) \/ id \in DOMAIN h.running \/ IsAnswered(h, id)
       /\ Places(h, id)
  /\ \A id \in X : ~InQueue(h, id) /\ id \notin DOMAIN h.running /\ ~IsAnswered(h, id)
  /\ \A id \in DOMAIN h.running :
       /\ id[1] \in 1 .. u.sessions
       /\ id[1] = d.session => id \in DOMAIN d.outstanding
  /\ \A a \in h.answers :
       /\ a.kind \in {"result", "partial", "no_active_session", "host_no_free_slots"}
       /\ a.id[1] \in 1 .. u.sessions
       /\ a.id[1] = d.session => a.id \in DOMAIN d.outstanding
  /\ \A a, b \in h.answers : a.id = b.id /\ a.id[1] = d.session => a = b

(* The queue holds outstanding batches of the active session, each once.   *)
QueueOK(h, d) ==
  /\ IsList(h.queue) /\ Len(h.queue) <= MAX_QUEUE_DEPTH
  /\ h.queue # <<>> => h.active = d.session
  /\ \A i \in 1 .. Len(h.queue) :
       h.queue[i].id \in DOMAIN d.outstanding /\ h.queue[i] = d.outstanding[h.queue[i].id]
  /\ \A i, j \in 1 .. Len(h.queue) : h.queue[i].id = h.queue[j].id => i = j

HostOK(h, k, d, u, X) ==
  Shape(h) /\ Priming(h, k) /\ Books(h) /\ Holds(h, d, u, X) /\ QueueOK(h, d)

DispatchOK(d, u) ==
  /\ d \in [ session : 0 .. u.sessions, coarse : BOOLEAN, seq : 0 .. MaxSeq,
             outstanding : {d.outstanding} ]
  /\ d.outstanding = [id \in DOMAIN d.outstanding |-> d.outstanding[id]]
  /\ \A id \in DOMAIN d.outstanding :
       /\ d.session # 0 /\ id = <<d.session, id[2]>> /\ id[2] \in 1 .. d.seq
       /\ \E ps \in Batches : d.outstanding[id] = [id |-> id, policies |-> ps]

UsedOK(u) ==
  u \in [sessions : 0 .. MaxSessions, drops : Nat, renumberings : Nat, faults : Nat]

WorkersOK(k) ==
  /\ k = [w \in Slot |-> k[w]]
  /\ \A w \in Slot : k[w] \in [ alive : BOOLEAN, primed : {k[w].primed},
                                cancelled : {k[w].cancelled}, runs : {k[w].runs} ]

(* Without a connection the host holds nothing.                            *)
LinkOK(l, h, d) ==
  \/ l = "up" /\ h.active = d.session
  \/ /\ l = "down" /\ h.active = 0 /\ h.queue = <<>>
     /\ h.running = Nothing /\ h.answers = {} /\ d.outstanding = Nothing

HInv ==
  /\ UsedOK(used) /\ DispatchOK(dispatch, used) /\ WorkersOK(worker)
  /\ LinkOK(link, main, dispatch)
  /\ HostOK(main, worker, dispatch, used, {})
-----------------------------------------------------------------------------
(* The slices of a batch. *)

(* Where slice i of ps cut in n begins, less one. *)
StartOf(ps, n, i) == (i - 1) * (Len(ps) \div n) + LesserOf(i - 1, Len(ps) % n)

LEMMA StartsGrow ==
  ASSUME NEW ps, Len(ps) \in Nat, NEW n \in Nat \ {0}
  PROVE  /\ StartOf(ps, n, 1) = 0 /\ StartOf(ps, n, n + 1) = Len(ps)
         /\ \A i \in 1 .. n + 1 : StartOf(ps, n, i) \in 0 .. Len(ps)
         /\ \A i \in 1 .. n : StartOf(ps, n, i) <= StartOf(ps, n, i + 1)
<1> DEFINE L == Len(ps)
           base == L \div n
           extra == L % n
           p(i) == i * base
<1>1. /\ base \in Nat /\ extra \in 0 .. n - 1 /\ n * base + extra = L
  <2>1. L \in Nat
    OBVIOUS
  <2> HIDE DEF L
  <2>2. L \div n \in Nat
    BY <2>1
  <2>3. L % n \in 0 .. n - 1
    BY <2>1
  <2>4. n * (L \div n) + (L % n) = L
    BY <2>1
  <2> QED
    BY <2>2, <2>3, <2>4
<1> HIDE DEF base, extra
<1>2. \A i \in Nat : p(i) \in Nat /\ p(i + 1) = p(i) + base
  BY <1>1
<1>3. p(0) = 0 /\ p(n) + extra = L
  BY <1>1
<1> DEFINE s(i) == p(i) + LesserOf(i, extra)
<1>4. \A i \in 0 .. n : StartOf(ps, n, i + 1) = s(i)
  BY DEF StartOf, base, extra, L
<1> HIDE DEF p, L
<1>5. ASSUME NEW i \in 0 .. n PROVE s(i) \in Nat
  <2>1. i \in Nat /\ extra \in Nat
    BY <1>1
  <2>2. p(i) \in Nat
    BY <1>2, <2>1
  <2> QED
    BY <2>1, <2>2 DEF LesserOf
<1>6. ASSUME NEW i \in 0 .. n - 1 PROVE s(i) <= s(i + 1)
  <2>1. i \in Nat /\ extra \in Nat /\ base \in Nat
    BY <1>1
  <2>2. p(i) \in Nat /\ p(i + 1) = p(i) + base
    BY <1>2, <2>1
  <2> QED
    BY <2>1, <2>2 DEF LesserOf
<1>7. s(0) = 0 /\ s(n) = L
  BY <1>1, <1>3 DEF LesserOf
<1> HIDE DEF s
<1> DEFINE Low == {j \in 0 .. n : s(n - j) <= L}
<1>8. \A i \in 0 .. n : s(i) <= L
  <2>1. 0 \in Low
    BY <1>5, <1>7
  <2>2. ASSUME NEW j \in 1 .. n, j - 1 \in Low PROVE j \in Low
    <3>1. n - j \in 0 .. n - 1 /\ n - (j - 1) = (n - j) + 1 /\ n - j \in 0 .. n
      OBVIOUS
    <3>2. s(n - j) <= s((n - j) + 1)
      BY <1>6, <3>1
    <3>3. s(n - j) \in Nat /\ s((n - j) + 1) \in Nat /\ s(n - (j - 1)) <= L /\ L \in Nat
      BY <1>5, <2>2, <3>1 DEF L
    <3> QED
      BY <3>1, <3>2, <3>3
  <2> HIDE DEF Low
  <2>3. \A j \in 0 .. n : j \in Low
    BY <2>1, <2>2, UpTo
  <2>4. ASSUME NEW i \in 0 .. n PROVE s(i) <= L
    <3>1. n - i \in 0 .. n /\ n - (n - i) = i
      OBVIOUS
    <3> QED
      BY <2>3, <3>1 DEF Low
  <2> QED
    BY <2>4
<1>9. \A i \in 1 .. n + 1 : i - 1 \in 0 .. n /\ (i - 1) + 1 = i
  OBVIOUS
<1>10. L \in Nat
  BY DEF L
<1>11. ASSUME NEW i \in 1 .. n + 1 PROVE StartOf(ps, n, i) \in 0 .. L
  <2>1. i - 1 \in 0 .. n /\ (i - 1) + 1 = i
    BY <1>9
  <2>2. StartOf(ps, n, i) = s(i - 1) /\ s(i - 1) \in Nat /\ s(i - 1) <= L
    BY <1>4, <1>5, <1>8, <2>1
  <2> QED
    BY <1>10, <2>2
<1>12. ASSUME NEW i \in 1 .. n PROVE StartOf(ps, n, i) <= StartOf(ps, n, i + 1)
  <2>1. i - 1 \in 0 .. n - 1 /\ i - 1 \in 0 .. n /\ i \in 0 .. n /\ (i - 1) + 1 = i
    OBVIOUS
  <2>2. StartOf(ps, n, i) = s(i - 1) /\ StartOf(ps, n, i + 1) = s(i)
    BY <1>4, <2>1
  <2> QED
    BY <1>6, <2>1, <2>2
<1>13. StartOf(ps, n, 1) = 0 /\ StartOf(ps, n, n + 1) = L
  <2>1. 0 \in 0 .. n /\ n \in 0 .. n /\ 0 + 1 = 1
    OBVIOUS
  <2> QED
    BY <1>4, <1>7, <2>1
<1> QED
  BY <1>11, <1>12, <1>13 DEF L

(* The slices of a batch, one after the other, are the batch.              *)
LEMMA SlicesJoin ==
  ASSUME NEW ps, IsList(ps), NEW n \in Nat \ {0}
  PROVE  FlattenSeq(PartitionPolicies(ps, n)) = ps
<1> DEFINE q == PartitionPolicies(ps, n)
           s(i) == StartOf(ps, n, i)
           F(f) == [i \in 1 .. n |-> IF i = 1 THEN q[i] ELSE f[i - 1] \o q[i]]
           g == [i \in 1 .. n |-> SubSeq(ps, 1, s(i + 1))]
           flatten == CHOOSE f : f = F(f)
<1>1. /\ Len(ps) \in Nat /\ ps \in Seq(Range(ps))
  BY LenProperties DEF IsList
<1>2. /\ q = [i \in 1 .. n |-> SubSeq(ps, s(i) + 1, s(i + 1))]
  BY DEF PartitionPolicies, StartOf
<1>3. Len(q) = n
  BY <1>2
<1>4. FlattenSeq(q) = flatten[n]
  BY <1>3 DEF FlattenSeq
<1> HIDE DEF q
<1>5. /\ s(1) = 0 /\ s(n + 1) = Len(ps)
      /\ \A i \in 1 .. n + 1 : s(i) \in 0 .. Len(ps)
      /\ \A i \in 1 .. n : s(i) <= s(i + 1)
  BY <1>1, StartsGrow
<1> HIDE DEF s
<1>6. ASSUME NEW i \in 2 .. n PROVE g[i] = g[i - 1] \o q[i]
  <2>1. /\ i \in 1 .. n /\ i - 1 \in 1 .. n /\ (i - 1) + 1 = i /\ i + 1 \in 1 .. n + 1
        /\ i \in 1 .. n + 1
    OBVIOUS
  <2>2. s(i) \in 0 .. Len(ps) /\ s(i + 1) \in 0 .. Len(ps) /\ s(i) <= s(i + 1)
    BY <1>5, <2>1
  <2>3. s(i) \in 1 - 1 .. Len(ps) /\ s(i + 1) \in s(i) .. Len(ps) /\ 1 \in 1 .. Len(ps) + 1
    BY <1>1, <2>2
  <2>4. SubSeq(ps, 1, s(i)) \o SubSeq(ps, s(i) + 1, s(i + 1)) = SubSeq(ps, 1, s(i + 1))
    BY <1>1, <2>3, ConcatAdjacentSubSeq
  <2> QED
    BY <1>2, <2>1, <2>4
<1>7. g[1] = q[1]
  <2>1. 1 \in 1 .. n
    OBVIOUS
  <2>2. g[1] = SubSeq(ps, 1, s(1 + 1)) /\ q[1] = SubSeq(ps, s(1) + 1, s(1 + 1))
    BY <1>2, <2>1
  <2>3. s(1) + 1 = 1
    BY <1>5
  <2> QED
    BY <2>2, <2>3
<1>8. g = [i \in 1 .. n |-> g[i]]
  OBVIOUS
<1>9. g[n] = ps
  <2>1. n \in 1 .. n
    OBVIOUS
  <2> QED
    BY <1>1, <1>5, <2>1, SubSeqFull
<1> HIDE DEF g
<1>10. g = F(g)
  <2>1. ASSUME NEW i \in 1 .. n PROVE g[i] = IF i = 1 THEN q[i] ELSE g[i - 1] \o q[i]
    <3>1. i = 1 \/ i \in 2 .. n
      OBVIOUS
    <3> QED
      BY <1>6, <1>7, <3>1
  <2> QED
    BY <1>8, <2>1, Zenon
<1>11. flatten = F(flatten)
  BY <1>10
<1> HIDE DEF flatten
<1>12. /\ flatten[1] = q[1]
       /\ \A i \in 2 .. n : flatten[i] = flatten[i - 1] \o q[i]
  <2> DEFINE e == F(flatten)
  <2>1. /\ 1 \in 1 .. n /\ \A i \in 2 .. n : i \in 1 .. n /\ i # 1
        /\ \A i \in 1 .. n : e[i] = IF i = 1 THEN q[i] ELSE flatten[i - 1] \o q[i]
    OBVIOUS
  <2>2. flatten = e
    BY <1>11
  <2> HIDE DEF e
  <2> QED
    BY <2>1, <2>2
<1> DEFINE Same == {j \in 0 .. n - 1 : flatten[j + 1] = g[j + 1]}
<1>13. 0 \in Same
  BY <1>7, <1>12
<1> HIDE DEF Same
<1>14. ASSUME NEW j \in 1 .. n - 1, j - 1 \in Same PROVE j \in Same
  <2>1. j + 1 \in 2 .. n /\ (j + 1) - 1 = j /\ (j - 1) + 1 = j
    OBVIOUS
  <2>2. flatten[j] = g[j]
    BY <1>14, <2>1 DEF Same
  <2>3. flatten[j + 1] = flatten[j] \o q[j + 1] /\ g[j + 1] = g[j] \o q[j + 1]
    BY <1>6, <1>12, <2>1
  <2>4. j \in 0 .. n - 1
    OBVIOUS
  <2> QED
    BY <2>2, <2>3, <2>4 DEF Same
<1>15. \A j \in 0 .. n - 1 : j \in Same
  BY <1>13, <1>14, UpTo
<1>16. n - 1 \in 0 .. n - 1 /\ (n - 1) + 1 = n
  OBVIOUS
<1>17. flatten[n] = g[n]
  BY <1>15, <1>16 DEF Same
<1> QED
  BY <1>4, <1>9, <1>17 DEF q
-----------------------------------------------------------------------------
(* What a worker has primed when it reads its messages. *)

LEMMA InOrderAppend ==
  ASSUME NEW q, IsList(q), NEW K, NEW B, InOrder(q, K, B), NEW m, NEW C,
         m.kind = "run" => m.run.session \in B,
         \A s \in C : Primes(m, s) \/ (s \in B /\ ~Unprimes(m, s))
  PROVE  InOrder(Append(q, m), K, C)
<1> DEFINE t == Append(q, m)
           n == Len(q)
<1>1. /\ n \in Nat /\ Len(t) = n + 1 /\ t[n + 1] = m
      /\ \A i \in 1 .. n : t[i] = q[i]
  BY ListAppend
<1>2. /\ \A k \in 0 .. n : \A s : PrimedAfter(q, K, k, s) => PrimedAfter(t, K, k, s)
      /\ \A s : Primes(m, s) \/ (PrimedAfter(q, K, n, s) /\ ~Unprimes(m, s)) =>
                PrimedAfter(t, K, n + 1, s)
  BY PrimedAppend
<1> HIDE DEF t
<1>3. ASSUME NEW i \in 1 .. n + 1, t[i].kind = "run"
      PROVE  PrimedAfter(t, K, i - 1, t[i].run.session)
  <2>1. CASE i \in 1 .. n
    <3>1. q[i].kind = "run" /\ t[i] = q[i] /\ i - 1 \in 0 .. n
      BY <1>1, <1>3, <2>1
    <3>2. PrimedAfter(q, K, i - 1, q[i].run.session)
      BY <2>1, <3>1 DEF InOrder
    <3> QED
      BY <1>2, <3>1, <3>2
  <2>2. CASE i = n + 1
    <3>1. m.run.session \in B /\ t[i] = m /\ i - 1 = n /\ n \in 0 .. n
      BY <1>1, <1>3, <2>2
    <3>2. PrimedAfter(q, K, n, m.run.session)
      BY <3>1 DEF InOrder
    <3> QED
      BY <1>2, <3>1, <3>2
  <2> QED
    BY <1>1, <2>1, <2>2
<1>4. ASSUME NEW s \in C PROVE PrimedAfter(t, K, n + 1, s)
  BY <1>2 DEF InOrder
<1> QED
  BY <1>1, <1>3, <1>4 DEF InOrder, t

LEMMA InOrderRead ==
  ASSUME NEW q, IsList(q), q # <<>>, NEW K, NEW B, InOrder(q, K, B), NEW L,
         \A s : Primes(Head(q), s) \/ (s \in K /\ ~Unprimes(Head(q), s)) => s \in L
  PROVE  /\ InOrder(Tail(q), L, B)
         /\ Head(q).kind = "run" => Head(q).run.session \in K
<1> DEFINE t == Tail(q)
           n == Len(q)
<1>1. /\ n \in Nat \ {0} /\ Len(t) = n - 1 /\ q[1] = Head(q)
      /\ \A i \in 1 .. n - 1 : t[i] = q[i + 1]
  BY ListTail
<1>2. \A k \in 0 .. n - 1 : \A s : PrimedAfter(q, K, k + 1, s) => PrimedAfter(t, L, k, s)
  BY PrimedRead
<1> HIDE DEF t, n
<1>3. ASSUME NEW i \in 1 .. n - 1, t[i].kind = "run"
      PROVE  PrimedAfter(t, L, i - 1, t[i].run.session)
  <2>1. /\ i + 1 \in 1 .. n /\ t[i] = q[i + 1] /\ i + 1 - 1 = i - 1 + 1 /\ i - 1 \in 0 .. n - 1
    BY <1>1
  <2>2. PrimedAfter(q, K, i - 1 + 1, t[i].run.session)
    BY <1>3, <2>1 DEF InOrder, n
  <2> QED
    BY <1>2, <2>1, <2>2
<1>4. ASSUME NEW s \in B PROVE PrimedAfter(t, L, n - 1, s)
  <2>1. PrimedAfter(q, K, n, s)
    BY DEF InOrder, n
  <2>2. n - 1 \in 0 .. n - 1 /\ n - 1 + 1 = n
    BY <1>1
  <2> QED
    BY <1>2, <2>1, <2>2
<1>5. ASSUME Head(q).kind = "run" PROVE Head(q).run.session \in K
  <2>1. 1 \in 1 .. n /\ 1 - 1 = 0
    BY <1>1
  <2>2. PrimedAfter(q, K, 0, Head(q).run.session)
    BY <1>1, <1>5, <2>1 DEF InOrder, n
  <2> QED
    BY <2>2 DEF PrimedAfter
<1> QED
  BY <1>1, <1>3, <1>4, <1>5 DEF InOrder, t

(* Cancels prime nothing.                                                  *)
LEMMA InOrderCancels ==
  ASSUME NEW q, IsList(q), NEW K, NEW B, InOrder(q, K, B), NEW c, IsList(c),
         \A i \in 1 .. Len(c) : c[i].kind = "cancel"
  PROVE  InOrder(q \o c, K, B)
<1> DEFINE t == q \o c
           n == Len(q)
           m == Len(c)
<1>1. /\ n \in Nat /\ m \in Nat /\ Len(t) = n + m
      /\ \A i \in 1 .. n + m : t[i] = IF i <= n THEN q[i] ELSE c[i - n]
  BY ListJoin
<1> HIDE DEF t, n, m
<1>2. /\ \A i \in 1 .. n : t[i] = q[i]
      /\ \A i \in n + 1 .. n + m : t[i].kind = "cancel"
  <2>1. \A i \in 1 .. n : t[i] = q[i]
    BY <1>1
  <2>2. ASSUME NEW i \in n + 1 .. n + m PROVE t[i].kind = "cancel"
    <3>1. i - n \in 1 .. m /\ t[i] = c[i - n]
      BY <1>1
    <3> QED
      BY <3>1 DEF m
  <2> QED
    BY <2>1, <2>2
<1>3. ASSUME NEW k \in 0 .. n, NEW s, PrimedAfter(q, K, k, s) PROVE PrimedAfter(t, K, k, s)
  <2>1. \A i \in 1 .. k : t[i] = q[i]
    BY <1>1, <1>2
  <2> QED
    BY <1>3, <2>1 DEF PrimedAfter
<1>4. ASSUME NEW i \in 1 .. n + m, t[i].kind = "run"
      PROVE  PrimedAfter(t, K, i - 1, t[i].run.session)
  <2>1. i \in 1 .. n /\ i - 1 \in 0 .. n
    BY <1>1, <1>2, <1>4
  <2>2. PrimedAfter(q, K, i - 1, q[i].run.session)
    BY <1>2, <1>4, <2>1 DEF InOrder, n
  <2> QED
    BY <1>2, <1>3, <2>1, <2>2
<1>5. ASSUME NEW s \in B PROVE PrimedAfter(t, K, n + m, s)
  <2>1. PrimedAfter(t, K, n, s)
    <3>1. PrimedAfter(q, K, n, s) /\ n \in 0 .. n
      BY <1>1 DEF InOrder, n
    <3> QED
      BY <1>3, <3>1
  <2>2. \A j \in n + 1 .. n + m : ~Unprimes(t[j], s)
    BY <1>2 DEF Unprimes
  <2>3. \A j \in 1 .. n + m : j \in 1 .. n \/ j \in n + 1 .. n + m
    BY <1>1
  <2>4. \A i \in 1 .. n : /\ i \in 1 .. n + m
                          /\ \A j \in i + 1 .. n + m : j \in i + 1 .. n \/ j \in n + 1 .. n + m
    BY <1>1
  <2> QED
    BY <2>1, <2>2, <2>3, <2>4 DEF PrimedAfter
<1> QED
  BY <1>1, <1>4, <1>5 DEF InOrder, t
-----------------------------------------------------------------------------
(* The helpers that post messages. *)

SameBooks(h, g) ==
  /\ g.active = h.active /\ g.busy = h.busy /\ g.pending = h.pending
  /\ g.running = h.running /\ g.queue = h.queue /\ g.answers = h.answers

(* Messages were posted, but for no run. *)
SameRuns(h, g) ==
  \A w \in Slot :
    /\ \A i \in 1 .. Len(h.inbox[w]) :
         i \in 1 .. Len(g.inbox[w]) /\ g.inbox[w][i] = h.inbox[w][i]
    /\ \A i \in 1 .. Len(g.inbox[w]) :
         g.inbox[w][i].kind = "run" => i \in 1 .. Len(h.inbox[w])

LEMMA InboxAppend ==
  ASSUME NEW q, InboxOK(q), NEW m, m.kind \in {"prime", "unprime", "cancel", "run"}
  PROVE  /\ InboxOK(Append(q, m)) /\ Len(q) \in Nat
         /\ \A i \in 1 .. Len(q) : i \in 1 .. Len(Append(q, m)) /\ Append(q, m)[i] = q[i]
         /\ \A i \in 1 .. Len(Append(q, m)) :
              i \in 1 .. Len(q) \/ (i = Len(q) + 1 /\ Append(q, m)[i] = m)
<1>1. /\ IsList(Append(q, m)) /\ Len(q) \in Nat /\ Len(Append(q, m)) = Len(q) + 1
      /\ \A i \in 1 .. Len(q) : Append(q, m)[i] = q[i]
      /\ Append(q, m)[Len(q) + 1] = m
  BY ListAppend DEF InboxOK
<1>2. /\ \A i \in 1 .. Len(q) : i \in 1 .. Len(Append(q, m)) /\ Append(q, m)[i] = q[i]
      /\ \A i \in 1 .. Len(Append(q, m)) :
           i \in 1 .. Len(q) \/ (i = Len(q) + 1 /\ Append(q, m)[i] = m)
  BY <1>1
<1> QED
  BY <1>1, <1>2 DEF InboxOK

(* Message m was posted to the workers in W, and the flags set to fit.     *)
Posted(h, g, W, m) ==
  \A w \in Slot :
    IF w \in W
    THEN /\ g.inbox[w] = Append(h.inbox[w], m)
         /\ \A s \in g.primedIds[w] :
              Primes(m, s) \/ (s \in h.primedIds[w] /\ ~Unprimes(m, s))
    ELSE g.inbox[w] = h.inbox[w] /\ g.primedIds[w] \subseteq h.primedIds[w]

LEMMA PostedFields ==
  ASSUME NEW h, NEW k, Priming(h, k), NEW g, NEW W, NEW m, Posted(h, g, W, m),
         m.kind \in {"prime", "unprime"}
  PROVE  Priming(g, k) /\ SameRuns(h, g)
<1>1. ASSUME NEW w \in Slot
      PROVE  /\ InboxOK(g.inbox[w])
             /\ k[w].alive => InOrder(g.inbox[w], k[w].primed, g.primedIds[w])
             /\ \A i \in 1 .. Len(h.inbox[w]) :
                  i \in 1 .. Len(g.inbox[w]) /\ g.inbox[w][i] = h.inbox[w][i]
             /\ \A i \in 1 .. Len(g.inbox[w]) :
                  g.inbox[w][i].kind = "run" => i \in 1 .. Len(h.inbox[w])
  <2>1. /\ InboxOK(h.inbox[w]) /\ IsList(h.inbox[w])
        /\ k[w].alive => InOrder(h.inbox[w], k[w].primed, h.primedIds[w])
    BY DEF Priming, InboxOK
  <2>2. CASE w \in W
    <3>1. g.inbox[w] = Append(h.inbox[w], m)
      BY <2>2 DEF Posted
    <3>2. \A r \in g.primedIds[w] :
             Primes(m, r) \/ (r \in h.primedIds[w] /\ ~Unprimes(m, r))
      BY <2>2 DEF Posted
    <3>3. m.kind = "run" => m.run.session \in h.primedIds[w]
      OBVIOUS
    <3>4. k[w].alive => InOrder(g.inbox[w], k[w].primed, g.primedIds[w])
      BY <2>1, <3>1, <3>2, <3>3, InOrderAppend
    <3>5. /\ InboxOK(g.inbox[w])
          /\ \A i \in 1 .. Len(h.inbox[w]) :
               i \in 1 .. Len(g.inbox[w]) /\ g.inbox[w][i] = h.inbox[w][i]
          /\ \A i \in 1 .. Len(g.inbox[w]) :
               i \in 1 .. Len(h.inbox[w]) \/ g.inbox[w][i] = m
      BY <2>1, <3>1, InboxAppend
    <3> QED
      BY <3>4, <3>5
  <2>3. CASE w \notin W
    <3>1. g.inbox[w] = h.inbox[w] /\ \A s \in g.primedIds[w] : s \in h.primedIds[w]
      BY <2>3 DEF Posted
    <3> QED
      BY <2>1, <3>1 DEF InOrder
  <2> QED
    BY <2>2, <2>3
<1> QED
  BY <1>1 DEF Priming, SameRuns

LEMMA PrimeAllSlotsFields ==
  ASSUME NEW h, NEW k, Shape(h), Priming(h, k), NEW s \in 1 .. MaxSessions
  PROVE  LET g == PrimeAllSlots(h, s)
         IN  /\ Shape(g) /\ Priming(g, k) /\ SameBooks(h, g) /\ SameRuns(h, g)
             /\ \A w \in Slot : s \in g.primedIds[w]
<1> DEFINE g == PrimeAllSlots(h, s)
           m == Prime(s)
           W == {w \in Slot : s \notin h.primedIds[w]}
<1>1. /\ g.inbox = [w \in Slot |-> IF w \in W THEN Append(h.inbox[w], m) ELSE h.inbox[w]]
      /\ g.primedIds = [w \in Slot |-> h.primedIds[w] \cup {s}]
      /\ SameBooks(h, g) /\ Shape(g)
  BY DEF PrimeAllSlots, PostAll, Shape, SameBooks
<1> HIDE DEF g
<1>2. m.kind = "prime" /\ m.session = s
  BY DEF Prime
<1> HIDE DEF m
<1>3. Posted(h, g, W, m)
  BY <1>1, <1>2 DEF Posted, Primes, Unprimes
<1> HIDE DEF W
<1>4. Priming(g, k) /\ SameRuns(h, g)
  BY <1>2, <1>3, PostedFields
<1> QED
  BY <1>1, <1>4 DEF g

LEMMA UnprimeAllSlotsFields ==
  ASSUME NEW h, NEW k, Shape(h), Priming(h, k), NEW s
  PROVE  LET g == UnprimeAllSlots(h, s)
         IN  Shape(g) /\ Priming(g, k) /\ SameBooks(h, g) /\ SameRuns(h, g)
<1> DEFINE g == UnprimeAllSlots(h, s)
           m == Unprime(s)
           W == {w \in Slot : s \in h.primedIds[w]}
<1>1. /\ g.inbox = [w \in Slot |-> IF w \in W THEN Append(h.inbox[w], m) ELSE h.inbox[w]]
      /\ g.primedIds = [w \in Slot |-> h.primedIds[w] \ {s}]
      /\ SameBooks(h, g) /\ Shape(g)
  BY DEF UnprimeAllSlots, PostAll, Shape, SameBooks
<1> HIDE DEF g
<1>2. m.kind = "unprime" /\ m.session = s
  BY DEF Unprime
<1> HIDE DEF m
<1>3. Posted(h, g, W, m)
  BY <1>1, <1>2 DEF Posted, Primes, Unprimes
<1> HIDE DEF W
<1>4. Priming(g, k) /\ SameRuns(h, g)
  BY <1>2, <1>3, PostedFields
<1> QED
  BY <1>1, <1>4 DEF g

LEMMA CancelAllInFlightFields ==
  ASSUME NEW h, NEW k, Shape(h), Priming(h, k), IsFiniteSet(h.pending)
  PROVE  LET g == CancelAllInFlight(h)
         IN  /\ Shape(g) /\ Priming(g, k) /\ SameBooks(h, g) /\ SameRuns(h, g)
             /\ g.primedIds = h.primedIds
<1> DEFINE g == CancelAllInFlight(h)
           c == [i \in 1 .. Cardinality(h.pending) |-> CancelRun(SetToSeq(h.pending)[i])]
<1>1. /\ g.inbox = [w \in Slot |-> h.inbox[w] \o c]
      /\ g.primedIds = h.primedIds
      /\ SameBooks(h, g) /\ Shape(g)
  BY DEF CancelAllInFlight, Shape, SameBooks
<1> HIDE DEF g
<1>2. IsList(c) /\ Len(c) = Cardinality(h.pending) /\ Cardinality(h.pending) \in Nat
  BY FS_CardinalityType, ListMade
<1>3. \A i \in 1 .. Len(c) : c[i].kind = "cancel"
  BY <1>2 DEF CancelRun
<1> HIDE DEF c
<1>4. ASSUME NEW w \in Slot
      PROVE  /\ InboxOK(g.inbox[w])
             /\ k[w].alive => InOrder(g.inbox[w], k[w].primed, g.primedIds[w])
             /\ \A i \in 1 .. Len(h.inbox[w]) :
                  i \in 1 .. Len(g.inbox[w]) /\ g.inbox[w][i] = h.inbox[w][i]
             /\ \A i \in 1 .. Len(g.inbox[w]) :
                  g.inbox[w][i].kind = "run" => i \in 1 .. Len(h.inbox[w])
  <2> DEFINE q == h.inbox[w]
             t == g.inbox[w]
  <2>1. /\ InboxOK(q) /\ IsList(q)
        /\ k[w].alive => InOrder(q, k[w].primed, h.primedIds[w])
    BY DEF Priming, InboxOK
  <2>2. t = q \o c
    BY <1>1
  <2> HIDE DEF q, t
  <2>3. k[w].alive => InOrder(t, k[w].primed, g.primedIds[w])
    BY <1>1, <1>2, <1>3, <2>1, <2>2, InOrderCancels
  <2>4. /\ IsList(t) /\ Len(q) \in Nat /\ Len(c) \in Nat /\ Len(t) = Len(q) + Len(c)
        /\ \A i \in 1 .. Len(q) + Len(c) : t[i] = IF i <= Len(q) THEN q[i] ELSE c[i - Len(q)]
    BY <1>2, <2>1, <2>2, ListJoin
  <2>5. ASSUME NEW i \in 1 .. Len(t)
        PROVE  (i \in 1 .. Len(q) /\ t[i] = q[i]) \/ t[i].kind = "cancel"
    <3>1. CASE i <= Len(q)
      BY <2>4, <3>1
    <3>2. CASE ~(i <= Len(q))
      <4>1. i - Len(q) \in 1 .. Len(c) /\ t[i] = c[i - Len(q)]
        BY <2>4, <3>2
      <4> QED
        BY <1>3, <4>1
    <3> QED
      BY <3>1, <3>2
  <2>6. InboxOK(t)
    BY <2>1, <2>4, <2>5 DEF InboxOK
  <2>7. \A i \in 1 .. Len(q) : i \in 1 .. Len(t) /\ t[i] = q[i]
    BY <2>4
  <2> QED
    BY <2>3, <2>5, <2>6, <2>7 DEF q, t
<1> QED
  BY <1>1, <1>4 DEF Priming, SameRuns, g
-----------------------------------------------------------------------------
(* The free slots in their order. *)

RankIn(F, w) == Cardinality({v \in F : v <= w})
FirstOf(F, n) == {w \in F : RankIn(F, w) <= n}

LEMMA SlotFinite == IsFiniteSet(Slot) /\ Slot \subseteq Nat
<1>1. WorkerCount \in Nat
  BY HostAssumption
<1>2. IsFiniteSet(1 .. WorkerCount) /\ 1 .. WorkerCount \subseteq Nat
  BY <1>1, FS_Interval
<1> QED
  BY <1>2 DEF Slot

LEMMA Ranks ==
  ASSUME NEW F \in SUBSET Slot
  PROVE  /\ IsFiniteSet(F) /\ Cardinality(F) \in Nat
         /\ \A w \in F : RankIn(F, w) \in 1 .. Cardinality(F)
         /\ \A v, w \in F : RankIn(F, v) = RankIn(F, w) => v = w
         /\ \A i \in 1 .. Cardinality(F) : \E w \in F : RankIn(F, w) = i
<1> DEFINE c == Cardinality(F)
<1>1. IsFiniteSet(F) /\ c \in Nat /\ F \subseteq Nat
  BY SlotFinite, FS_Subset, FS_CardinalityType
<1>2. ASSUME NEW w \in F PROVE RankIn(F, w) \in 1 .. c
  <2> DEFINE T == {v \in F : v <= w}
  <2>1. T \in SUBSET F /\ w \in T
    BY <1>1
  <2> HIDE DEF T
  <2>2. IsFiniteSet(T) /\ Cardinality(T) <= c /\ Cardinality(T) \in Nat
    BY <1>1, <2>1, FS_Subset, FS_CardinalityType
  <2>3. Cardinality(T) # 0
    BY <2>1, <2>2, FS_EmptySet
  <2>4. Cardinality(T) \in 1 .. c
    BY <1>1, <2>2, <2>3
  <2> QED
    BY <2>4 DEF RankIn, T
<1>3. ASSUME NEW v \in F, NEW w \in F, v < w PROVE RankIn(F, v) # RankIn(F, w)
  <2> DEFINE S == {x \in F : x <= v}
             T == {x \in F : x <= w}
  <2>1. /\ \A x \in F : x <= v => x <= w
        /\ w <= w /\ ~(w <= v)
    BY <1>1, <1>3
  <2>2. S \in SUBSET T /\ w \in T /\ w \notin S /\ T \in SUBSET F
    BY <2>1
  <2> HIDE DEF S, T
  <2>3. IsFiniteSet(T)
    BY <1>1, <2>2, FS_Subset
  <2>4. Cardinality(T) # Cardinality(S)
    BY <2>2, <2>3, FS_Subset
  <2> QED
    BY <2>4 DEF RankIn, S, T
<1>4. \A v, w \in F : RankIn(F, v) = RankIn(F, w) => v = w
  <2>1. \A v, w \in F : v = w \/ v < w \/ w < v
    BY <1>1
  <2> QED
    BY <1>3, <2>1
<1>5. \A i \in 1 .. c : \E w \in F : RankIn(F, w) = i
  <2> DEFINE f == [w \in F |-> RankIn(F, w)]
  <2>1. f \in Injection(F, 1 .. c)
    BY <1>2, <1>4 DEF Injection, IsInjective
  <2>2. IsFiniteSet(1 .. c) /\ Cardinality(1 .. c) = c
    BY <1>1, FS_Interval
  <2> HIDE DEF f
  <2>3. f \in Surjection(F, 1 .. c)
    BY <2>1, <2>2, FS_Injection
  <2>4. \A i \in 1 .. c : \E w \in F : f[w] = i
    BY <2>3 DEF Surjection
  <2> QED
    BY <2>4 DEF f
<1> QED
  BY <1>1, <1>2, <1>4, <1>5

LEMMA FirstRanks ==
  ASSUME NEW F \in SUBSET Slot, NEW n \in 0 .. Cardinality(F)
  PROVE  /\ IsFiniteSet(FirstOf(F, n)) /\ Cardinality(FirstOf(F, n)) = n
         /\ FirstOf(F, n) \subseteq F
         /\ \A w \in FirstOf(F, n) : RankIn(F, w) \in 1 .. n
         /\ \A v, w \in FirstOf(F, n) : RankIn(F, v) = RankIn(F, w) => v = w
         /\ \A i \in 1 .. n : \E w \in FirstOf(F, n) : RankIn(F, w) = i
<1> DEFINE c == Cardinality(F)
           T == FirstOf(F, n)
<1>1. /\ IsFiniteSet(F) /\ c \in Nat
      /\ \A w \in F : RankIn(F, w) \in 1 .. c
      /\ \A v, w \in F : RankIn(F, v) = RankIn(F, w) => v = w
      /\ \A i \in 1 .. c : \E w \in F : RankIn(F, w) = i
  BY Ranks
<1>2. n \in Nat /\ n <= c /\ \A i \in 1 .. n : i \in 1 .. c /\ i <= n
  BY <1>1
<1>3. T \subseteq F /\ \A w \in T : RankIn(F, w) \in 1 .. n
  BY <1>1, <1>2 DEF FirstOf
<1>4. \A i \in 1 .. n : \E w \in T : RankIn(F, w) = i
  BY <1>1, <1>2 DEF FirstOf
<1> HIDE DEF T
<1>5. IsFiniteSet(T)
  BY <1>1, <1>3, FS_Subset
<1> DEFINE f == [w \in T |-> RankIn(F, w)]
<1>6. f \in [T -> 1 .. n]
  BY <1>3
<1>7. f \in Injection(T, 1 .. n)
  BY <1>1, <1>3, <1>6 DEF Injection, IsInjective
<1>8. f \in Surjection(T, 1 .. n)
  BY <1>4, <1>6 DEF Surjection
<1>9. IsFiniteSet(1 .. n) /\ Cardinality(1 .. n) = n
  BY <1>2, FS_Interval
<1> HIDE DEF f
<1>10. Cardinality(T) = n
  BY <1>7, <1>8, <1>9, FS_Injection
<1> QED
  BY <1>1, <1>3, <1>4, <1>5, <1>10 DEF T
-----------------------------------------------------------------------------
(* StartBatch. *)

LEMMA OutstandingFacts ==
  ASSUME NEW d, NEW u, DispatchOK(d, u), UsedOK(u), NEW id \in DOMAIN d.outstanding
  PROVE  /\ id[1] = d.session /\ d.session \in 1 .. u.sessions
         /\ u.sessions \in Nat /\ d.session \in 1 .. MaxSessions
         /\ d.outstanding[id].id = id
         /\ Len(d.outstanding[id].policies) \in Nat \ {0}
<1>1. MaxSessions \in Nat
  BY HostAssumption
<1>2. u.sessions \in 0 .. MaxSessions
  BY DEF UsedOK
<1>3. /\ d.session \in 0 .. u.sessions /\ d.session # 0 /\ id = <<d.session, id[2]>>
      /\ \E ps \in Batches : d.outstanding[id] = [id |-> id, policies |-> ps]
  BY DEF DispatchOK
<1>4. PICK ps \in Batches : d.outstanding[id] = [id |-> id, policies |-> ps]
  BY <1>3
<1>5. ps \in Seq(Range(ps)) /\ ps # <<>>
  BY HostAssumption
<1>6. Len(ps) \in Nat \ {0}
  BY <1>5, LenProperties, EmptySeq
<1> QED
  BY <1>1, <1>2, <1>3, <1>4, <1>6

SizeFor(h, b) == LesserOf(Len(b.policies), Cardinality(Free(h)))
Taken(h, b) == FirstOf(Free(h), SizeFor(h, b))
RunFor(h, b, w) == RunId(b.id, IF SizeFor(h, b) = 1 THEN 0 ELSE RankIn(Free(h), w))
SliceFor(h, b, w) == PartitionPolicies(b.policies, SizeFor(h, b))[RankIn(Free(h), w)]
NewRuns(h, b) == {RunFor(h, b, w) : w \in Taken(h, b)}

(* h has started batch b and become g, by way of p, where the session is   *)
(* primed everywhere.                                                      *)
Started(h, b, p, g) ==
  /\ g.active = h.active /\ g.queue = h.queue /\ g.answers = h.answers
  /\ g.pending = h.pending \cup NewRuns(h, b)
  /\ g.running = With(h.running, b.id, [parts |-> SizeFor(h, b), done |-> Nothing])
  /\ g.busy = [w \in Slot |-> h.busy[w] \/ w \in Taken(h, b)]
  /\ g.primedIds = p.primedIds
  /\ g.inbox = [w \in Slot |-> IF w \in Taken(h, b)
                  THEN Append(p.inbox[w], Run(RunFor(h, b, w), SliceFor(h, b, w)))
                  ELSE p.inbox[w]]

LEMMA StartBatchFields ==
  ASSUME NEW h, NEW b, NEW p, p = PrimeAllSlots(h, b.id[1]), Shape(h), Shape(p),
         SameBooks(h, p)
  PROVE  Shape(StartBatch(h, b)) /\ Started(h, b, p, StartBatch(h, b))
<1> DEFINE g == StartBatch(h, b)
<1>1. g = [p EXCEPT
         !.inFlight = p.inFlight \cup {b.id},
         !.pending  = p.pending \cup NewRuns(h, b),
         !.running  = With(p.running, b.id, [parts |-> SizeFor(h, b), done |-> Nothing]),
         !.busy     = [w \in Slot |-> p.busy[w] \/ w \in Taken(h, b)],
         !.inbox    = [w \in Slot |-> IF w \in Taken(h, b)
                  THEN Append(p.inbox[w], Run(RunFor(h, b, w), SliceFor(h, b, w)))
                  ELSE p.inbox[w]]]
  BY DEF StartBatch, NewRuns, RunFor, Taken, SizeFor, FirstOf, RankIn, SliceFor
<1> HIDE DEF g
<1>2. /\ g.active = p.active /\ g.queue = p.queue /\ g.answers = p.answers
      /\ g.pending = p.pending \cup NewRuns(h, b)
      /\ g.running = With(p.running, b.id, [parts |-> SizeFor(h, b), done |-> Nothing])
      /\ g.busy = [w \in Slot |-> p.busy[w] \/ w \in Taken(h, b)]
      /\ g.primedIds = p.primedIds
      /\ g.inbox = [w \in Slot |-> IF w \in Taken(h, b)
                  THEN Append(p.inbox[w], Run(RunFor(h, b, w), SliceFor(h, b, w)))
                  ELSE p.inbox[w]]
  BY <1>1 DEF Shape
<1>3. Shape(g)
  BY <1>1 DEF Shape
<1> QED
  BY <1>2, <1>3 DEF Started, SameBooks, g

LEMMA NewRunsCounted ==
  ASSUME NEW h, NEW b, Free(h) # {}, Len(b.policies) \in Nat \ {0}
  PROVE  /\ SizeFor(h, b) \in Nat \ {0} /\ Taken(h, b) \subseteq Free(h)
         /\ IsFiniteSet(NewRuns(h, b)) /\ Cardinality(NewRuns(h, b)) = SizeFor(h, b)
         /\ \A v, w \in Taken(h, b) : RunFor(h, b, v) = RunFor(h, b, w) => v = w
         /\ \A r \in NewRuns(h, b) : /\ r = RunId(b.id, r.part) /\ r.batch = b.id
                                     /\ r.part \in 0 .. SizeFor(h, b)
         /\ \A w \in Taken(h, b) : RankIn(Free(h), w) \in 1 .. SizeFor(h, b)
<1> DEFINE F == Free(h)
           n == SizeFor(h, b)
           T == Taken(h, b)
<1>1. F \in SUBSET Slot
  BY DEF Free
<1>2. IsFiniteSet(F) /\ Cardinality(F) \in Nat
  BY <1>1, Ranks
<1>3. Cardinality(F) # 0
  BY <1>2, FS_EmptySet
<1>4. n \in Nat \ {0} /\ n \in 0 .. Cardinality(F)
  BY <1>2, <1>3 DEF SizeFor, LesserOf
<1> HIDE DEF F, n
<1>5. /\ IsFiniteSet(FirstOf(F, n)) /\ Cardinality(FirstOf(F, n)) = n
      /\ FirstOf(F, n) \subseteq F
      /\ \A w \in FirstOf(F, n) : RankIn(F, w) \in 1 .. n
      /\ \A v, w \in FirstOf(F, n) : RankIn(F, v) = RankIn(F, w) => v = w
  BY <1>1, <1>4, FirstRanks
<1>6. T = FirstOf(F, n)
  BY DEF Taken, F, n
<1> HIDE DEF T
<1>7. ASSUME NEW w \in T
      PROVE  /\ RunFor(h, b, w) = RunId(b.id, IF n = 1 THEN 0 ELSE RankIn(F, w))
             /\ RunFor(h, b, w).batch = b.id /\ RankIn(F, w) \in 1 .. n
             /\ RunFor(h, b, w).part = IF n = 1 THEN 0 ELSE RankIn(F, w)
  BY <1>5, <1>6 DEF RunFor, RunId, F, n
<1>8. ASSUME NEW v \in T, NEW w \in T, RunFor(h, b, v) = RunFor(h, b, w) PROVE v = w
  <2>1. RankIn(F, v) = RankIn(F, w)
    BY <1>4, <1>7, <1>8
  <2> QED
    BY <1>5, <1>6, <2>1
<1> DEFINE R == NewRuns(h, b)
           f == [w \in T |-> RunFor(h, b, w)]
<1>9. f \in [T -> R] /\ R = {f[w] : w \in T}
  BY DEF NewRuns, T
<1>10. \A v, w \in T : f[v] = f[w] => v = w
  BY <1>8
<1> HIDE DEF f, R
<1>11. f \in Surjection(T, R) /\ f \in Injection(T, R)
  BY <1>9, <1>10 DEF Surjection, Injection, IsInjective
<1>12. IsFiniteSet(R) /\ Cardinality(R) = n
  BY <1>5, <1>6, <1>11, FS_Surjection
<1>13. ASSUME NEW r \in R
       PROVE  r = RunId(b.id, r.part) /\ r.batch = b.id /\ r.part \in 0 .. n
  <2>1. PICK w \in T : r = RunFor(h, b, w)
    BY DEF R, NewRuns, T
  <2>2. r = RunId(b.id, r.part) /\ r.batch = b.id
    BY <1>7, <2>1 DEF RunId
  <2>3. r.part \in 0 .. n
    BY <1>4, <1>7, <2>1
  <2> QED
    BY <2>2, <2>3
<1> QED
  BY <1>4, <1>5, <1>6, <1>8, <1>12, <1>13 DEF F, n, T, R

(* Whatever d knows of batch b. *)
Assigned(b, d) == b.id \in DOMAIN d.outstanding /\ b = d.outstanding[b.id]

LEMMA StartBatchPriming ==
  ASSUME NEW h, NEW k, NEW b, NEW p, NEW g, Priming(p, k), Started(h, b, p, g),
         \A w \in Slot : b.id[1] \in p.primedIds[w]
  PROVE  Priming(g, k)
<1>1. ASSUME NEW w \in Slot
      PROVE  /\ InboxOK(g.inbox[w])
             /\ k[w].alive => InOrder(g.inbox[w], k[w].primed, g.primedIds[w])
  <2> DEFINE m == Run(RunFor(h, b, w), SliceFor(h, b, w))
  <2>1. /\ InboxOK(p.inbox[w]) /\ IsList(p.inbox[w])
        /\ k[w].alive => InOrder(p.inbox[w], k[w].primed, p.primedIds[w])
        /\ g.primedIds[w] = p.primedIds[w]
    BY DEF Priming, InboxOK, Started
  <2>2. m.kind = "run" /\ m.run.session \in p.primedIds[w]
    BY DEF Run, RunFor, RunId
  <2>3. \A s \in p.primedIds[w] : Primes(m, s) \/ (s \in p.primedIds[w] /\ ~Unprimes(m, s))
    BY <2>2 DEF Unprimes
  <2>4. g.inbox[w] = IF w \in Taken(h, b) THEN Append(p.inbox[w], m) ELSE p.inbox[w]
    BY DEF Started
  <2> HIDE DEF m
  <2>5. CASE w \in Taken(h, b)
    <3>1. k[w].alive => InOrder(Append(p.inbox[w], m), k[w].primed, p.primedIds[w])
      BY <2>1, <2>2, <2>3, InOrderAppend
    <3>2. InboxOK(Append(p.inbox[w], m))
      BY <2>1, <2>2, InboxAppend
    <3> QED
      BY <2>1, <2>4, <2>5, <3>1, <3>2
  <2>6. CASE w \notin Taken(h, b)
    BY <2>1, <2>4, <2>6
  <2> QED
    BY <2>5, <2>6
<1> QED
  BY <1>1 DEF Priming

LEMMA StartBatchBooks ==
  ASSUME NEW h, NEW b, NEW p, NEW g, Books(h), Started(h, b, p, g), Free(h) # {},
         Len(b.policies) \in Nat \ {0}, b.id \notin DOMAIN h.running
  PROVE  Books(g)
<1> DEFINE n == SizeFor(h, b)
           R == NewRuns(h, b)
<1>1. /\ n \in Nat \ {0} /\ IsFiniteSet(R) /\ Cardinality(R) = n
      /\ \A r \in R : r = RunId(b.id, r.part) /\ r.batch = b.id /\ r.part \in 0 .. n
  BY NewRunsCounted
<1>2. /\ g.pending = h.pending \cup R
      /\ g.running = With(h.running, b.id, [parts |-> n, done |-> Nothing])
  BY DEF Started
<1> HIDE DEF n, R
<1>3. IsFiniteSet(g.pending)
  <2>1. IsFiniteSet(h.pending)
    BY DEF Books
  <2>2. IsFiniteSet(h.pending \cup R)
    BY <1>1, <2>1, FS_Union
  <2> QED
    BY <1>2, <2>2
<1>4. /\ DOMAIN g.running = DOMAIN h.running \cup {b.id}
      /\ g.running = [id \in DOMAIN g.running |-> g.running[id]]
      /\ g.running[b.id] = [parts |-> n, done |-> Nothing]
      /\ \A id \in DOMAIN h.running : g.running[id] = h.running[id]
  BY <1>2 DEF With
<1>5. \A r \in g.pending : r = RunId(r.batch, r.part) /\ r.batch \in DOMAIN g.running
  BY <1>1, <1>2, <1>4 DEF Books
<1>6. \A r \in h.pending : r.batch # b.id
  BY DEF Books
<1>7. ASSUME NEW id \in DOMAIN h.running PROVE BatchOK(g.running[id], RunsOf(g, id))
  <2>1. id # b.id /\ RunsOf(g, id) = RunsOf(h, id)
    BY <1>1, <1>2 DEF RunsOf
  <2> QED
    BY <1>4, <2>1 DEF Books
<1>8. BatchOK(g.running[b.id], RunsOf(g, b.id))
  <2>1. RunsOf(g, b.id) = R
    BY <1>1, <1>2, <1>6 DEF RunsOf
  <2>2. DOMAIN Nothing = {} /\ IsFiniteSet({}) /\ Cardinality({}) = 0
    BY FS_EmptySet DEF Nothing
  <2>3. R # {}
    BY <1>1, <2>2
  <2>4. n \in Nat /\ 0 + n = n
    BY <1>1
  <2> QED
    BY <1>1, <1>4, <2>1, <2>2, <2>3, <2>4 DEF BatchOK
<1> QED
  BY <1>3, <1>4, <1>5, <1>7, <1>8 DEF Books

LEMMA StartBatchHolds ==
  ASSUME NEW h, NEW b, NEW p, NEW g, NEW d, NEW u, Holds(h, d, u, {b.id}), Started(h, b, p, g),
         DispatchOK(d, u), UsedOK(u), b.id \in DOMAIN d.outstanding
  PROVE  Holds(g, d, u, {})
<1>1. b.id[1] = d.session /\ d.session \in 1 .. u.sessions
  BY OutstandingFacts
<1>2. /\ g.queue = h.queue /\ g.answers = h.answers
      /\ DOMAIN g.running = DOMAIN h.running \cup {b.id}
  BY DEF Started, With
<1>3. ASSUME NEW i \in DOMAIN d.outstanding
      PROVE  (InQueue(g, i) \/ i \in DOMAIN g.running \/ IsAnswered(g, i)) /\ Places(g, i)
  <2>1. (InQueue(g, i) <=> InQueue(h, i)) /\ (IsAnswered(g, i) <=> IsAnswered(h, i))
    BY <1>2 DEF InQueue, IsAnswered
  <2>2. CASE i = b.id
    <3>1. ~InQueue(h, i) /\ ~IsAnswered(h, i)
      BY <2>2 DEF Holds
    <3> QED
      BY <1>2, <2>1, <2>2, <3>1 DEF Places
  <2>3. CASE i # b.id
    <3>1. (InQueue(h, i) \/ i \in DOMAIN h.running \/ IsAnswered(h, i)) /\ Places(h, i)
      BY <2>3 DEF Holds
    <3> QED
      BY <1>2, <2>1, <2>3, <3>1 DEF Places
  <2> QED
    BY <2>2, <2>3
<1>4. \A i \in DOMAIN g.running :
        /\ i[1] \in 1 .. u.sessions
        /\ i[1] = d.session => i \in DOMAIN d.outstanding
  BY <1>1, <1>2 DEF Holds
<1> QED
  BY <1>2, <1>3, <1>4 DEF Holds

LEMMA StartBatchKeeps ==
  ASSUME NEW h, NEW k, NEW d, NEW u, NEW b, HostOK(h, k, d, u, {b.id}), Assigned(b, d),
         DispatchOK(d, u), UsedOK(u), Free(h) # {}
  PROVE  /\ HostOK(StartBatch(h, b), k, d, u, {})
         /\ StartBatch(h, b).queue = h.queue /\ StartBatch(h, b).active = h.active
<1> DEFINE p == PrimeAllSlots(h, b.id[1])
           g == StartBatch(h, b)
<1>1. /\ Shape(h) /\ Priming(h, k) /\ Books(h) /\ Holds(h, d, u, {b.id}) /\ QueueOK(h, d)
  BY DEF HostOK
<1>2. /\ b.id \in DOMAIN d.outstanding /\ b.id[1] \in 1 .. MaxSessions
      /\ Len(b.policies) \in Nat \ {0} /\ b.id \notin DOMAIN h.running
  BY <1>1, OutstandingFacts DEF Assigned, Holds
<1>3. /\ Shape(p) /\ Priming(p, k) /\ SameBooks(h, p)
      /\ \A w \in Slot : b.id[1] \in p.primedIds[w]
  BY <1>1, <1>2, PrimeAllSlotsFields
<1>4. Shape(g) /\ Started(h, b, p, g)
  BY <1>1, <1>3, StartBatchFields
<1> HIDE DEF p, g
<1>5. Priming(g, k)
  BY <1>3, <1>4, StartBatchPriming
<1>6. Books(g)
  BY <1>1, <1>2, <1>4, StartBatchBooks
<1>7. Holds(g, d, u, {})
  BY <1>1, <1>2, <1>4, StartBatchHolds
<1>8. g.queue = h.queue /\ g.active = h.active
  BY <1>4 DEF Started
<1>9. QueueOK(g, d)
  BY <1>1, <1>8 DEF QueueOK
<1> QED
  BY <1>4, <1>5, <1>6, <1>7, <1>8, <1>9 DEF HostOK, g
-----------------------------------------------------------------------------
(* Drain. *)

TakeUp(h, b) == HandleBatchAssign([h EXCEPT !.queue = Tail(@), !.inFlight = @ \ {b.id}], b)

(* Drain takes up the batches in their order, each with a free slot.       *)
Drained(h, state, last) ==
  /\ state[0] = h /\ Drain(h) = state[last]
  /\ \A k \in 1 .. last : Free(state[k - 1]) # {} /\ state[k] = TakeUp(state[k - 1], h.queue[k])

LEMMA DrainSteps ==
  ASSUME NEW h, Len(h.queue) \in Nat
  PROVE  \E state : \E last \in 0 .. Len(h.queue) :
           /\ Drained(h, state, last)
           /\ last = Len(h.queue) \/ Free(Drain(h)) = {}
<1> DEFINE n == Len(h.queue)
           F(f, m) == [k \in 0 .. m |-> IF k = 0 THEN h ELSE TakeUp(f[k - 1], h.queue[k])]
           Good == {m \in 0 .. n : \E f : f = F(f, m)}
           state == CHOOSE f : f = F(f, n)
           last == CHOOSE k \in 0 .. n : /\ k = n \/ Free(state[k]) = {}
                                         /\ \A j \in 0 .. k - 1 : Free(state[j]) # {}
<1>1. 0 \in Good
  <2> DEFINE f == [k \in 0 .. 0 |-> h]
  <2>1. f = F(f, 0)
    OBVIOUS
  <2>2. 0 \in 0 .. n
    OBVIOUS
  <2> HIDE DEF f
  <2> QED
    BY <2>1, <2>2
<1>2. ASSUME NEW m \in 1 .. n, m - 1 \in Good PROVE m \in Good
  <2>1. PICK f : f = F(f, m - 1)
    BY <1>2
  <2> DEFINE g == [k \in 0 .. m |-> IF k = m THEN TakeUp(f[m - 1], h.queue[m]) ELSE f[k]]
  <2>2. \A k \in 0 .. m - 1 : g[k] = f[k]
    OBVIOUS
  <2>3. \A k \in 0 .. m - 1 : f[k] = IF k = 0 THEN h ELSE TakeUp(f[k - 1], h.queue[k])
    BY <2>1
  <2>4. ASSUME NEW k \in 0 .. m
        PROVE  g[k] = IF k = 0 THEN h ELSE TakeUp(g[k - 1], h.queue[k])
    <3>1. CASE k = m
      <4>1. m - 1 \in 0 .. m - 1 /\ m # 0
        OBVIOUS
      <4> QED
        BY <2>2, <3>1, <4>1
    <3>2. CASE k # m /\ k # 0
      <4>1. k \in 0 .. m - 1 /\ k - 1 \in 0 .. m - 1
        BY <3>2
      <4> QED
        BY <2>2, <2>3, <3>2, <4>1
    <3>3. CASE k # m /\ k = 0
      <4>1. k \in 0 .. m - 1
        BY <3>3
      <4> QED
        BY <2>2, <2>3, <3>3, <4>1
    <3> QED
      BY <3>1, <3>2, <3>3
  <2>5. g = [k \in 0 .. m |-> g[k]]
    OBVIOUS
  <2> HIDE DEF g
  <2>6. g = F(g, m)
    BY <2>4, <2>5
  <2>7. m \in 0 .. n
    OBVIOUS
  <2> QED
    BY <2>6, <2>7
<1>3. n \in Good
  <2> HIDE DEF Good
  <2>1. \A i \in 0 .. n : i \in Good
    BY <1>1, <1>2, UpTo
  <2> QED
    BY <2>1
<1>4. state = F(state, n)
  BY <1>3
<1>5. Drain(h) = state[last]
  BY DEF Drain, TakeUp
<1> DEFINE g == F(state, n)
<1>6. g[0] = h /\ \A k \in 1 .. n : g[k] = TakeUp(state[k - 1], h.queue[k])
  OBVIOUS
<1>7. state = g
  BY <1>4
<1> HIDE DEF state, g
<1>8. state[0] = h /\ \A k \in 1 .. n : state[k] = TakeUp(state[k - 1], h.queue[k])
  BY <1>6, <1>7
<1> DEFINE L == {k \in 0 .. n : k = n \/ Free(state[k]) = {}}
<1>9. L \in SUBSET Nat /\ IsFiniteSet(L) /\ L # {}
  <2>1. IsFiniteSet(0 .. n)
    BY FS_Interval
  <2> QED
    BY <2>1, FS_Subset
<1>10. PICK m \in L : \A x \in L : m <= x
  <2> HIDE DEF L
  <2> QED
    BY <1>9, ExtremesExist
<1>11. \A j \in 0 .. m - 1 : Free(state[j]) # {}
  <2>1. \A j \in 0 .. m - 1 : j \in 0 .. n /\ ~(m <= j)
    BY <1>10
  <2> QED
    BY <1>10, <2>1
<1>12. /\ last \in 0 .. n /\ (last = n \/ Free(state[last]) = {})
       /\ \A j \in 0 .. last - 1 : Free(state[j]) # {}
  BY <1>10, <1>11
<1> HIDE DEF last
<1>13. \A k \in 1 .. last : k \in 1 .. n /\ k - 1 \in 0 .. last - 1
  BY <1>12
<1>14. Drained(h, state, last)
  BY <1>5, <1>8, <1>12, <1>13 DEF Drained
<1> QED
  BY <1>5, <1>12, <1>14

(* Taking up batch b of h is starting it in g, where it has left the queue.*)
Unqueued(h, g, b) ==
  /\ g.queue = Tail(h.queue) /\ g.active = h.active /\ g.inbox = h.inbox
  /\ g.pending = h.pending /\ g.busy = h.busy
  /\ g.running = h.running /\ g.answers = h.answers
  /\ Free(g) # {} /\ TakeUp(h, b) = StartBatch(g, b)

LEMMA TakeUpStarts ==
  ASSUME NEW h, NEW k, NEW d, NEW u, HostOK(h, k, d, u, {}), DispatchOK(d, u), UsedOK(u),
         h.queue # <<>>, Free(h) # {}
  PROVE  \E g : /\ HostOK(g, k, d, u, {h.queue[1].id}) /\ Assigned(h.queue[1], d)
               /\ Unqueued(h, g, h.queue[1])
<1> DEFINE b == h.queue[1]
           g == [h EXCEPT !.queue = Tail(h.queue), !.inFlight = h.inFlight \ {b.id}]
<1>1. Shape(h) /\ Priming(h, k) /\ Books(h) /\ Holds(h, d, u, {}) /\ QueueOK(h, d)
  BY DEF HostOK
<1>2. IsList(h.queue)
  BY <1>1 DEF QueueOK
<1>3. /\ IsList(Tail(h.queue)) /\ Len(h.queue) \in Nat \ {0}
      /\ Len(Tail(h.queue)) = Len(h.queue) - 1
      /\ \A i \in 1 .. Len(h.queue) - 1 : Tail(h.queue)[i] = h.queue[i + 1]
  BY <1>2, ListTail
<1>4. 1 \in 1 .. Len(h.queue) /\ Assigned(b, d) /\ b.id[1] = h.active
  <2>1. 1 \in 1 .. Len(h.queue)
    BY <1>3
  <2>2. Assigned(b, d) /\ h.active = d.session
    BY <1>1, <2>1 DEF QueueOK, Assigned
  <2>3. b.id[1] = d.session
    BY <2>2, OutstandingFacts DEF Assigned
  <2> QED
    BY <2>1, <2>2, <2>3
<1>5. /\ Shape(g) /\ g.queue = Tail(h.queue) /\ g.active = h.active /\ g.busy = h.busy
      /\ g.pending = h.pending /\ g.running = h.running /\ g.answers = h.answers
      /\ g.inbox = h.inbox /\ g.primedIds = h.primedIds
  BY <1>1 DEF Shape
<1>6. TakeUp(h, b) = IF g.active # b.id[1]
                     THEN [g EXCEPT !.answers = @ \cup {Nack(b.id, "no_active_session")}]
                     ELSE IF Free(g) # {} THEN StartBatch(g, b)
                     ELSE IF Len(g.queue) >= MAX_QUEUE_DEPTH
                     THEN [g EXCEPT !.answers = @ \cup {Nack(b.id, "host_no_free_slots")}]
                     ELSE [g EXCEPT !.queue = Append(@, b), !.inFlight = @ \cup {b.id}]
  BY DEF TakeUp, HandleBatchAssign
<1> HIDE DEF g
<1>7. Free(g) # {}
  BY <1>5 DEF Free
<1>8. TakeUp(h, b) = StartBatch(g, b)
  BY <1>4, <1>5, <1>6, <1>7
<1>9. Priming(g, k) /\ Books(g)
  BY <1>1, <1>5 DEF Priming, Books, RunsOf
<1>10. /\ \A i \in 1 .. Len(g.queue) : i + 1 \in 1 .. Len(h.queue) /\ g.queue[i] = h.queue[i + 1]
       /\ \A i \in 1 .. Len(h.queue) : i # 1 => i - 1 \in 1 .. Len(g.queue) /\ g.queue[i - 1] = h.queue[i]
       /\ \A i, j \in 1 .. Len(g.queue) : i + 1 = j + 1 => i = j
       /\ \A i \in 1 .. Len(g.queue) : i + 1 # 1
  BY <1>3, <1>5
<1>11. /\ \A i \in 1 .. Len(g.queue) : g.queue[i].id # b.id
       /\ \A i, j \in 1 .. Len(g.queue) : g.queue[i].id = g.queue[j].id => i = j
  <2>1. \A i, j \in 1 .. Len(h.queue) : h.queue[i].id = h.queue[j].id => i = j
    BY <1>1 DEF QueueOK
  <2>2. \A i \in 1 .. Len(g.queue) : g.queue[i].id # b.id
    BY <1>4, <1>10, <2>1
  <2>3. ASSUME NEW i \in 1 .. Len(g.queue), NEW j \in 1 .. Len(g.queue),
               g.queue[i].id = g.queue[j].id
        PROVE  i + 1 = j + 1
    <3>1. /\ i + 1 \in 1 .. Len(h.queue) /\ g.queue[i] = h.queue[i + 1]
          /\ j + 1 \in 1 .. Len(h.queue) /\ g.queue[j] = h.queue[j + 1]
      BY <1>10
    <3> QED
      BY <2>1, <2>3, <3>1
  <2> QED
    BY <1>10, <2>2, <2>3
<1>12. QueueOK(g, d)
  <2>1. Len(g.queue) <= MAX_QUEUE_DEPTH
    <3>1. Len(h.queue) <= MAX_QUEUE_DEPTH /\ MAX_QUEUE_DEPTH \in Nat
      BY <1>1, HostAssumption DEF QueueOK
    <3> QED
      BY <1>3, <1>5, <3>1
  <2>2. g.active = d.session
    BY <1>1, <1>5 DEF QueueOK
  <2> QED
    BY <1>1, <1>3, <1>5, <1>10, <1>11, <2>1, <2>2 DEF QueueOK
<1>13. \A i : (InQueue(g, i) => InQueue(h, i)) /\ (InQueue(h, i) => InQueue(g, i) \/ i = b.id)
  <2>1. ASSUME NEW x, InQueue(g, x) PROVE InQueue(h, x)
    <3>1. PICK i \in 1 .. Len(g.queue) : g.queue[i].id = x
      BY <2>1 DEF InQueue
    <3>2. i + 1 \in 1 .. Len(h.queue) /\ h.queue[i + 1].id = x
      BY <1>10, <3>1
    <3> QED
      BY <3>2 DEF InQueue
  <2>2. ASSUME NEW x, InQueue(h, x), x # b.id PROVE InQueue(g, x)
    <3>1. PICK i \in 1 .. Len(h.queue) : h.queue[i].id = x
      BY <2>2 DEF InQueue
    <3>2. i - 1 \in 1 .. Len(g.queue) /\ g.queue[i - 1].id = x
      BY <1>10, <2>2, <3>1
    <3> QED
      BY <3>2 DEF InQueue
  <2> QED
    BY <2>1, <2>2
<1>14. ~InQueue(g, b.id) /\ InQueue(h, b.id)
  BY <1>4, <1>11 DEF InQueue
<1>15. b.id \in DOMAIN d.outstanding
  BY <1>4 DEF Assigned
<1>16. Holds(g, d, u, {b.id})
  BY <1>1, <1>5, <1>13, <1>14, <1>15 DEF Holds, Places, IsAnswered
<1>17. HostOK(g, k, d, u, {b.id})
  BY <1>5, <1>9, <1>12, <1>16 DEF HostOK
<1>18. Unqueued(h, g, b)
  BY <1>5, <1>7, <1>8 DEF Unqueued
<1> QED
  BY <1>4, <1>17, <1>18

LEMMA TakeUpKeeps ==
  ASSUME NEW h, NEW k, NEW d, NEW u, HostOK(h, k, d, u, {}), DispatchOK(d, u), UsedOK(u),
         h.queue # <<>>, Free(h) # {}
  PROVE  /\ HostOK(TakeUp(h, h.queue[1]), k, d, u, {})
         /\ TakeUp(h, h.queue[1]).queue = Tail(h.queue)
         /\ TakeUp(h, h.queue[1]).active = h.active
<1> DEFINE b == h.queue[1]
<1>1. PICK g : HostOK(g, k, d, u, {b.id}) /\ Assigned(b, d) /\ Unqueued(h, g, b)
  BY TakeUpStarts
<1> HIDE DEF b
<1>2. /\ HostOK(TakeUp(h, b), k, d, u, {})
      /\ TakeUp(h, b).queue = Tail(h.queue) /\ TakeUp(h, b).active = h.active
  BY <1>1, StartBatchKeeps DEF Unqueued
<1> QED
  BY <1>2 DEF b

DrainedOK(h, k, d, u, state, last) ==
  /\ Drained(h, state, last)
  /\ \A i \in 0 .. last : HostOK(state[i], k, d, u, {}) /\ state[i].active = h.active
  /\ \A i \in 1 .. last : /\ state[i - 1].queue # <<>> /\ Free(state[i - 1]) # {}
                          /\ state[i] = TakeUp(state[i - 1], state[i - 1].queue[1])

LEMMA DrainStates ==
  ASSUME NEW h, NEW k, NEW d, NEW u, HostOK(h, k, d, u, {}), DispatchOK(d, u), UsedOK(u)
  PROVE  \E state : \E last \in Nat : DrainedOK(h, k, d, u, state, last)
<1> DEFINE n == Len(h.queue)
<1>1. h.queue \in Seq(Range(h.queue)) /\ n \in Nat
  BY LenProperties DEF HostOK, QueueOK, IsList
<1>2. PICK state : \E last \in 0 .. n : Drained(h, state, last)
  BY <1>1, DrainSteps
<1>3. PICK last \in 0 .. n : Drained(h, state, last)
  BY <1>2
<1> DEFINE Left(g, i) == /\ IsList(g.queue) /\ Len(g.queue) = n - i
                         /\ \A j \in 1 .. n - i : g.queue[j] = h.queue[i + j]
           Good == {i \in 0 .. n : /\ HostOK(state[i], k, d, u, {})
                                   /\ state[i].active = h.active
                                   /\ Left(state[i], i)}
<1>4. 0 \in Good
  <2>1. state[0] = h /\ IsList(h.queue) /\ 0 \in 0 .. n
    BY <1>1, <1>3 DEF Drained, IsList
  <2>2. Left(h, 0)
    BY <1>1, <2>1
  <2> QED
    BY <2>1, <2>2
<1>5. ASSUME NEW i \in 1 .. last, i - 1 \in Good
      PROVE  /\ i \in Good /\ state[i - 1].queue # <<>> /\ Free(state[i - 1]) # {}
             /\ state[i] = TakeUp(state[i - 1], state[i - 1].queue[1])
  <2> DEFINE g == state[i - 1]
             t == state[i]
  <2>1. HostOK(g, k, d, u, {}) /\ g.active = h.active /\ Left(g, i - 1)
    BY <1>5
  <2>2. i \in 1 .. n /\ i \in 0 .. n /\ n - (i - 1) \in Nat \ {0}
    BY <1>1
  <2>3. Free(g) # {} /\ t = TakeUp(g, h.queue[i])
    BY <1>3 DEF Drained
  <2> HIDE DEF g, t
  <2>4. g.queue # <<>> /\ g.queue[1] = h.queue[i]
    <3>1. 1 \in 1 .. n - (i - 1) /\ i - 1 + 1 = i
      BY <2>2
    <3>2. g.queue[1] = h.queue[i - 1 + 1] /\ Len(g.queue) # 0
      BY <2>1, <2>2, <3>1
    <3> QED
      BY <3>1, <3>2, ListFacts
  <2>5. /\ HostOK(TakeUp(g, g.queue[1]), k, d, u, {})
        /\ TakeUp(g, g.queue[1]).queue = Tail(g.queue)
        /\ TakeUp(g, g.queue[1]).active = g.active
    BY <2>1, <2>3, <2>4, TakeUpKeeps
  <2>6. HostOK(t, k, d, u, {}) /\ t.queue = Tail(g.queue) /\ t.active = h.active
    BY <2>1, <2>3, <2>4, <2>5
  <2>7. /\ IsList(Tail(g.queue)) /\ Len(Tail(g.queue)) = Len(g.queue) - 1
        /\ \A j \in 1 .. Len(g.queue) - 1 : Tail(g.queue)[j] = g.queue[j + 1]
    BY <2>1, <2>4, ListTail
  <2>8. /\ n - (i - 1) - 1 = n - i
        /\ \A j \in 1 .. n - i : j + 1 \in 1 .. n - (i - 1) /\ i - 1 + (j + 1) = i + j
    BY <1>1, <2>2
  <2>9. Left(t, i)
    BY <2>1, <2>6, <2>7, <2>8
  <2>10. g.queue # <<>> /\ Free(g) # {} /\ t = TakeUp(g, g.queue[1])
    BY <2>3, <2>4
  <2> HIDE DEF Left
  <2> QED
    BY <2>2, <2>6, <2>9, <2>10 DEF g, t
<1>6. \A i \in 0 .. last : i \in Good
  <2>1. last \in Nat
    BY <1>1
  <2> HIDE DEF Good
  <2> QED
    BY <1>4, <1>5, <2>1, UpTo
<1>7. /\ \A i \in 1 .. last : i - 1 \in 0 .. last
      /\ \A i \in 0 .. last : HostOK(state[i], k, d, u, {}) /\ state[i].active = h.active
  BY <1>6
<1>8. \A i \in 1 .. last : i - 1 \in Good
  BY <1>6, <1>7
<1> HIDE DEF Good
<1>9. last \in Nat
  BY <1>1
<1> QED
  BY <1>3, <1>5, <1>7, <1>8, <1>9 DEF DrainedOK

LEMMA DrainKeeps ==
  ASSUME NEW h, NEW k, NEW d, NEW u, HostOK(h, k, d, u, {}), DispatchOK(d, u), UsedOK(u)
  PROVE  HostOK(Drain(h), k, d, u, {}) /\ Drain(h).active = h.active
<1>1. PICK state : \E last \in Nat : DrainedOK(h, k, d, u, state, last)
  BY DrainStates
<1>2. PICK last \in Nat : DrainedOK(h, k, d, u, state, last)
  BY <1>1
<1>3. last \in 0 .. last /\ Drain(h) = state[last]
  BY <1>2 DEF Drained, DrainedOK
<1> QED
  BY <1>2, <1>3 DEF DrainedOK
-----------------------------------------------------------------------------
(* The other handlers. *)

LEMMA SameRunning ==
  ASSUME NEW h, Books(h), NEW g, g.pending = h.pending, g.running = h.running
  PROVE  Books(g)
BY DEF Books, RunsOf

LEMMA SamePlaces ==
  ASSUME NEW h, NEW d, NEW u, NEW X, Holds(h, d, u, X),
         NEW g, g.running = h.running, g.queue = h.queue, g.answers = h.answers
  PROVE  Holds(g, d, u, X)
BY DEF Holds, Places, InQueue, IsAnswered

LEMMA SameBooksKeep ==
  ASSUME NEW h, NEW k, NEW l, NEW d, NEW u, NEW X, HostOK(h, k, d, u, X),
         NEW g, Shape(g), Priming(g, l),
         g.active = h.active, g.pending = h.pending, g.running = h.running,
         g.queue = h.queue, g.answers = h.answers
  PROVE  HostOK(g, l, d, u, X)
<1>1. Books(g)
  BY SameRunning DEF HostOK
<1>2. Holds(g, d, u, X)
  BY SamePlaces DEF HostOK
<1>3. QueueOK(g, d)
  BY DEF HostOK, QueueOK
<1> QED
  BY <1>1, <1>2, <1>3 DEF HostOK

LEMMA HandleBatchAssignKeeps ==
  ASSUME NEW h, NEW k, NEW d, NEW u, NEW b, HostOK(h, k, d, u, {b.id}), Assigned(b, d),
         DispatchOK(d, u), UsedOK(u), h.active = d.session
  PROVE  /\ HostOK(HandleBatchAssign(h, b), k, d, u, {})
         /\ HandleBatchAssign(h, b).active = h.active
<1> DEFINE g == HandleBatchAssign(h, b)
<1>1. Shape(h) /\ Priming(h, k) /\ Books(h) /\ Holds(h, d, u, {b.id}) /\ QueueOK(h, d)
  BY DEF HostOK
<1>2. /\ b.id \in DOMAIN d.outstanding /\ b.id[1] = d.session /\ d.session \in 1 .. u.sessions
      /\ ~InQueue(h, b.id) /\ b.id \notin DOMAIN h.running /\ ~IsAnswered(h, b.id)
  BY <1>1, OutstandingFacts DEF Assigned, Holds
<1>3. CASE Free(h) # {}
  <2>1. g = StartBatch(h, b)
    BY <1>2, <1>3 DEF HandleBatchAssign
  <2> QED
    BY <1>3, <2>1, StartBatchKeeps
<1>4. CASE Free(h) = {} /\ Len(h.queue) >= MAX_QUEUE_DEPTH
  <2> DEFINE a == Nack(b.id, "host_no_free_slots")
  <2>1. g = [h EXCEPT !.answers = h.answers \cup {a}]
    BY <1>2, <1>4 DEF HandleBatchAssign
  <2>2. a.id = b.id /\ a.kind = "host_no_free_slots"
    BY DEF Nack
  <2> HIDE DEF g, a
  <2>3. /\ Shape(g) /\ g.active = h.active /\ g.inbox = h.inbox /\ g.primedIds = h.primedIds
        /\ g.pending = h.pending /\ g.running = h.running /\ g.queue = h.queue
        /\ g.answers = h.answers \cup {a}
    BY <1>1, <2>1 DEF Shape
  <2>4. Priming(g, k) /\ Books(g) /\ QueueOK(g, d)
    BY <1>1, <2>3 DEF Priming, Books, RunsOf, QueueOK
  <2>5. \A i : /\ InQueue(g, i) <=> InQueue(h, i)
               /\ IsAnswered(g, i) <=> IsAnswered(h, i) \/ i = b.id
    BY <2>2, <2>3 DEF InQueue, IsAnswered
  <2>6. \A i \in DOMAIN d.outstanding :
          (InQueue(g, i) \/ i \in DOMAIN g.running \/ IsAnswered(g, i)) /\ Places(g, i)
    BY <1>1, <1>2, <2>3, <2>5 DEF Holds, Places
  <2>7. \A x, y \in g.answers : x.id = y.id /\ x.id[1] = d.session => x = y
    BY <1>1, <1>2, <2>2, <2>3 DEF Holds, IsAnswered
  <2>8. Holds(g, d, u, {})
    BY <1>1, <1>2, <2>2, <2>3, <2>6, <2>7 DEF Holds
  <2> QED
    BY <2>3, <2>4, <2>8 DEF HostOK, g
<1>5. CASE Free(h) = {} /\ ~(Len(h.queue) >= MAX_QUEUE_DEPTH)
  <2>1. g = [h EXCEPT !.queue = Append(h.queue, b), !.inFlight = h.inFlight \cup {b.id}]
    BY <1>2, <1>5 DEF HandleBatchAssign
  <2> HIDE DEF g
  <2>2. /\ Shape(g) /\ g.active = h.active /\ g.inbox = h.inbox /\ g.primedIds = h.primedIds
        /\ g.pending = h.pending /\ g.running = h.running /\ g.queue = Append(h.queue, b)
        /\ g.answers = h.answers
    BY <1>1, <2>1 DEF Shape
  <2>3. Priming(g, k) /\ Books(g)
    BY <1>1, <2>2 DEF Priming, Books, RunsOf
  <2> DEFINE n == Len(h.queue)
  <2>4. /\ IsList(g.queue) /\ n \in Nat /\ Len(g.queue) = n + 1 /\ g.queue[n + 1] = b
        /\ \A i \in 1 .. n : g.queue[i] = h.queue[i]
    BY <1>1, <2>2, ListAppend DEF QueueOK
  <2>5. /\ \A i \in 1 .. n + 1 : i \in 1 .. n \/ i = n + 1
        /\ n + 1 \in 1 .. n + 1 /\ \A i \in 1 .. n : i \in 1 .. n + 1
    BY <2>4
  <2>6. \A i \in 1 .. n : h.queue[i].id # b.id
    BY <1>2 DEF InQueue
  <2>7. \A i : InQueue(g, i) <=> InQueue(h, i) \/ i = b.id
    BY <2>4, <2>5 DEF InQueue
  <2>8. QueueOK(g, d)
    <3>1. Len(g.queue) <= MAX_QUEUE_DEPTH
      BY <1>5, <2>4, HostAssumption
    <3>2. \A i, j \in 1 .. Len(g.queue) : g.queue[i].id = g.queue[j].id => i = j
      <4>1. \A i, j \in 1 .. n : g.queue[i].id = g.queue[j].id => i = j
        BY <1>1, <2>4 DEF QueueOK
      <4> QED
        BY <2>4, <2>5, <2>6, <4>1
    <3>3. \A i \in 1 .. Len(g.queue) : /\ g.queue[i].id \in DOMAIN d.outstanding
                                       /\ g.queue[i] = d.outstanding[g.queue[i].id]
      <4>1. \A i \in 1 .. n : /\ g.queue[i].id \in DOMAIN d.outstanding
                              /\ g.queue[i] = d.outstanding[g.queue[i].id]
        BY <1>1, <2>4 DEF QueueOK
      <4> QED
        BY <2>4, <2>5, <4>1 DEF Assigned
    <3> QED
      BY <2>2, <2>4, <3>1, <3>2, <3>3 DEF QueueOK
  <2>9. \A i \in DOMAIN d.outstanding :
          (InQueue(g, i) \/ i \in DOMAIN g.running \/ IsAnswered(g, i)) /\ Places(g, i)
    BY <1>1, <1>2, <2>2, <2>7 DEF Holds, Places, IsAnswered
  <2>10. Holds(g, d, u, {})
    BY <1>1, <2>2, <2>9 DEF Holds
  <2> QED
    BY <2>2, <2>3, <2>8, <2>10 DEF HostOK, g
<1> QED
  BY <1>3, <1>4, <1>5

(* The batch that has all its slices, before the queue is drained.         *)
Finished(h, id) ==
  [h EXCEPT !.running = Without(@, id), !.answers = @ \cup {Answer(h, id)}]

LEMMA FinishedFields ==
  ASSUME NEW h, NEW id, Shape(h)
  PROVE  /\ Finished(h, id).running = Without(h.running, id)
         /\ Finished(h, id).answers = h.answers \cup {Answer(h, id)}
BY DEF Finished, Shape

LEMMA FinishBatchKeeps ==
  ASSUME NEW h, NEW k, NEW d, NEW u, NEW id, DispatchOK(d, u), UsedOK(u),
         Shape(h), Priming(h, k), Holds(h, d, u, {}), QueueOK(h, d), id \in DOMAIN h.running,
         Books([h EXCEPT !.running = Without(@, id)])
  PROVE  /\ HostOK(Finished(h, id), k, d, u, {}) /\ Finished(h, id).active = h.active
         /\ Finished(h, id).inbox = h.inbox /\ Finished(h, id).pending = h.pending
         /\ Finished(h, id).busy = h.busy /\ FinishBatch(h, id) = Drain(Finished(h, id))
<1> DEFINE a == Answer(h, id)
           g == Finished(h, id)
           b == [h EXCEPT !.running = Without(@, id)]
<1>1. a.id = id /\ a.kind \in {"result", "partial"}
  BY DEF Answer
<1>2. /\ Shape(g) /\ g.active = h.active /\ g.inbox = h.inbox /\ g.primedIds = h.primedIds
      /\ g.pending = h.pending /\ g.running = Without(h.running, id) /\ g.busy = h.busy
      /\ g.queue = h.queue /\ g.answers = h.answers \cup {a}
  BY DEF Shape, Finished
<1> HIDE DEF a
<1>3. b.pending = h.pending /\ b.running = Without(h.running, id)
  BY DEF Shape
<1>4. FinishBatch(h, id) = Drain(g)
  BY DEF FinishBatch, Finished
<1> HIDE DEF g
<1>5. Books(g)
  <2> HIDE DEF b
  <2>1. Books(b)
    BY DEF b
  <2> QED
    BY <1>2, <1>3, <2>1 DEF Books, RunsOf
<1>6. Priming(g, k) /\ QueueOK(g, d)
  BY <1>2 DEF Priming, QueueOK
<1>7. /\ DOMAIN g.running = DOMAIN h.running \ {id}
      /\ \A i : /\ InQueue(g, i) <=> InQueue(h, i)
                /\ IsAnswered(g, i) <=> IsAnswered(h, i) \/ i = id
  BY <1>1, <1>2 DEF InQueue, IsAnswered, Without
<1>8. id[1] \in 1 .. u.sessions /\ (id[1] = d.session => id \in DOMAIN d.outstanding)
  BY DEF Holds
<1>9. id[1] = d.session => ~IsAnswered(h, id) /\ ~InQueue(h, id)
  BY <1>8 DEF Holds, Places
<1>10. ASSUME NEW i \in DOMAIN d.outstanding
       PROVE  (InQueue(g, i) \/ i \in DOMAIN g.running \/ IsAnswered(g, i)) /\ Places(g, i)
  <2>1. (InQueue(h, i) \/ i \in DOMAIN h.running \/ IsAnswered(h, i)) /\ Places(h, i)
    BY DEF Holds
  <2> QED
    BY <1>7, <2>1 DEF Places
<1>11. \A x, y \in g.answers : x.id = y.id /\ x.id[1] = d.session => x = y
  BY <1>1, <1>2, <1>9 DEF Holds, IsAnswered
<1>12. Holds(g, d, u, {})
  BY <1>1, <1>2, <1>7, <1>8, <1>10, <1>11 DEF Holds
<1>13. HostOK(g, k, d, u, {})
  BY <1>2, <1>5, <1>6, <1>12 DEF HostOK
<1> QED
  BY <1>2, <1>4, <1>13 DEF g

(* A reply to a run that is waited for, and the batch it is a part of.     *)
Settled(h, g, w, r) ==
  /\ g.active = h.active /\ g.inbox = h.inbox /\ g.pending = h.pending \ {r}
  /\ g.busy = [h.busy EXCEPT ![w] = FALSE]

Extended(b, r, ok, evaluations) ==
  [ parts |-> b.parts,
    done |-> With(b.done, r.part, [ok |-> ok, evaluations |-> evaluations]) ]
Replied(h, g, r, new) ==
  \/ /\ g.running = [h.running EXCEPT ![r.batch] = new] /\ g.answers = h.answers
  \/ /\ Cardinality(DOMAIN new.done) = new.parts /\ g.running = Without(h.running, r.batch)
     /\ \E f : f.running[r.batch] = new /\ g.answers = h.answers \cup {Answer(f, r.batch)}

LEMMA ReplySettles ==
  ASSUME NEW h, NEW k, NEW d, NEW u, HostOK(h, k, d, u, {}), DispatchOK(d, u), UsedOK(u),
         NEW w \in Slot, NEW r \in h.pending, NEW ok, NEW evaluations
  PROVE  /\ h.running # Nothing
         /\ \E g : /\ HostOK(g, k, d, u, {}) /\ Settled(h, g, w, r)
                  /\ Replied(h, g, r, Extended(h.running[r.batch], r, ok, evaluations))
                  /\ HandleReply(h, w, r, ok, evaluations) \in {g, Drain(g)}
<1> DEFINE g == HandleReply(h, w, r, ok, evaluations)
           id == r.batch
           old == h.running[id]
           done == With(old.done, r.part, [ok |-> ok, evaluations |-> evaluations])
           new == [old EXCEPT !.done = done]
           a == [h EXCEPT !.pending = h.pending \ {r},
                          !.busy = [h.busy EXCEPT ![w] = FALSE],
                          !.running = [h.running EXCEPT ![id] = new]]
<1>0. Shape(h) /\ Priming(h, k) /\ Books(h) /\ Holds(h, d, u, {}) /\ QueueOK(h, d)
  BY DEF HostOK
<1>1. /\ id \in DOMAIN h.running /\ BatchOK(old, RunsOf(h, id)) /\ r \in RunsOf(h, id)
      /\ h.running = [i \in DOMAIN h.running |-> h.running[i]] /\ IsFiniteSet(h.pending)
  BY <1>0 DEF Books, RunsOf
<1>2. /\ old \in [parts : Nat, done : {old.done}] /\ old.parts \in Nat
      /\ IsFiniteSet(DOMAIN old.done) /\ DOMAIN old.done \subseteq 0 .. old.parts
      /\ Cardinality(DOMAIN old.done) + Cardinality(RunsOf(h, id)) = old.parts
      /\ r.part \in (0 .. old.parts) \ DOMAIN old.done
  BY <1>1 DEF BatchOK
<1>3. /\ new = [parts |-> old.parts, done |-> done]
      /\ new = Extended(old, r, ok, evaluations)
      /\ DOMAIN done = DOMAIN old.done \cup {r.part}
  BY <1>2 DEF With, Extended
<1>4. a = [h EXCEPT !.pending = @ \ {r}, !.busy[w] = FALSE,
                    !.running[id].done = With(@, r.part, [ok |-> ok, evaluations |-> evaluations])]
  BY <1>0, <1>1 DEF Shape
<1>5. g = IF Cardinality(DOMAIN a.running[id].done) = a.running[id].parts
          THEN FinishBatch(a, id) ELSE a
  BY <1>4 DEF HandleReply
<1> HIDE DEF g, done, new
<1>6. /\ Shape(a) /\ a.active = h.active /\ a.inbox = h.inbox /\ a.primedIds = h.primedIds
      /\ a.pending = h.pending \ {r} /\ a.running = [h.running EXCEPT ![id] = new]
      /\ a.queue = h.queue /\ a.answers = h.answers /\ a.busy = [h.busy EXCEPT ![w] = FALSE]
  BY <1>0 DEF Shape
<1> HIDE DEF a
<1>7. /\ DOMAIN a.running = DOMAIN h.running /\ a.running[id] = new
      /\ a.running = [i \in DOMAIN a.running |-> a.running[i]]
      /\ \A i \in DOMAIN h.running \ {id} : a.running[i] = h.running[i]
  BY <1>1, <1>6
<1> DEFINE R == RunsOf(h, id)
           S == RunsOf(a, id)
<1>8. /\ IsFiniteSet(R) /\ Cardinality(R) \in Nat /\ S = R \ {r}
      /\ IsFiniteSet(S) /\ Cardinality(S) = Cardinality(R) - 1 /\ Cardinality(S) \in Nat
      /\ Cardinality(S) = 0 <=> S = {}
  <2>1. R \in SUBSET h.pending /\ S = R \ {r}
    BY <1>6 DEF RunsOf
  <2> HIDE DEF R, S
  <2>2. IsFiniteSet(R) /\ Cardinality(R) \in Nat
    BY <1>1, <2>1, FS_Subset, FS_CardinalityType
  <2>3. r \in R
    BY <1>1 DEF R
  <2>4. IsFiniteSet(S) /\ Cardinality(S) = Cardinality(R) - 1 /\ Cardinality(S) \in Nat
    BY <2>1, <2>2, <2>3, FS_RemoveElement, FS_CardinalityType
  <2>5. Cardinality(S) = 0 <=> S = {}
    BY <2>4, FS_EmptySet
  <2> QED
    BY <2>1, <2>2, <2>4, <2>5
<1>9. /\ IsFiniteSet(DOMAIN done) /\ Cardinality(DOMAIN done) \in Nat
      /\ Cardinality(DOMAIN done) + Cardinality(S) = old.parts
      /\ DOMAIN done \subseteq 0 .. old.parts
  <2>1. /\ IsFiniteSet(DOMAIN old.done \cup {r.part})
        /\ Cardinality(DOMAIN old.done \cup {r.part}) = Cardinality(DOMAIN old.done) + 1
        /\ Cardinality(DOMAIN old.done) \in Nat
    BY <1>2, FS_AddElement, FS_CardinalityType
  <2> QED
    BY <1>2, <1>3, <1>8, <2>1
<1>10. \A s \in a.pending : s = RunId(s.batch, s.part) /\ s.batch \in DOMAIN h.running
  BY <1>0, <1>6 DEF Books
<1>11. \A i \in DOMAIN h.running \ {id} : BatchOK(h.running[i], RunsOf(a, i))
  <2> SUFFICES ASSUME NEW i \in DOMAIN h.running \ {id}
               PROVE  BatchOK(h.running[i], RunsOf(a, i))
    OBVIOUS
  <2>1. RunsOf(a, i) = RunsOf(h, i)
    BY <1>6 DEF RunsOf
  <2> QED
    BY <1>0, <2>1 DEF Books
<1>12. IsFiniteSet(a.pending)
  BY <1>1, <1>6, FS_RemoveElement
<1>13. Priming(a, k) /\ QueueOK(a, d) /\ Holds(a, d, u, {})
  BY <1>0, <1>6, <1>7 DEF Priming, QueueOK, Holds, Places, InQueue, IsAnswered
<1>14. h.running # Nothing
  BY <1>1 DEF Nothing
<1>15. CASE Cardinality(DOMAIN done) = old.parts
  <2>1. S = {}
    <3> HIDE DEF S, R
    <3>1. Cardinality(S) = 0
      BY <1>2, <1>8, <1>9, <1>15
    <3> QED
      BY <1>8, <3>1
  <2> DEFINE b == [a EXCEPT !.running = Without(@, id)]
  <2>2. b.pending = a.pending /\ b.running = Without(a.running, id)
    BY <1>6 DEF Shape
  <2> HIDE DEF b
  <2>3. /\ DOMAIN b.running = DOMAIN h.running \ {id}
        /\ b.running = [i \in DOMAIN b.running |-> b.running[i]]
        /\ \A i \in DOMAIN b.running : b.running[i] = h.running[i] /\ RunsOf(b, i) = RunsOf(a, i)
    BY <1>7, <2>2 DEF Without, RunsOf
  <2>4. \A s \in b.pending : s = RunId(s.batch, s.part) /\ s.batch \in DOMAIN b.running
    BY <1>10, <2>1, <2>2, <2>3 DEF RunsOf
  <2>5. \A i \in DOMAIN b.running : BatchOK(b.running[i], RunsOf(b, i))
    BY <1>11, <2>3
  <2>6. Books(b)
    BY <1>12, <2>2, <2>3, <2>4, <2>5 DEF Books
  <2>7. id \in DOMAIN a.running
    BY <1>1, <1>7
  <2> DEFINE f == Finished(a, id)
  <2>8. /\ HostOK(f, k, d, u, {}) /\ f.active = a.active /\ f.inbox = a.inbox
        /\ f.pending = a.pending /\ f.busy = a.busy /\ FinishBatch(a, id) = Drain(f)
    BY <1>6, <1>13, <2>6, <2>7, FinishBatchKeeps DEF b
  <2>9. g = FinishBatch(a, id)
    BY <1>3, <1>5, <1>7, <1>15
  <2>10. f.running = Without(a.running, id) /\ f.answers = a.answers \cup {Answer(a, id)}
    BY <1>6, FinishedFields
  <2> HIDE DEF f
  <2>11. Settled(h, f, w, r) /\ g \in {f, Drain(f)}
    BY <1>6, <2>8, <2>9 DEF Settled
  <2>12. Without(a.running, id) = Without(h.running, id)
    BY <1>7 DEF Without
  <2>13. a.running[id] = new /\ Cardinality(DOMAIN new.done) = new.parts
    BY <1>3, <1>7, <1>15
  <2>14. Replied(h, f, r, new)
    BY <1>6, <2>12, <2>13, <2>10 DEF Replied
  <2> QED
    BY <1>3, <1>14, <2>8, <2>11, <2>14 DEF g
<1>16. CASE Cardinality(DOMAIN done) # old.parts
  <2>1. S # {}
    <3> HIDE DEF S, R
    <3>1. Cardinality(S) # 0
      BY <1>2, <1>8, <1>9, <1>16
    <3> QED
      BY <1>8, <3>1
  <2>2. \A s \in S : s.part \in (0 .. old.parts) \ DOMAIN done
    <3> SUFFICES ASSUME NEW s \in S PROVE s.part \in (0 .. old.parts) \ DOMAIN done
      OBVIOUS
    <3>1. s \in R /\ s # r /\ s.batch = id
      BY <1>8 DEF RunsOf
    <3>2. s.part \in (0 .. old.parts) \ DOMAIN old.done
      BY <1>1, <3>1 DEF BatchOK
    <3>3. s = RunId(id, s.part) /\ r = RunId(id, r.part)
      BY <1>0, <3>1 DEF Books, RunsOf
    <3>4. s.part # r.part
      BY <3>1, <3>3
    <3> QED
      BY <1>3, <3>2, <3>4
  <2>3. BatchOK(new, S)
    <3>1. new.parts = old.parts /\ new.done = done /\ new \in [parts : Nat, done : {new.done}]
      BY <1>2, <1>3
    <3> HIDE DEF S
    <3> QED
      BY <1>9, <2>1, <2>2, <3>1 DEF BatchOK
  <2>4. \A i \in DOMAIN a.running : BatchOK(a.running[i], RunsOf(a, i))
    BY <1>7, <1>11, <2>3
  <2>5. Books(a)
    BY <1>7, <1>10, <1>12, <2>4 DEF Books
  <2>6. g = a
    BY <1>3, <1>5, <1>7, <1>16
  <2>7. HostOK(a, k, d, u, {}) /\ Settled(h, a, w, r) /\ g \in {a, Drain(a)}
    BY <1>6, <1>13, <2>5, <2>6 DEF HostOK, Settled
  <2>8. Replied(h, a, r, new)
    BY <1>6 DEF Replied
  <2> QED
    BY <1>3, <1>14, <2>7, <2>8 DEF g
<1> QED
  BY <1>15, <1>16

LEMMA HandleReplyKeeps ==
  ASSUME NEW h, NEW k, NEW d, NEW u, HostOK(h, k, d, u, {}), DispatchOK(d, u), UsedOK(u),
         NEW w \in Slot, NEW r, NEW ok, NEW evaluations
  PROVE  /\ HostOK(HandleReply(h, w, r, ok, evaluations), k, d, u, {})
         /\ HandleReply(h, w, r, ok, evaluations).active = h.active
         /\ h.running = Nothing => HandleReply(h, w, r, ok, evaluations) = h
<1> DEFINE f == HandleReply(h, w, r, ok, evaluations)
<1>1. CASE r \notin h.pending
  BY <1>1 DEF HandleReply
<1>2. CASE r \in h.pending
  <2>1. /\ h.running # Nothing
        /\ \E g : HostOK(g, k, d, u, {}) /\ Settled(h, g, w, r) /\ f \in {g, Drain(g)}
    BY <1>2, ReplySettles
  <2> HIDE DEF f
  <2>2. PICK g : HostOK(g, k, d, u, {}) /\ Settled(h, g, w, r) /\ f \in {g, Drain(g)}
    BY <2>1
  <2>3. HostOK(Drain(g), k, d, u, {}) /\ Drain(g).active = g.active /\ g.active = h.active
    BY <2>2, DrainKeeps DEF Settled
  <2> QED
    BY <2>1, <2>2, <2>3 DEF f
<1> QED
  BY <1>1, <1>2

(* The dispatcher forgets its batches; the host's are gone or of a session *)
(* that is not the dispatcher's any more.                                  *)
LEMMA NothingOutstanding ==
  ASSUME NEW h, NEW d, NEW u, NEW e, NEW v, Holds(h, d, u, {}),
         e.outstanding = Nothing, UsedOK(u), UsedOK(v), u.sessions <= v.sessions,
         \/ e.session = 0
         \/ e.session > u.sessions
         \/ e.session = d.session /\ d.outstanding = Nothing
         \/ h.running = Nothing /\ h.answers = {}
  PROVE  Holds(h, e, v, {})
<1>1. MaxSessions \in Nat
  BY HostAssumption
<1>2. u.sessions \in Nat /\ v.sessions \in Nat
  BY <1>1 DEF UsedOK
<1>3. DOMAIN e.outstanding = {}
  BY DEF Nothing
<1>4. \A n \in 1 .. u.sessions : n \in 1 .. v.sessions /\ n # 0 /\ ~(n > u.sessions)
  BY <1>2
<1>5. /\ \A id \in DOMAIN h.running :
           id[1] \in 1 .. v.sessions /\ (id[1] = e.session => id \in DOMAIN e.outstanding)
      /\ \A a \in h.answers :
           a.id[1] \in 1 .. v.sessions /\ (a.id[1] = e.session => a.id \in DOMAIN e.outstanding)
  BY <1>3, <1>4 DEF Holds, Nothing
<1>6. \A a, b \in h.answers : a.id = b.id /\ a.id[1] = e.session => a = b
  BY <1>3, <1>5
<1>7. \A id \in DOMAIN e.outstanding \ {} : FALSE
  BY <1>3
<1> QED
  BY <1>5, <1>6, <1>7 DEF Holds

LEMMA NothingQueued ==
  ASSUME NEW h, NEW d, h.queue = <<>>
  PROVE  QueueOK(h, d)
<1>1. MAX_QUEUE_DEPTH \in Nat
  BY HostAssumption
<1> QED
  BY <1>1, ListFacts DEF QueueOK

LEMMA HandleStartSessionFields ==
  ASSUME NEW h, NEW k, Shape(h), Priming(h, k), NEW s \in 0 .. MaxSessions
  PROVE  LET g == HandleStartSession(h, s)
         IN  /\ Shape(g) /\ Priming(g, k) /\ g.active = s /\ g.busy = h.busy
             /\ g.pending = h.pending /\ g.running = h.running /\ g.queue = h.queue
             /\ g.answers = h.answers /\ SameRuns(h, g)
<1> DEFINE p == IF h.active # 0 THEN UnprimeAllSlots(h, h.active) ELSE h
           g == HandleStartSession(h, s)
<1>1. Shape(p) /\ Priming(p, k) /\ SameBooks(h, p) /\ SameRuns(h, p)
  <2>1. CASE h.active # 0
    BY <2>1, UnprimeAllSlotsFields
  <2>2. CASE h.active = 0
    BY <2>2 DEF SameBooks, SameRuns
  <2> QED
    BY <2>1, <2>2
<1>2. g = [p EXCEPT !.active = s]
  BY DEF HandleStartSession
<1> HIDE DEF p, g
<1>3. /\ Shape(g) /\ g.active = s /\ g.busy = p.busy /\ g.pending = p.pending
      /\ g.running = p.running /\ g.queue = p.queue /\ g.answers = p.answers
      /\ g.inbox = p.inbox /\ g.primedIds = p.primedIds
  BY <1>1, <1>2 DEF Shape
<1>4. Priming(g, k) /\ SameRuns(h, g)
  BY <1>1, <1>3 DEF Priming, SameRuns
<1> QED
  BY <1>1, <1>3, <1>4 DEF SameBooks, g

LEMMA HandleCancelSessionFields ==
  ASSUME NEW h, NEW k, Shape(h), Priming(h, k), IsFiniteSet(h.pending)
  PROVE  LET g == HandleCancelSession(h, h.active)
         IN  /\ Shape(g) /\ Priming(g, k) /\ g.active = 0 /\ g.busy = h.busy
             /\ g.pending = h.pending /\ g.running = h.running /\ g.queue = <<>>
             /\ g.answers = h.answers /\ SameRuns(h, g)
<1> DEFINE c == CancelAllInFlight(h)
           p == UnprimeAllSlots(c, h.active)
           g == HandleCancelSession(h, h.active)
<1>1. Shape(c) /\ Priming(c, k) /\ SameBooks(h, c) /\ SameRuns(h, c)
  BY CancelAllInFlightFields
<1>2. g = [p EXCEPT !.queue = <<>>, !.active = 0]
  BY DEF HandleCancelSession
<1> HIDE DEF c
<1>3. Shape(p) /\ Priming(p, k) /\ SameBooks(c, p) /\ SameRuns(c, p)
  BY <1>1, UnprimeAllSlotsFields
<1> HIDE DEF p, g
<1>4. /\ Shape(g) /\ g.active = 0 /\ g.busy = p.busy /\ g.pending = p.pending
      /\ g.running = p.running /\ g.queue = <<>> /\ g.answers = p.answers
      /\ g.inbox = p.inbox /\ g.primedIds = p.primedIds
  <2>1. 0 \in 0 .. MaxSessions
    BY HostAssumption
  <2> QED
    BY <1>2, <1>3, <2>1 DEF Shape
<1>5. Priming(g, k)
  BY <1>3, <1>4 DEF Priming
<1>6. SameRuns(h, g)
  BY <1>1, <1>3, <1>4 DEF SameRuns
<1> QED
  BY <1>1, <1>3, <1>4, <1>5, <1>6 DEF SameBooks, g

LEMMA ResetFields ==
  ASSUME NEW h, NEW k, Shape(h), Priming(h, k), IsFiniteSet(h.pending)
  PROVE  LET g == ResetPeerScopedState(h)
         IN  /\ Shape(g) /\ Priming(g, k) /\ g.active = 0 /\ g.busy = [w \in Slot |-> FALSE]
             /\ g.pending = {} /\ g.running = Nothing /\ g.queue = <<>>
             /\ g.answers = {} /\ SameRuns(h, g)
<1> DEFINE c == CancelAllInFlight(h)
           g == ResetPeerScopedState(h)
<1>1. Shape(c) /\ Priming(c, k) /\ SameBooks(h, c) /\ SameRuns(h, c)
  BY CancelAllInFlightFields
<1>2. g = [c EXCEPT
             !.active = 0, !.busy = [w \in Slot |-> FALSE], !.primedIds = [w \in Slot |-> {}],
             !.pending = {}, !.running = Nothing, !.queue = <<>>, !.inFlight = {}, !.answers = {}]
  BY DEF ResetPeerScopedState
<1> HIDE DEF c, g
<1>3. /\ Shape(g) /\ g.active = 0 /\ g.busy = [w \in Slot |-> FALSE] /\ g.pending = {}
      /\ g.running = Nothing /\ g.queue = <<>> /\ g.answers = {}
      /\ g.inbox = c.inbox /\ g.primedIds = [w \in Slot |-> {}]
  <2>1. 0 \in 0 .. MaxSessions
    BY HostAssumption
  <2>2. /\ [w \in Slot |-> FALSE] \in [Slot -> BOOLEAN]
        /\ [w \in Slot |-> {}] \in [Slot -> SUBSET (1 .. MaxSessions)]
    OBVIOUS
  <2> QED
    BY <1>1, <1>2, <2>1, <2>2 DEF Shape
<1>4. Priming(g, k)
  BY <1>1, <1>3 DEF Priming, InOrder
<1>5. SameRuns(h, g)
  BY <1>1, <1>3 DEF SameRuns
<1> QED
  BY <1>3, <1>4, <1>5 DEF g

LEMMA NoBooks ==
  ASSUME NEW h, h.pending = {}, h.running = Nothing
  PROVE  Books(h)
<1>1. IsFiniteSet(h.pending)
  BY FS_EmptySet
<1>2. DOMAIN h.running = {} /\ h.running = [id \in DOMAIN h.running |-> h.running[id]]
  BY DEF Nothing
<1> QED
  BY <1>1, <1>2 DEF Books
-----------------------------------------------------------------------------
(* Every step keeps the invariant. *)

LEMMA HInvInit == Init => HInv
<1> SUFFICES ASSUME Init PROVE HInv
  OBVIOUS
<1>1. /\ MaxSessions \in Nat /\ MaxSeq \in Nat /\ 0 \in 0 .. MaxSessions /\ 0 \in 0 .. MaxSeq
      /\ TwoStage \in BOOLEAN
  BY HostAssumption
<1>2. UsedOK(used)
  BY <1>1 DEF Init, UsedOK
<1>3. DOMAIN Nothing = {} /\ Nothing = [x \in DOMAIN Nothing |-> Nothing[x]]
  BY DEF Nothing
<1>4. dispatch = [session |-> 0, coarse |-> FALSE, seq |-> 0, outstanding |-> Nothing]
  BY DEF Init
<1>5. /\ dispatch.session = 0 /\ dispatch.outstanding = Nothing /\ used.sessions = 0
      /\ dispatch \in [ session : 0 .. used.sessions, coarse : BOOLEAN, seq : 0 .. MaxSeq,
                        outstanding : {dispatch.outstanding} ]
  BY <1>1, <1>4 DEF Init
<1>6. DispatchOK(dispatch, used)
  BY <1>3, <1>5 DEF DispatchOK
<1>7. worker = [w \in Slot |-> FreshWorker]
  BY DEF Init
<1>8. WorkersOK(worker)
  BY <1>7 DEF WorkersOK, FreshWorker
<1>9. /\ Shape(main) /\ main.inbox = [w \in Slot |-> <<>>] /\ main.queue = <<>>
      /\ main.primedIds = [w \in Slot |-> {}] /\ main.pending = {}
      /\ main.running = Nothing /\ main.answers = {} /\ main.active = 0
  <2>1. /\ [w \in Slot |-> FALSE] \in [Slot -> BOOLEAN]
        /\ [w \in Slot |-> {}] \in [Slot -> SUBSET (1 .. MaxSessions)]
    OBVIOUS
  <2> QED
    BY <1>1, <2>1 DEF Init, IdleMain, Shape
<1>10. Priming(main, worker)
  BY <1>7, <1>9, ListFacts DEF Priming, InboxOK, InOrder
<1>11. Books(main)
  BY <1>9, NoBooks
<1>12. Holds(main, dispatch, used, {})
  BY <1>3, <1>5, <1>9 DEF Holds
<1>13. QueueOK(main, dispatch)
  BY <1>9, NothingQueued
<1>14. LinkOK(link, main, dispatch)
  BY <1>5, <1>9 DEF Init, LinkOK
<1> QED
  BY <1>2, <1>6, <1>8, <1>9, <1>10, <1>11, <1>12, <1>13, <1>14 DEF HInv, HostOK

LEMMA ConnectKeeps == HInv /\ Connect => HInv'
<1> SUFFICES ASSUME HInv, Connect PROVE HInv'
  OBVIOUS
<1> DEFINE s == dispatch.session
<1>1. /\ link = "down" /\ link' = "up" /\ worker' = worker /\ dispatch' = dispatch /\ used' = used
      /\ main' = IF s # 0 THEN HandleStartSession(main, s) ELSE main
  BY DEF Connect
<1>2. /\ UsedOK(used) /\ DispatchOK(dispatch, used) /\ WorkersOK(worker)
      /\ HostOK(main, worker, dispatch, used, {}) /\ main.active = 0 /\ main.queue = <<>>
      /\ Shape(main) /\ Priming(main, worker) /\ Books(main) /\ Holds(main, dispatch, used, {})
  BY <1>1 DEF HInv, LinkOK, HostOK
<1>3. s \in 0 .. MaxSessions
  <2>1. MaxSessions \in Nat
    BY HostAssumption
  <2> QED
    BY <1>2, <2>1 DEF DispatchOK, UsedOK
<1>4. CASE s = 0
  BY <1>1, <1>2, <1>4 DEF HInv, LinkOK
<1>5. CASE s # 0
  <2>1. main' = HandleStartSession(main, s)
    BY <1>1, <1>5
  <2>2. /\ Shape(main') /\ Priming(main', worker) /\ main'.active = s
        /\ main'.pending = main.pending /\ main'.running = main.running
        /\ main'.queue = main.queue /\ main'.answers = main.answers
    BY <1>2, <1>3, <2>1, HandleStartSessionFields
  <2>3. Books(main') /\ Holds(main', dispatch, used, {})
    BY <1>2, <2>2, SameRunning, SamePlaces
  <2>4. QueueOK(main', dispatch)
    BY <1>2, <2>2, NothingQueued
  <2> QED
    BY <1>1, <1>2, <2>2, <2>3, <2>4 DEF HInv, HostOK, LinkOK
<1> QED
  BY <1>4, <1>5

LEMMA DisconnectKeeps == HInv /\ Disconnect => HInv'
<1> SUFFICES ASSUME HInv, Disconnect PROVE HInv'
  OBVIOUS
<1>1. /\ link' = "down" /\ worker' = worker /\ main' = ResetPeerScopedState(main)
      /\ used' = [used EXCEPT !.drops = @ + 1]
      /\ dispatch' = [dispatch EXCEPT !.outstanding = Nothing]
  BY DEF Disconnect
<1>2. /\ UsedOK(used) /\ DispatchOK(dispatch, used) /\ WorkersOK(worker)
      /\ Shape(main) /\ Priming(main, worker) /\ Books(main) /\ Holds(main, dispatch, used, {})
  BY DEF HInv, HostOK
<1>3. UsedOK(used') /\ used'.sessions = used.sessions
  BY <1>1, <1>2 DEF UsedOK
<1>4. DispatchOK(dispatch', used') /\ dispatch'.outstanding = Nothing
  BY <1>1, <1>2, <1>3 DEF DispatchOK, Nothing
<1>5. /\ Shape(main') /\ Priming(main', worker) /\ main'.active = 0 /\ main'.pending = {}
      /\ main'.running = Nothing /\ main'.queue = <<>> /\ main'.answers = {}
  BY <1>1, <1>2, ResetFields DEF Books
<1>6. Books(main') /\ QueueOK(main', dispatch')
  BY <1>5, NoBooks, NothingQueued
<1>7. Holds(main', dispatch', used', {})
  BY <1>4, <1>5 DEF Holds, Nothing
<1> QED
  BY <1>1, <1>2, <1>3, <1>4, <1>5, <1>6, <1>7 DEF HInv, HostOK, LinkOK

LEMMA HostRestartsKeeps == HInv /\ HostRestarts => HInv'
<1> SUFFICES ASSUME HInv, HostRestarts PROVE HInv'
  OBVIOUS
<1>1. /\ link' = "down" /\ worker' = [w \in Slot |-> FreshWorker] /\ main' = IdleMain
      /\ used' = [used EXCEPT !.drops = @ + 1]
      /\ dispatch' = [dispatch EXCEPT !.outstanding = Nothing]
  BY DEF HostRestarts
<1>2. UsedOK(used) /\ DispatchOK(dispatch, used)
  BY DEF HInv
<1>3. UsedOK(used') /\ used'.sessions = used.sessions
  BY <1>1, <1>2 DEF UsedOK
<1>4. DispatchOK(dispatch', used') /\ dispatch'.outstanding = Nothing
  BY <1>1, <1>2, <1>3 DEF DispatchOK, Nothing
<1>5. WorkersOK(worker')
  BY <1>1 DEF WorkersOK, FreshWorker
<1>6. /\ Shape(main') /\ main'.inbox = [w \in Slot |-> <<>>] /\ main'.queue = <<>>
      /\ main'.primedIds = [w \in Slot |-> {}] /\ main'.pending = {}
      /\ main'.running = Nothing /\ main'.answers = {} /\ main'.active = 0
  <2>1. 0 \in 0 .. MaxSessions
    BY HostAssumption
  <2>2. /\ [w \in Slot |-> FALSE] \in [Slot -> BOOLEAN]
        /\ [w \in Slot |-> {}] \in [Slot -> SUBSET (1 .. MaxSessions)]
    OBVIOUS
  <2> QED
    BY <1>1, <2>1, <2>2 DEF IdleMain, Shape
<1>7. Priming(main', worker')
  BY <1>1, <1>6, ListFacts DEF Priming, InboxOK, InOrder
<1>8. Books(main') /\ QueueOK(main', dispatch')
  BY <1>6, NoBooks, NothingQueued
<1>9. Holds(main', dispatch', used', {})
  BY <1>4, <1>6 DEF Holds, Nothing
<1> QED
  BY <1>1, <1>3, <1>4, <1>5, <1>6, <1>7, <1>8, <1>9 DEF HInv, HostOK, LinkOK

LEMMA StartSessionKeeps == HInv /\ StartSession => HInv'
<1> SUFFICES ASSUME HInv, StartSession PROVE HInv'
  OBVIOUS
<1> DEFINE s == used.sessions + 1
<1>1. /\ dispatch.session = 0 /\ used.sessions < MaxSessions
      /\ used' = [used EXCEPT !.sessions = s]
      /\ dispatch' = [ session |-> s, coarse |-> TwoStage, seq |-> 0, outstanding |-> Nothing ]
      /\ main' = IF link = "up" THEN HandleStartSession(main, s) ELSE main
      /\ worker' = worker /\ link' = link
  BY DEF StartSession
<1>2. /\ UsedOK(used) /\ DispatchOK(dispatch, used) /\ WorkersOK(worker)
      /\ LinkOK(link, main, dispatch) /\ HostOK(main, worker, dispatch, used, {})
      /\ Shape(main) /\ Priming(main, worker) /\ Books(main)
      /\ Holds(main, dispatch, used, {}) /\ QueueOK(main, dispatch)
  BY DEF HInv, HostOK
<1>3. /\ MaxSessions \in Nat /\ MaxSeq \in Nat /\ TwoStage \in BOOLEAN
  BY HostAssumption
<1>4. s \in 1 .. MaxSessions /\ used.sessions \in Nat
  BY <1>1, <1>2, <1>3 DEF UsedOK
<1>5. /\ UsedOK(used') /\ used'.sessions = s
  BY <1>1, <1>2, <1>4 DEF UsedOK
<1>6. /\ DispatchOK(dispatch', used') /\ dispatch'.outstanding = Nothing /\ dispatch'.session = s
  BY <1>1, <1>3, <1>4, <1>5 DEF DispatchOK, Nothing
<1>7. main.queue = <<>>
  <2>1. \A i \in 1 .. Len(main.queue) : FALSE
    BY <1>1, <1>2 DEF QueueOK, DispatchOK
  <2>2. IsList(main.queue)
    BY <1>2 DEF QueueOK
  <2>3. Len(main.queue) \in Nat /\ ~(1 \in 1 .. Len(main.queue))
    BY <2>1, <2>2, ListFacts
  <2>4. Len(main.queue) = 0
    BY <2>3
  <2> QED
    BY <2>2, <2>4, ListFacts
<1>8. Holds(main, dispatch', used', {})
  <2>1. s > used.sessions /\ used.sessions <= s
    BY <1>4
  <2> QED
    BY <1>2, <1>5, <1>6, <2>1, NothingOutstanding
<1>9. CASE link = "up"
  <2>1. main' = HandleStartSession(main, s) /\ s \in 0 .. MaxSessions
    BY <1>1, <1>4, <1>9
  <2>2. /\ Shape(main') /\ Priming(main', worker) /\ main'.active = s
        /\ main'.pending = main.pending /\ main'.running = main.running
        /\ main'.queue = main.queue /\ main'.answers = main.answers
    BY <1>2, <2>1, HandleStartSessionFields
  <2>3. Books(main') /\ Holds(main', dispatch', used', {})
    BY <1>2, <1>8, <2>2, SameRunning, SamePlaces
  <2>4. QueueOK(main', dispatch')
    BY <1>7, <2>2, NothingQueued
  <2> QED
    BY <1>1, <1>2, <1>5, <1>6, <1>9, <2>2, <2>3, <2>4 DEF HInv, HostOK, LinkOK
<1>10. CASE link # "up"
  <2>1. main' = main /\ QueueOK(main, dispatch')
    BY <1>1, <1>7, <1>10, NothingQueued
  <2> QED
    BY <1>1, <1>2, <1>5, <1>6, <1>8, <1>10, <2>1 DEF HInv, HostOK, LinkOK
<1> QED
  BY <1>9, <1>10

LEMMA EndSessionKeeps == HInv /\ EndSession => HInv'
<1> SUFFICES ASSUME HInv, EndSession PROVE HInv'
  OBVIOUS
<1>1. /\ dispatch.session # 0
      /\ dispatch' = [dispatch EXCEPT !.session = 0, !.outstanding = Nothing]
      /\ main' = IF link = "up" THEN HandleCancelSession(main, dispatch.session) ELSE main
      /\ worker' = worker /\ link' = link /\ used' = used
  BY DEF EndSession
<1>2. /\ UsedOK(used) /\ DispatchOK(dispatch, used) /\ WorkersOK(worker)
      /\ LinkOK(link, main, dispatch) /\ HostOK(main, worker, dispatch, used, {})
      /\ Shape(main) /\ Priming(main, worker) /\ Books(main)
      /\ Holds(main, dispatch, used, {}) /\ QueueOK(main, dispatch)
  BY DEF HInv, HostOK
<1>3. used.sessions \in Nat /\ 0 \in 0 .. used.sessions
  <2>1. MaxSessions \in Nat
    BY HostAssumption
  <2> QED
    BY <1>2, <2>1 DEF UsedOK
<1>4. /\ DispatchOK(dispatch', used) /\ dispatch'.outstanding = Nothing /\ dispatch'.session = 0
  BY <1>1, <1>2, <1>3 DEF DispatchOK, Nothing
<1>5. Holds(main, dispatch', used, {})
  BY <1>2, <1>3, <1>4, NothingOutstanding
<1>6. CASE link = "up"
  <2>1. main.active = dispatch.session
    BY <1>2, <1>6 DEF LinkOK
  <2>2. main' = HandleCancelSession(main, main.active)
    BY <1>1, <1>6, <2>1
  <2>3. /\ Shape(main') /\ Priming(main', worker) /\ main'.active = 0
        /\ main'.pending = main.pending /\ main'.running = main.running
        /\ main'.queue = <<>> /\ main'.answers = main.answers
    BY <1>2, <2>2, HandleCancelSessionFields DEF Books
  <2>4. Books(main') /\ QueueOK(main', dispatch')
    BY <1>2, <2>3, SameRunning, NothingQueued
  <2>5. Holds(main', dispatch', used, {})
    <3>1. DOMAIN dispatch'.outstanding \ {} = {}
      BY <1>4 DEF Nothing
    <3> QED
      BY <1>5, <2>3, <3>1 DEF Holds
  <2> QED
    BY <1>1, <1>2, <1>4, <1>6, <2>3, <2>4, <2>5 DEF HInv, HostOK, LinkOK
<1>7. CASE link # "up"
  <2>1. main' = main /\ main.queue = <<>>
    BY <1>1, <1>2, <1>7 DEF LinkOK
  <2>2. QueueOK(main, dispatch')
    BY <2>1, NothingQueued
  <2> QED
    BY <1>1, <1>2, <1>4, <1>5, <1>7, <2>1, <2>2 DEF HInv, HostOK, LinkOK
<1> QED
  BY <1>6, <1>7

LEMMA RenumberKeeps == HInv /\ Renumber => HInv'
<1> SUFFICES ASSUME HInv, Renumber PROVE HInv'
  OBVIOUS
<1>1. /\ dispatch.outstanding = Nothing
      /\ used' = [used EXCEPT !.renumberings = @ + 1]
      /\ dispatch' = [dispatch EXCEPT !.coarse = FALSE, !.seq = 0]
      /\ main' = main /\ worker' = worker /\ link' = link
  BY DEF Renumber
<1>2. /\ UsedOK(used) /\ DispatchOK(dispatch, used) /\ WorkersOK(worker)
      /\ LinkOK(link, main, dispatch) /\ HostOK(main, worker, dispatch, used, {})
      /\ Holds(main, dispatch, used, {}) /\ QueueOK(main, dispatch)
  BY DEF HInv, HostOK
<1>3. UsedOK(used') /\ used'.sessions = used.sessions
  BY <1>1, <1>2 DEF UsedOK
<1>4. 0 \in 0 .. MaxSeq
  BY HostAssumption
<1>5. /\ DispatchOK(dispatch', used') /\ dispatch'.outstanding = dispatch.outstanding
      /\ dispatch'.session = dispatch.session
  BY <1>1, <1>2, <1>3, <1>4 DEF DispatchOK, Nothing
<1>6. Holds(main, dispatch', used', {}) /\ QueueOK(main, dispatch')
  BY <1>2, <1>3, <1>5 DEF Holds, QueueOK
<1> QED
  BY <1>1, <1>2, <1>3, <1>5, <1>6 DEF HInv, HostOK, LinkOK

(* A batch just assigned is the host's to take. *)
Arrives(b) ==
  /\ HostOK(main, worker, dispatch', used, {b.id}) /\ Assigned(b, dispatch')
  /\ DispatchOK(dispatch', used) /\ main' = HandleBatchAssign(main, b)
  /\ b.id = <<dispatch.session, dispatch.seq + 1>>
  /\ DOMAIN dispatch'.outstanding = DOMAIN dispatch.outstanding \cup {b.id}
  /\ dispatch'.session = dispatch.session /\ dispatch'.seq = dispatch.seq + 1

LEMMA AssignArrives ==
  ASSUME NEW ps \in Batches, HInv, Assign(ps)
  PROVE  /\ link = "up" /\ main.active = dispatch'.session
         /\ worker' = worker /\ link' = link /\ used' = used
         /\ \E b : Arrives(b)
<1> DEFINE id == <<dispatch.session, dispatch.seq + 1>>
           b == [id |-> id, policies |-> ps]
<1>1. /\ link = "up" /\ dispatch.session # 0 /\ dispatch.seq < MaxSeq
      /\ dispatch' = [dispatch EXCEPT !.seq = @ + 1, !.outstanding = With(@, id, b)]
      /\ main' = HandleBatchAssign(main, b)
      /\ worker' = worker /\ link' = link /\ used' = used
  BY DEF Assign
<1>2. /\ UsedOK(used) /\ DispatchOK(dispatch, used) /\ WorkersOK(worker)
      /\ LinkOK(link, main, dispatch) /\ HostOK(main, worker, dispatch, used, {})
      /\ Shape(main) /\ Priming(main, worker) /\ Books(main)
      /\ Holds(main, dispatch, used, {}) /\ QueueOK(main, dispatch)
  BY DEF HInv, HostOK
<1>3. /\ id[1] = dispatch.session /\ id[2] = dispatch.seq + 1 /\ id = <<dispatch.session, id[2]>>
      /\ b.id = id /\ dispatch.seq \in Nat
  BY <1>2 DEF DispatchOK
<1>4. id \notin DOMAIN dispatch.outstanding
  <2>1. \A i \in DOMAIN dispatch.outstanding : i[2] \in 1 .. dispatch.seq
    BY <1>2 DEF DispatchOK
  <2>2. id[2] \notin 1 .. dispatch.seq
    BY <1>3
  <2> QED
    BY <2>1, <2>2
<1>5. b = [id |-> id, policies |-> ps]
  OBVIOUS
<1> HIDE DEF id, b
<1>6. /\ dispatch'.session = dispatch.session /\ dispatch'.seq = dispatch.seq + 1
      /\ dispatch'.coarse = dispatch.coarse
      /\ dispatch'.outstanding = With(dispatch.outstanding, id, b)
      /\ dispatch' = [ session |-> dispatch'.session, coarse |-> dispatch'.coarse,
                       seq |-> dispatch'.seq, outstanding |-> dispatch'.outstanding ]
  BY <1>1, <1>2 DEF DispatchOK
<1>7. /\ DOMAIN dispatch'.outstanding = DOMAIN dispatch.outstanding \cup {id}
      /\ dispatch'.outstanding = [i \in DOMAIN dispatch'.outstanding |-> dispatch'.outstanding[i]]
      /\ dispatch'.outstanding[id] = b
      /\ \A i \in DOMAIN dispatch.outstanding : dispatch'.outstanding[i] = dispatch.outstanding[i]
  BY <1>4, <1>6 DEF With
<1>8. DispatchOK(dispatch', used)
  <2>1. /\ dispatch.seq + 1 \in 0 .. MaxSeq /\ dispatch.seq + 1 \in 1 .. dispatch.seq + 1
        /\ \A n \in 1 .. dispatch.seq : n \in 1 .. dispatch.seq + 1
    <3>1. MaxSeq \in Nat
      BY HostAssumption
    <3> QED
      BY <1>1, <1>3, <3>1
  <2>2. /\ dispatch.session \in 0 .. used.sessions /\ dispatch.coarse \in BOOLEAN
        /\ \A i \in DOMAIN dispatch.outstanding :
             /\ i = <<dispatch.session, i[2]>> /\ i[2] \in 1 .. dispatch.seq
             /\ \E x \in Batches : dispatch.outstanding[i] = [id |-> i, policies |-> x]
    BY <1>2 DEF DispatchOK
  <2>3. \A i \in DOMAIN dispatch'.outstanding :
          /\ i = <<dispatch.session, i[2]>> /\ i[2] \in 1 .. dispatch'.seq
          /\ \E x \in Batches : dispatch'.outstanding[i] = [id |-> i, policies |-> x]
    <3>1. /\ id = <<dispatch.session, id[2]>> /\ id[2] \in 1 .. dispatch'.seq
          /\ dispatch'.outstanding[id] = [id |-> id, policies |-> ps]
      BY <1>3, <1>5, <1>6, <1>7, <2>1
    <3>2. \A i \in DOMAIN dispatch.outstanding :
            /\ i = <<dispatch.session, i[2]>> /\ i[2] \in 1 .. dispatch'.seq
            /\ \E x \in Batches : dispatch'.outstanding[i] = [id |-> i, policies |-> x]
      BY <1>6, <1>7, <2>1, <2>2
    <3> QED
      BY <1>7, <3>1, <3>2
  <2> QED
    BY <1>1, <1>6, <1>7, <2>1, <2>2, <2>3 DEF DispatchOK
<1>9. Assigned(b, dispatch') /\ main.active = dispatch'.session
  BY <1>1, <1>2, <1>3, <1>6, <1>7 DEF Assigned, LinkOK
<1>10. HostOK(main, worker, dispatch', used, {b.id})
  <2>1. ~InQueue(main, id) /\ id \notin DOMAIN main.running /\ ~IsAnswered(main, id)
    BY <1>2, <1>3, <1>4 DEF QueueOK, Holds, InQueue, IsAnswered
  <2>2. Holds(main, dispatch', used, {b.id})
    BY <1>2, <1>3, <1>6, <1>7, <2>1 DEF Holds
  <2>3. QueueOK(main, dispatch')
    BY <1>2, <1>6, <1>7 DEF QueueOK
  <2> QED
    BY <1>2, <2>2, <2>3 DEF HostOK
<1>11. Arrives(b)
  BY <1>1, <1>3, <1>6, <1>7, <1>8, <1>9, <1>10 DEF Arrives, id
<1> QED
  BY <1>1, <1>9, <1>11

LEMMA AssignKeeps == ASSUME NEW ps \in Batches PROVE HInv /\ Assign(ps) => HInv'
<1> SUFFICES ASSUME HInv, Assign(ps) PROVE HInv'
  OBVIOUS
<1>1. /\ UsedOK(used) /\ WorkersOK(worker)
      /\ link = "up" /\ main.active = dispatch'.session
      /\ worker' = worker /\ link' = link /\ used' = used
  BY AssignArrives DEF HInv
<1>2. PICK b : Arrives(b)
  BY AssignArrives
<1> DEFINE d == dispatch'
<1>3. /\ HostOK(main, worker, d, used, {b.id}) /\ Assigned(b, d) /\ DispatchOK(d, used)
      /\ main.active = d.session /\ main' = HandleBatchAssign(main, b)
  BY <1>1, <1>2 DEF Arrives
<1> HIDE DEF d
<1>4. /\ HostOK(HandleBatchAssign(main, b), worker, d, used, {})
      /\ HandleBatchAssign(main, b).active = main.active
  BY ONLY <1>1, <1>3, HandleBatchAssignKeeps
<1> QED
  BY <1>1, <1>3, <1>4 DEF HInv, LinkOK, d

LEMMA ReceiveAnswerKeeps ==
  ASSUME NEW a \in main.answers PROVE HInv /\ ReceiveAnswer(a) => HInv'
<1> SUFFICES ASSUME HInv, ReceiveAnswer(a) PROVE HInv'
  OBVIOUS
<1>1. /\ dispatch' = [dispatch EXCEPT !.outstanding = Without(@, a.id)]
      /\ main' = [main EXCEPT
                !.answers = @ \ {a},
                !.inFlight = IF a.kind \in {"result", "partial"} THEN @ \ {a.id} ELSE @]
      /\ worker' = worker /\ link' = link /\ used' = used
  BY DEF ReceiveAnswer
<1>2. /\ UsedOK(used) /\ DispatchOK(dispatch, used) /\ WorkersOK(worker)
      /\ LinkOK(link, main, dispatch) /\ HostOK(main, worker, dispatch, used, {})
      /\ Shape(main) /\ Priming(main, worker) /\ Books(main)
      /\ Holds(main, dispatch, used, {}) /\ QueueOK(main, dispatch)
  BY DEF HInv, HostOK
<1>3. /\ Shape(main') /\ main'.active = main.active /\ main'.inbox = main.inbox
      /\ main'.primedIds = main.primedIds /\ main'.pending = main.pending
      /\ main'.running = main.running /\ main'.queue = main.queue
      /\ main'.answers = main.answers \ {a}
  BY <1>1, <1>2 DEF Shape
<1>4. /\ dispatch'.session = dispatch.session /\ dispatch'.seq = dispatch.seq
      /\ dispatch'.coarse = dispatch.coarse
      /\ dispatch'.outstanding = Without(dispatch.outstanding, a.id)
      /\ dispatch' = [ session |-> dispatch'.session, coarse |-> dispatch'.coarse,
                       seq |-> dispatch'.seq, outstanding |-> dispatch'.outstanding ]
  BY <1>1, <1>2 DEF DispatchOK
<1>5. /\ DOMAIN dispatch'.outstanding = DOMAIN dispatch.outstanding \ {a.id}
      /\ dispatch'.outstanding = [i \in DOMAIN dispatch'.outstanding |-> dispatch'.outstanding[i]]
      /\ \A i \in DOMAIN dispatch'.outstanding : dispatch'.outstanding[i] = dispatch.outstanding[i]
  BY <1>4 DEF Without
<1>6. DispatchOK(dispatch', used)
  BY <1>2, <1>4, <1>5 DEF DispatchOK
<1>7. IsAnswered(main, a.id) /\ (a.id[1] = dispatch.session => a.id \in DOMAIN dispatch.outstanding)
  BY <1>2 DEF IsAnswered, Holds
<1>8. a.id \in DOMAIN dispatch.outstanding =>
        ~InQueue(main, a.id) /\ a.id \notin DOMAIN main.running
  BY <1>2, <1>7 DEF Holds, Places
<1>9. Holds(main', dispatch', used, {})
  <2>1. ASSUME NEW i \in DOMAIN dispatch.outstanding, i # a.id
        PROVE  (InQueue(main', i) \/ i \in DOMAIN main'.running \/ IsAnswered(main', i))
               /\ Places(main', i)
    <3>1. (InQueue(main, i) \/ i \in DOMAIN main.running \/ IsAnswered(main, i)) /\ Places(main, i)
      BY <1>2 DEF Holds
    <3>2. (InQueue(main', i) <=> InQueue(main, i)) /\ (IsAnswered(main', i) <=> IsAnswered(main, i))
      BY <1>3, <2>1 DEF InQueue, IsAnswered
    <3> QED
      BY <1>3, <3>1, <3>2 DEF Places
  <2>2. \A i \in DOMAIN main'.running :
          i[1] \in 1 .. used.sessions /\ (i[1] = dispatch.session => i \in DOMAIN dispatch'.outstanding)
    BY <1>2, <1>3, <1>5, <1>7, <1>8 DEF Holds
  <2>3. \A x \in main'.answers :
          x.id[1] = dispatch.session => x.id \in DOMAIN dispatch'.outstanding
    BY <1>2, <1>3, <1>5 DEF Holds
  <2>4. /\ \A x \in main'.answers :
             /\ x.kind \in {"result", "partial", "no_active_session", "host_no_free_slots"}
             /\ x.id[1] \in 1 .. used.sessions
        /\ \A x, y \in main'.answers : x.id = y.id /\ x.id[1] = dispatch.session => x = y
    BY <1>2, <1>3 DEF Holds
  <2> QED
    BY <1>4, <1>5, <2>1, <2>2, <2>3, <2>4 DEF Holds
<1>10. QueueOK(main', dispatch')
  <2>1. \A i \in 1 .. Len(main.queue) : main.queue[i].id # a.id
    BY <1>2, <1>8 DEF QueueOK, InQueue
  <2> QED
    BY <1>2, <1>3, <1>4, <1>5, <2>1 DEF QueueOK
<1>11. Priming(main', worker) /\ Books(main')
  BY <1>2, <1>3, SameRunning DEF Priming
<1>12. LinkOK(link, main', dispatch')
  <2>1. link = "up"
    BY <1>2 DEF LinkOK
  <2> QED
    BY <1>2, <1>3, <1>4, <2>1 DEF LinkOK
<1> QED
  BY <1>1, <1>2, <1>3, <1>6, <1>9, <1>10, <1>11, <1>12 DEF HInv, HostOK

(* A worker changes, but neither whether it lives nor what it has primed.  *)
LEMMA SameWorkers ==
  ASSUME NEW h, NEW k, Priming(h, k), NEW l,
         \A w \in Slot : l[w].alive = k[w].alive /\ l[w].primed = k[w].primed
  PROVE  Priming(h, l)
BY DEF Priming

(* What a run that ends leaves to be shown: the main thread sees a reply.  *)
LEMMA ReplyKeeps ==
  ASSUME HInv, NEW w \in Slot, NEW r, NEW ok, NEW evaluations,
         NEW h, HostOK(h, worker', dispatch, used, {}),
         h.active = main.active, h.running = main.running, h.queue = main.queue,
         h.answers = main.answers,
         main' = HandleReply(h, w, r, ok, evaluations), WorkersOK(worker'),
         link' = link, dispatch' = dispatch, UsedOK(used'), used'.sessions = used.sessions
  PROVE  HInv'
<1>1. /\ UsedOK(used) /\ DispatchOK(dispatch, used) /\ LinkOK(link, main, dispatch)
  BY DEF HInv
<1> DEFINE k == worker'
           g == HandleReply(h, w, r, ok, evaluations)
<1>2. HostOK(h, k, dispatch, used, {})
  OBVIOUS
<1> HIDE DEF k, g
<1>3. /\ HostOK(g, k, dispatch, used, {}) /\ g.active = h.active
      /\ h.running = Nothing => g = h
  BY <1>1, <1>2, HandleReplyKeeps DEF g
<1>4. main' = g
  BY DEF g
<1>5. LinkOK(link, g, dispatch)
  BY <1>1, <1>3 DEF LinkOK
<1>6. HostOK(g, k, dispatch, used', {})
  BY <1>3 DEF HostOK, Holds
<1>7. DispatchOK(dispatch, used')
  BY <1>1 DEF DispatchOK
<1> QED
  BY <1>4, <1>5, <1>6, <1>7 DEF HInv, k

LEMMA ReadMessageKeeps ==
  ASSUME NEW w \in Slot PROVE HInv /\ ReadMessage(w) => HInv'
<1> SUFFICES ASSUME HInv, ReadMessage(w) PROVE HInv'
  OBVIOUS
<1> DEFINE q == main.inbox[w]
           m == Head(q)
           h == [main EXCEPT !.inbox = [main.inbox EXCEPT ![w] = Tail(q)]]
           unknown == m.kind = "run" /\ m.run.session \notin worker[w].primed
           L == CASE m.kind = "prime" -> worker[w].primed \cup {m.session}
                  [] m.kind = "unprime" -> worker[w].primed \ {m.session}
                  [] OTHER -> worker[w].primed
<1>1. /\ UsedOK(used) /\ DispatchOK(dispatch, used) /\ WorkersOK(worker)
      /\ HostOK(main, worker, dispatch, used, {})
      /\ Shape(main) /\ Priming(main, worker) /\ Books(main)
      /\ Holds(main, dispatch, used, {}) /\ QueueOK(main, dispatch)
  BY DEF HInv, HostOK
<1>2. /\ worker[w].alive /\ q # <<>> /\ InboxOK(q) /\ IsList(q)
      /\ InOrder(q, worker[w].primed, main.primedIds[w])
  BY <1>1 DEF ReadMessage, Priming, InboxOK
<1>3. /\ h = [main EXCEPT !.inbox[w] = Tail(@)]
      /\ main' = IF unknown THEN HandleReply(h, w, m.run, FALSE, <<>>) ELSE h
      /\ link' = link /\ dispatch' = dispatch /\ used' = used
  BY <1>1 DEF ReadMessage, Shape
<1>4. worker' =
        CASE m.kind = "prime"   -> [worker EXCEPT ![w].primed = @ \cup {m.session}]
          [] m.kind = "unprime" -> [worker EXCEPT ![w].primed = @ \ {m.session}]
          [] m.kind = "cancel"  -> [worker EXCEPT ![w].cancelled = @ \cup {m.run}]
          [] OTHER -> [worker EXCEPT ![w].cancelled = @ \ {m.run},
                                     ![w].runs = IF unknown THEN @ ELSE @ \cup {m}]
  BY DEF ReadMessage
<1>5. worker[w] = [ alive |-> worker[w].alive, primed |-> worker[w].primed,
                    cancelled |-> worker[w].cancelled, runs |-> worker[w].runs ]
  BY <1>1 DEF WorkersOK
<1>6. /\ WorkersOK(worker') /\ worker'[w].alive = worker[w].alive /\ worker'[w].primed = L
      /\ \A v \in Slot \ {w} : worker'[v] = worker[v]
  <2>1. worker = [v \in Slot |-> worker[v]] /\ worker[w].alive \in BOOLEAN
    BY <1>1 DEF WorkersOK
  <2>2. CASE m.kind = "prime"
    <3>1. worker' = [worker EXCEPT ![w] = [worker[w] EXCEPT !.primed = worker[w].primed \cup {m.session}]]
      BY <1>4, <2>2
    <3> QED
      BY <1>1, <1>5, <2>1, <2>2, <3>1 DEF WorkersOK
  <2>3. CASE m.kind = "unprime"
    <3>1. worker' = [worker EXCEPT ![w] = [worker[w] EXCEPT !.primed = worker[w].primed \ {m.session}]]
      BY <1>4, <2>3
    <3> QED
      BY <1>1, <1>5, <2>1, <2>3, <3>1 DEF WorkersOK
  <2>4. CASE m.kind = "cancel"
    <3>1. worker' = [worker EXCEPT ![w] = [worker[w] EXCEPT !.cancelled = worker[w].cancelled \cup {m.run}]]
      BY <1>4, <2>4
    <3> QED
      BY <1>1, <1>5, <2>1, <2>4, <3>1 DEF WorkersOK
  <2>5. CASE m.kind \notin {"prime", "unprime", "cancel"}
    <3> DEFINE runs == IF unknown THEN worker[w].runs ELSE worker[w].runs \cup {m}
    <3>1. worker' = [worker EXCEPT ![w] = [worker[w] EXCEPT
                       !.cancelled = worker[w].cancelled \ {m.run}, !.runs = runs]]
      BY <1>4, <2>5
    <3> HIDE DEF runs
    <3> QED
      BY <1>1, <1>5, <2>1, <2>5, <3>1 DEF WorkersOK
  <2> QED
    BY <2>2, <2>3, <2>4, <2>5
<1>7. /\ \A s : Primes(m, s) \/ (s \in worker[w].primed /\ ~Unprimes(m, s)) => s \in L
  BY DEF Primes, Unprimes
<1> HIDE DEF m, L
<1>8. InOrder(Tail(q), L, main.primedIds[w])
  BY <1>2, <1>7, InOrderRead DEF m
<1>9. InboxOK(Tail(q))
  <2>1. /\ IsList(Tail(q)) /\ Len(q) \in Nat \ {0} /\ Len(Tail(q)) = Len(q) - 1
        /\ \A i \in 1 .. Len(q) - 1 : Tail(q)[i] = q[i + 1]
    BY <1>2, ListTail
  <2>2. \A i \in 1 .. Len(q) - 1 : i + 1 \in 1 .. Len(q)
    BY <2>1
  <2> QED
    BY <1>2, <2>1, <2>2 DEF InboxOK
<1>10. /\ Shape(h) /\ h.active = main.active /\ h.primedIds = main.primedIds
       /\ h.pending = main.pending /\ h.running = main.running
       /\ h.queue = main.queue /\ h.answers = main.answers
       /\ h.inbox[w] = Tail(q) /\ \A v \in Slot \ {w} : h.inbox[v] = main.inbox[v]
  BY <1>1 DEF Shape
<1> HIDE DEF h, q
<1>11. Priming(h, worker')
  <2>1. ASSUME NEW v \in Slot
        PROVE  /\ InboxOK(h.inbox[v])
               /\ worker'[v].alive => InOrder(h.inbox[v], worker'[v].primed, h.primedIds[v])
    <3>1. CASE v = w
      BY <1>6, <1>8, <1>9, <1>10, <3>1
    <3>2. CASE v # w
      BY <1>1, <1>6, <1>10, <3>2 DEF Priming
    <3> QED
      BY <3>1, <3>2
  <2> QED
    BY <2>1 DEF Priming
<1>12. HostOK(h, worker', dispatch, used, {})
  <2> DEFINE k == worker'
  <2>1. Priming(h, k)
    BY <1>11
  <2> HIDE DEF k
  <2>2. HostOK(h, k, dispatch, used, {})
    BY <1>1, <1>10, <2>1, SameBooksKeep
  <2> QED
    BY <2>2 DEF k
<1>13. CASE unknown
  <2>1. main' = HandleReply(h, w, m.run, FALSE, <<>>)
    BY <1>3, <1>13
  <2>2. HInv /\ UsedOK(used') /\ used'.sessions = used.sessions
    BY <1>1, <1>3
  <2> DEFINE r == m.run
             none == <<>>
             no == FALSE
  <2>3. /\ main' = HandleReply(h, w, r, no, none)
        /\ link' = link /\ dispatch' = dispatch /\ WorkersOK(worker')
    BY <1>3, <1>6, <2>1
  <2>4. /\ h.active = main.active /\ h.running = main.running /\ h.queue = main.queue
        /\ h.answers = main.answers
    BY <1>10
  <2> HIDE DEF unknown, r, none, no
  <2> QED
    BY ONLY <1>12, <2>2, <2>3, <2>4, w \in Slot, ReplyKeeps
<1>14. CASE ~unknown
  <2>1. main' = h
    BY <1>3, <1>14
  <2>2. LinkOK(link, h, dispatch)
    BY <1>10 DEF HInv, LinkOK
  <2> QED
    BY <1>1, <1>3, <1>6, <1>12, <2>1, <2>2 DEF HInv
<1> QED
  BY <1>13, <1>14

LEMMA EndOfRunKeeps ==
  ASSUME HInv, NEW w \in Slot, NEW r, NEW ok, NEW evaluations,
         main' = HandleReply(main, w, r, ok, evaluations),
         worker' = [v \in Slot |-> worker'[v]],
         \A v \in Slot \ {w} : worker'[v] = worker[v],
         worker'[w] \in [ alive : {worker[w].alive}, primed : {worker[w].primed},
                          cancelled : {worker'[w].cancelled}, runs : {worker'[w].runs} ],
         link' = link, dispatch' = dispatch, UsedOK(used'), used'.sessions = used.sessions
  PROVE  HInv'
<1>1. /\ WorkersOK(worker) /\ HostOK(main, worker, dispatch, used, {})
      /\ Shape(main) /\ Priming(main, worker)
  BY DEF HInv, HostOK
<1>2. \A v \in Slot : worker[v].alive \in BOOLEAN
  BY <1>1 DEF WorkersOK
<1>3. WorkersOK(worker')
  <2>1. ASSUME NEW v \in Slot
        PROVE  worker'[v] \in [ alive : BOOLEAN, primed : {worker'[v].primed},
                                cancelled : {worker'[v].cancelled}, runs : {worker'[v].runs} ]
    <3>1. CASE v = w
      BY <1>2, <3>1
    <3>2. CASE v # w
      BY <1>1, <3>2 DEF WorkersOK
    <3> QED
      BY <3>1, <3>2
  <2> QED
    BY <2>1 DEF WorkersOK
<1>4. \A v \in Slot : worker'[v].alive = worker[v].alive /\ worker'[v].primed = worker[v].primed
  OBVIOUS
<1>5. HostOK(main, worker', dispatch, used, {})
  <2> DEFINE k == worker'
  <2>1. \A v \in Slot : k[v].alive = worker[v].alive /\ k[v].primed = worker[v].primed
    BY <1>4
  <2> HIDE DEF k
  <2>2. Priming(main, k)
    BY <1>1, <2>1, SameWorkers
  <2>3. HostOK(main, k, dispatch, used, {})
    BY <1>1, <2>2 DEF HostOK
  <2> QED
    BY <2>3 DEF k
<1> QED
  BY <1>3, <1>5, ReplyKeeps

LEMMA RunsKeep ==
  ASSUME NEW w \in Slot, NEW m \in worker[w].runs
  PROVE  /\ HInv /\ FinishRun(w, m) => HInv'
         /\ \A i : HInv /\ StopRun(w, m, i) => HInv'
<1>1. ASSUME HInv
      PROVE  /\ worker = [v \in Slot |-> worker[v]]
             /\ worker[w] = [ alive |-> worker[w].alive, primed |-> worker[w].primed,
                              cancelled |-> worker[w].cancelled, runs |-> worker[w].runs ]
             /\ UsedOK(used)
  BY <1>1 DEF HInv, WorkersOK
<1>2. ASSUME HInv, FinishRun(w, m) PROVE HInv'
  <2>1. /\ worker' = [worker EXCEPT ![w].runs = @ \ {m}]
        /\ main' = HandleReply(main, w, m.run, TRUE, m.policies)
        /\ link' = link /\ dispatch' = dispatch /\ used' = used
    BY <1>2 DEF FinishRun
  <2>2. /\ worker' = [v \in Slot |-> worker'[v]] /\ \A v \in Slot \ {w} : worker'[v] = worker[v]
        /\ worker'[w] \in [ alive : {worker[w].alive}, primed : {worker[w].primed},
                            cancelled : {worker'[w].cancelled}, runs : {worker'[w].runs} ]
    BY <1>1, <1>2, <2>1
  <2> QED
    BY <1>1, <1>2, <2>1, <2>2, EndOfRunKeeps
<1>3. ASSUME NEW i, HInv, StopRun(w, m, i) PROVE HInv'
  <2>1. /\ worker' = [worker EXCEPT ![w].runs = @ \ {m}, ![w].cancelled = @ \ {m.run}]
        /\ main' = HandleReply(main, w, m.run, FALSE, SubSeq(m.policies, 1, i))
        /\ link' = link /\ dispatch' = dispatch
        /\ used' = used \/ used' = [used EXCEPT !.faults = @ + 1]
    BY <1>3 DEF StopRun
  <2>2. /\ worker' = [v \in Slot |-> worker'[v]] /\ \A v \in Slot \ {w} : worker'[v] = worker[v]
        /\ worker'[w] \in [ alive : {worker[w].alive}, primed : {worker[w].primed},
                            cancelled : {worker'[w].cancelled}, runs : {worker'[w].runs} ]
    BY <1>1, <1>3, <2>1
  <2>3. UsedOK(used') /\ used'.sessions = used.sessions
    BY <1>1, <1>3, <2>1 DEF UsedOK
  <2> QED
    BY <1>3, <2>1, <2>2, <2>3, EndOfRunKeeps
<1> QED
  BY <1>2, <1>3

LEMMA WorkerCrashesKeeps ==
  ASSUME NEW w \in Slot PROVE HInv /\ WorkerCrashes(w) => HInv'
<1> SUFFICES ASSUME HInv, WorkerCrashes(w) PROVE HInv'
  OBVIOUS
<1>1. /\ used' = [used EXCEPT !.faults = @ + 1]
      /\ worker' = [worker EXCEPT ![w] = [FreshWorker EXCEPT !.alive = FALSE]]
      /\ main' = [main EXCEPT !.busy[w] = TRUE, !.inbox[w] = <<>>]
      /\ link' = link /\ dispatch' = dispatch
  BY DEF WorkerCrashes
<1>2. /\ UsedOK(used) /\ DispatchOK(dispatch, used) /\ WorkersOK(worker)
      /\ HostOK(main, worker, dispatch, used, {}) /\ LinkOK(link, main, dispatch)
      /\ Shape(main) /\ Priming(main, worker)
  BY DEF HInv, HostOK
<1>3. UsedOK(used') /\ used'.sessions = used.sessions
  BY <1>1, <1>2 DEF UsedOK
<1>4. /\ worker' = [v \in Slot |-> worker'[v]] /\ \A v \in Slot \ {w} : worker'[v] = worker[v]
      /\ worker'[w] = [alive |-> FALSE, primed |-> {}, cancelled |-> {}, runs |-> {}]
  BY <1>1, <1>2 DEF WorkersOK, FreshWorker
<1>5. WorkersOK(worker')
  <2> DEFINE k == worker'
             dead == [alive |-> FALSE, primed |-> {}, cancelled |-> {}, runs |-> {}]
  <2>1. ASSUME NEW v \in Slot
        PROVE  k[v] \in [ alive : BOOLEAN, primed : {k[v].primed},
                          cancelled : {k[v].cancelled}, runs : {k[v].runs} ]
    <3>1. CASE v = w
      <4>1. dead \in [ alive : BOOLEAN, primed : {dead.primed},
                       cancelled : {dead.cancelled}, runs : {dead.runs} ]
        OBVIOUS
      <4>2. k[v] = dead
        BY <1>4, <3>1
      <4> HIDE DEF k, dead
      <4> QED
        BY <4>1, <4>2
    <3>2. CASE v # w
      BY <1>2, <1>4, <3>2 DEF WorkersOK
    <3> QED
      BY <3>1, <3>2
  <2> QED
    BY <1>4, <2>1 DEF WorkersOK
<1>6. /\ Shape(main') /\ main'.active = main.active /\ main'.primedIds = main.primedIds
      /\ main'.pending = main.pending /\ main'.running = main.running
      /\ main'.queue = main.queue /\ main'.answers = main.answers
      /\ main'.inbox[w] = <<>> /\ \A v \in Slot \ {w} : main'.inbox[v] = main.inbox[v]
  BY <1>1, <1>2 DEF Shape
<1>7. Priming(main', worker')
  <2>1. ASSUME NEW v \in Slot
        PROVE  /\ InboxOK(main'.inbox[v])
               /\ worker'[v].alive => InOrder(main'.inbox[v], worker'[v].primed, main'.primedIds[v])
    <3>1. CASE v = w
      BY <1>4, <1>6, <3>1, ListFacts DEF InboxOK
    <3>2. CASE v # w
      BY <1>2, <1>4, <1>6, <3>2 DEF Priming
    <3> QED
      BY <3>1, <3>2
  <2> QED
    BY <2>1 DEF Priming
<1>8. HostOK(main', worker', dispatch, used, {})
  <2> DEFINE k == worker'
             h == main'
  <2>1. /\ Priming(h, k) /\ Shape(h) /\ h.active = main.active /\ h.pending = main.pending
        /\ h.running = main.running /\ h.queue = main.queue /\ h.answers = main.answers
    BY <1>6, <1>7
  <2> HIDE DEF k, h
  <2>2. HostOK(h, k, dispatch, used, {})
    BY <1>2, <2>1, SameBooksKeep
  <2> QED
    BY <2>2 DEF k, h
<1>9. HostOK(main', worker', dispatch, used', {}) /\ DispatchOK(dispatch, used')
  BY <1>2, <1>3, <1>8 DEF HostOK, Holds, DispatchOK
<1>10. LinkOK(link, main', dispatch)
  BY <1>2, <1>6 DEF LinkOK
<1> QED
  BY <1>1, <1>3, <1>5, <1>9, <1>10 DEF HInv

LEMMA HInvStep == HInv /\ [Next]_hostVars => HInv'
<1> SUFFICES ASSUME HInv, [Next]_hostVars PROVE HInv'
  OBVIOUS
<1>1. CASE Next
  <2>1. CASE Connect \/ Disconnect \/ HostRestarts
    BY <2>1, ConnectKeeps, DisconnectKeeps, HostRestartsKeeps
  <2>2. CASE DispatcherActs
    BY <2>2, StartSessionKeeps, EndSessionKeeps, RenumberKeeps, AssignKeeps, ReceiveAnswerKeeps
       DEF DispatcherActs
  <2>3. ASSUME NEW w \in Slot, WorkerActs(w) PROVE HInv'
    <3>1. CASE ReadMessage(w) \/ WorkerCrashes(w)
      BY <3>1, ReadMessageKeeps, WorkerCrashesKeeps
    <3>2. CASE Runs(w)
      <4>1. PICK m \in worker[w].runs :
              FinishRun(w, m) \/ \E i \in 0 .. Len(m.policies) - 1 : StopRun(w, m, i)
        BY <3>2 DEF Runs
      <4> QED
        BY <4>1, RunsKeep
    <3> QED
      BY <2>3, <3>1, <3>2 DEF WorkerActs
  <2> QED
    BY <1>1, <2>1, <2>2, <2>3 DEF Next
<1>2. CASE UNCHANGED hostVars
  BY <1>2 DEF hostVars, HInv
<1> QED
  BY <1>1, <1>2

LEMMA HInvAlways == Spec => []HInv
<1>1. Init => HInv
  BY HInvInit
<1>2. HInv /\ [Next]_hostVars => HInv'
  BY HInvStep
<1> QED
  BY <1>1, <1>2, PTL DEF Spec
-----------------------------------------------------------------------------
(* The properties. *)

LEMMA HInvTypes == HInv => TypeOK
<1> SUFFICES ASSUME HInv PROVE TypeOK
  OBVIOUS
<1>1. /\ UsedOK(used) /\ DispatchOK(dispatch, used) /\ LinkOK(link, main, dispatch)
      /\ Shape(main) /\ Priming(main, worker) /\ Books(main)
      /\ Holds(main, dispatch, used, {}) /\ QueueOK(main, dispatch)
  BY DEF HInv, HostOK
<1>2. /\ main.active \in 0 .. MaxSessions /\ main.busy \in [Slot -> BOOLEAN]
      /\ main.primedIds \in [Slot -> SUBSET (1 .. MaxSessions)]
  BY <1>1 DEF Shape
<1>3. {r.batch : r \in main.pending} = DOMAIN main.running
  <2>1. \A id \in DOMAIN main.running : \E r \in main.pending : r.batch = id
    <3> SUFFICES ASSUME NEW id \in DOMAIN main.running
                 PROVE  \E r \in main.pending : r.batch = id
      OBVIOUS
    <3>1. RunsOf(main, id) # {}
      BY <1>1 DEF Books, BatchOK
    <3> QED
      BY <3>1 DEF RunsOf
  <2> QED
    BY <1>1, <2>1 DEF Books
<1>4. \A id \in DOMAIN main.running :
        DOMAIN main.running[id].done \subseteq 0 .. main.running[id].parts
  BY <1>1 DEF Books, BatchOK
<1>5. \A w \in Slot : \A i \in DOMAIN main.inbox[w] :
        main.inbox[w][i].kind \in {"prime", "unprime", "cancel", "run"}
  BY <1>1, ListFacts DEF Priming, InboxOK
<1>6. \A a \in main.answers :
        a.kind \in {"result", "partial", "no_active_session", "host_no_free_slots"}
  BY <1>1 DEF Holds
<1>7. dispatch.session \in 0 .. MaxSessions /\ dispatch.seq \in 0 .. MaxSeq
  <2>1. MaxSessions \in Nat
    BY HostAssumption
  <2>2. used.sessions \in 0 .. MaxSessions /\ dispatch.session \in 0 .. used.sessions
    BY <1>1 DEF UsedOK, DispatchOK
  <2> QED
    BY <1>1, <2>1, <2>2 DEF DispatchOK
<1>8. Len(main.queue) <= MAX_QUEUE_DEPTH /\ link \in {"up", "down"}
  BY <1>1 DEF QueueOK, LinkOK
<1>9. /\ \A w \in Slot : worker[w].alive \in BOOLEAN
      /\ used.sessions \in 0 .. MaxSessions /\ dispatch.coarse \in BOOLEAN
  <2>1. \A w \in Slot : worker[w].alive \in BOOLEAN
    BY DEF HInv, WorkersOK
  <2>2. used.sessions \in 0 .. MaxSessions
    BY <1>1 DEF UsedOK
  <2>3. dispatch.coarse \in BOOLEAN
    BY <1>1 DEF DispatchOK
  <2> QED
    BY <2>1, <2>2, <2>3
<1> QED
  BY <1>2, <1>3, <1>4, <1>5, <1>6, <1>7, <1>8, <1>9 DEF TypeOK

(* The main thread, the link and the dispatcher keep their types: in       *)
(* particular the batches being run are those with runs to wait for, and   *)
(* the local queue keeps its bound.                                        *)
THEOREM HostTypes == Spec => []TypeOK
<1>1. HInv => TypeOK
  BY HInvTypes
<1> QED
  BY <1>1, HInvAlways, PTL

LEMMA HInvHeld == HInv => AssignedIsHeld
<1> SUFFICES ASSUME HInv, NEW id \in DOMAIN dispatch.outstanding
             PROVE  Cardinality({i \in DOMAIN main.queue : main.queue[i].id = id})
                      + (IF id \in DOMAIN main.running THEN 1 ELSE 0)
                      + Cardinality({a \in main.answers : a.id = id}) = 1
  BY DEF AssignedIsHeld
<1> DEFINE Q == {i \in DOMAIN main.queue : main.queue[i].id = id}
           A == {a \in main.answers : a.id = id}
<1>1. /\ UsedOK(used) /\ DispatchOK(dispatch, used)
      /\ Holds(main, dispatch, used, {}) /\ QueueOK(main, dispatch)
  BY DEF HInv, HostOK
<1>2. /\ InQueue(main, id) \/ id \in DOMAIN main.running \/ IsAnswered(main, id)
      /\ Places(main, id)
  BY <1>1 DEF Holds
<1>3. DOMAIN main.queue = 1 .. Len(main.queue)
  BY <1>1, ListFacts DEF QueueOK
<1>4. /\ Cardinality({}) = 0
      /\ \A x : Cardinality({x}) = 1
  BY FS_EmptySet, FS_Singleton
<1>5. Cardinality(Q) = IF InQueue(main, id) THEN 1 ELSE 0
  <2>1. CASE InQueue(main, id)
    <3>1. PICK i \in 1 .. Len(main.queue) : main.queue[i].id = id
      BY <2>1 DEF InQueue
    <3>2. Q = {i}
      BY <1>1, <1>3, <3>1 DEF QueueOK
    <3> QED
      BY <1>4, <2>1, <3>2
  <2>2. CASE ~InQueue(main, id)
    <3>1. Q = {}
      BY <1>3, <2>2 DEF InQueue
    <3> QED
      BY <1>4, <2>2, <3>1
  <2> QED
    BY <2>1, <2>2
<1>6. Cardinality(A) = IF IsAnswered(main, id) THEN 1 ELSE 0
  <2>1. CASE IsAnswered(main, id)
    <3>1. PICK a \in main.answers : a.id = id
      BY <2>1 DEF IsAnswered
    <3>2. id[1] = dispatch.session
      BY <1>1, OutstandingFacts
    <3>3. A = {a}
      BY <1>1, <3>1, <3>2 DEF Holds
    <3> QED
      BY <1>4, <2>1, <3>3
  <2>2. CASE ~IsAnswered(main, id)
    <3>1. A = {}
      BY <2>2 DEF IsAnswered
    <3> QED
      BY <1>4, <2>2, <3>1
  <2> QED
    BY <2>1, <2>2
<1> HIDE DEF Q, A
<1>7. Cardinality(Q) + (IF id \in DOMAIN main.running THEN 1 ELSE 0) + Cardinality(A) = 1
  BY <1>2, <1>5, <1>6 DEF Places
<1> QED
  BY <1>7 DEF Q, A

(* Every batch the dispatcher counts as outstanding at the host is there   *)
(* in exactly one place, for every number of slots, queue depth and size   *)
(* of batch: waiting in the local queue, being run, or answered.           *)
THEOREM AssignedAreHeld == Spec => []AssignedIsHeld
<1>1. HInv => AssignedIsHeld
  BY HInvHeld
<1> QED
  BY <1>1, HInvAlways, PTL

LEMMA HInvPrimed == HInv => RunsArePrimed
<1> SUFFICES ASSUME HInv, NEW w \in Slot, worker[w].alive, main.inbox[w] # <<>>,
                    Head(main.inbox[w]).kind = "run"
             PROVE  Head(main.inbox[w]).run.session \in worker[w].primed
  BY DEF RunsArePrimed
<1> DEFINE q == main.inbox[w]
           K == worker[w].primed
           L == K \cup {Head(q).session}
<1>1. IsList(q) /\ q # <<>> /\ InOrder(q, K, main.primedIds[w])
  BY DEF HInv, HostOK, Priming, InboxOK
<1>2. \A s : Primes(Head(q), s) \/ (s \in K /\ ~Unprimes(Head(q), s)) => s \in L
  BY DEF Primes
<1>3. Head(q).kind = "run"
  OBVIOUS
<1> HIDE DEF q, K, L
<1>4. Head(q).run.session \in K
  BY <1>1, <1>2, <1>3, InOrderRead
<1> QED
  BY <1>4 DEF q, K

(* A worker that reads a run has been primed for its session, whatever     *)
(* sessions replaced each other and however often the connection broke.    *)
THEOREM RunsFindPrimed == Spec => []RunsArePrimed
<1>1. HInv => RunsArePrimed
  BY HInvPrimed
<1> QED
  BY <1>1, HInvAlways, PTL
-----------------------------------------------------------------------------
(* Busy slots and pending runs.  A pending run is at one slot at most,     *)
(* once, waiting to be read or being worked on, and a run that is at a     *)
(* worker and not pending was given up with its connection: its id is not  *)
(* handed out again unless batches are renumbered.  While every worker     *)
(* lives, a pending run is at a slot, and the slot is busy with it alone.  *)
RunIn(h, w, i, r) ==
  i \in 1 .. Len(h.inbox[w]) /\ h.inbox[w][i].kind = "run" /\ h.inbox[w][i].run = r
Waits(h, w, r) == \E i \in 1 .. Len(h.inbox[w]) : RunIn(h, w, i, r)
Works(k, w, r) == \E m \in k[w].runs : m.run = r
At(h, k, w, r) == Waits(h, w, r) \/ Works(k, w, r)

Once(h, k, w, r) ==
  /\ ~(Waits(h, w, r) /\ Works(k, w, r))
  /\ \A i, j \in 1 .. Len(h.inbox[w]) : RunIn(h, w, i, r) /\ RunIn(h, w, j, r) => i = j
  /\ \A m, n \in k[w].runs : m.run = r /\ n.run = r => m = n

Unique(h, k) ==
  /\ \A r \in h.pending : \A v, w \in Slot : At(h, k, v, r) /\ At(h, k, w, r) => v = w
  /\ \A w \in Slot : \A r \in h.pending : Once(h, k, w, r)
Filled(h, k) ==
  /\ \A r \in h.pending : \E w \in Slot : At(h, k, w, r)
  /\ \A w \in Slot : h.busy[w] <=> \E r \in h.pending : At(h, k, w, r)
  /\ \A w \in Slot : \A r, s \in h.pending : At(h, k, w, r) /\ At(h, k, w, s) => r = s
AllLive(k) == \A w \in Slot : k[w].alive
Owned(h, k) == Unique(h, k) /\ (AllLive(k) => Filled(h, k))

Stray(d, r) ==
  /\ MaxRenumberings = 0
  /\ r.batch \notin DOMAIN d.outstanding
Seen(d, u, r) ==
  /\ r.batch[1] \in 1 .. u.sessions
  /\ r.batch[1] = d.session => r.batch[2] \in 1 .. d.seq
Known(h, k, d, u) ==
  \A w \in Slot : \A r : At(h, k, w, r) =>
    /\ r \notin h.pending => Stray(d, r)
    /\ MaxRenumberings = 0 => Seen(d, u, r)

SlotsOK(h, k, d, u) == Owned(h, k) /\ Known(h, k, d, u)
SInv == SlotsOK(main, worker, dispatch, used)

(* The same runs are at the same workers, but for some that are not        *)
(* pending and are gone.                                                   *)
LEMMA SlotsKeep ==
  ASSUME NEW h, NEW k, NEW d, NEW u, SlotsOK(h, k, d, u), NEW g, NEW l,
         g.pending = h.pending, g.busy = h.busy, AllLive(l) => AllLive(k),
         \A w \in Slot : \A r : At(g, l, w, r) => At(h, k, w, r),
         \A w \in Slot : \A r \in h.pending : At(h, k, w, r) => At(g, l, w, r),
         \A w \in Slot : \A r \in h.pending : Once(g, l, w, r)
  PROVE  SlotsOK(g, l, d, u)
<1>1. \A r \in g.pending : \A v, w \in Slot : At(g, l, v, r) /\ At(g, l, w, r) => v = w
  BY DEF SlotsOK, Owned, Unique
<1>2. ASSUME AllLive(l) PROVE Filled(g, l)
  BY <1>2 DEF SlotsOK, Owned, Filled
<1>3. Owned(g, l)
  BY <1>1, <1>2 DEF Owned, Unique
<1>4. Known(g, l, d, u)
  BY DEF SlotsOK, Known
<1> QED
  BY <1>3, <1>4 DEF SlotsOK

LEMMA SameRunsAt ==
  ASSUME NEW h, NEW g, SameRuns(h, g), NEW w \in Slot
  PROVE  /\ \A i, r : RunIn(g, w, i, r) <=> RunIn(h, w, i, r)
         /\ \A r : Waits(g, w, r) <=> Waits(h, w, r)
         /\ \A k, r : At(g, k, w, r) <=> At(h, k, w, r)
         /\ \A k, r : Once(h, k, w, r) => Once(g, k, w, r)
<1>1. \A i, r : RunIn(g, w, i, r) <=> RunIn(h, w, i, r)
  BY DEF SameRuns, RunIn
<1>2. \A r : Waits(g, w, r) <=> Waits(h, w, r)
  <2>1. ASSUME NEW r, Waits(g, w, r) PROVE Waits(h, w, r)
    BY <1>1, <2>1 DEF Waits, RunIn
  <2>2. ASSUME NEW r, Waits(h, w, r) PROVE Waits(g, w, r)
    BY <1>1, <2>2 DEF Waits, RunIn
  <2> QED
    BY <2>1, <2>2
<1>3. \A k, r : At(g, k, w, r) <=> At(h, k, w, r)
  BY <1>2 DEF At
<1>4. ASSUME NEW k, NEW r, Once(h, k, w, r) PROVE Once(g, k, w, r)
  <2>1. \A i, j : RunIn(g, w, i, r) /\ RunIn(g, w, j, r) => i = j
    BY <1>1, <1>4 DEF Once, RunIn
  <2> QED
    BY <1>2, <1>4, <2>1 DEF Once
<1> QED
  BY <1>1, <1>2, <1>3, <1>4

LEMMA SlotsKeepPosting ==
  ASSUME NEW h, NEW k, NEW d, NEW u, SlotsOK(h, k, d, u), NEW g, SameRuns(h, g),
         g.pending = h.pending, g.busy = h.busy
  PROVE  SlotsOK(g, k, d, u)
<1>1. \A w \in Slot : \A r : At(g, k, w, r) <=> At(h, k, w, r)
  BY SameRunsAt
<1>2. \A w \in Slot : \A r \in h.pending : Once(g, k, w, r)
  BY SameRunsAt DEF SlotsOK, Owned, Unique
<1> QED
  BY <1>1, <1>2, SlotsKeep

LEMMA SameInbox ==
  ASSUME NEW h, NEW g, g.inbox = h.inbox
  PROVE  SameRuns(h, g)
BY DEF SameRuns

LEMMA StartedAt ==
  ASSUME NEW h, NEW b, NEW p, NEW g, NEW k, Started(h, b, p, g), NEW w \in Slot, NEW r,
         InboxOK(p.inbox[w])
  PROVE  /\ \A i : RunIn(g, w, i, r) <=>
                     \/ RunIn(p, w, i, r)
                     \/ /\ w \in Taken(h, b) /\ r = RunFor(h, b, w)
                        /\ i = Len(p.inbox[w]) + 1
         /\ At(g, k, w, r) <=> At(p, k, w, r) \/ (w \in Taken(h, b) /\ r = RunFor(h, b, w))
<1> DEFINE m == Run(RunFor(h, b, w), SliceFor(h, b, w))
           q == p.inbox[w]
           n == Len(q)
<1>1. IsList(q)
  BY DEF InboxOK
<1>2. /\ n \in Nat /\ Len(Append(q, m)) = n + 1 /\ Append(q, m)[n + 1] = m
      /\ \A i \in 1 .. n : Append(q, m)[i] = q[i]
  BY <1>1, ListAppend
<1>3. m.kind = "run" /\ m.run = RunFor(h, b, w)
  BY DEF Run
<1>4. g.inbox[w] = IF w \in Taken(h, b) THEN Append(q, m) ELSE q
  BY DEF Started
<1> HIDE DEF m, q
<1>5. /\ \A i : i \in 1 .. n + 1 <=> i \in 1 .. n \/ i = n + 1
      /\ n + 1 \notin 1 .. n
  BY <1>2
<1> HIDE DEF n
<1>6. \A i : RunIn(g, w, i, r) <=>
               RunIn(p, w, i, r) \/ (w \in Taken(h, b) /\ r = RunFor(h, b, w) /\ i = n + 1)
  <2>1. CASE w \in Taken(h, b)
    <3>1. ASSUME NEW i, RunIn(g, w, i, r)
          PROVE  RunIn(p, w, i, r) \/ (r = RunFor(h, b, w) /\ i = n + 1)
      BY <1>2, <1>3, <1>4, <1>5, <2>1, <3>1 DEF RunIn, q, n
    <3>2. ASSUME NEW i, RunIn(p, w, i, r) PROVE RunIn(g, w, i, r)
      BY <1>2, <1>4, <1>5, <2>1, <3>2 DEF RunIn, q, n
    <3>3. r = RunFor(h, b, w) => RunIn(g, w, n + 1, r)
      BY <1>2, <1>3, <1>4, <1>5, <2>1 DEF RunIn
    <3> QED
      BY <2>1, <3>1, <3>2, <3>3
  <2>2. CASE w \notin Taken(h, b)
    BY <1>4, <2>2 DEF RunIn, q
  <2> QED
    BY <2>1, <2>2
<1>7. \A i : /\ RunIn(g, w, i, r) => i \in 1 .. Len(g.inbox[w])
             /\ RunIn(p, w, i, r) => i \in 1 .. Len(p.inbox[w])
  BY DEF RunIn
<1>8. Waits(g, w, r) <=> Waits(p, w, r) \/ (w \in Taken(h, b) /\ r = RunFor(h, b, w))
  BY <1>6, <1>7 DEF Waits
<1> QED
  BY <1>6, <1>8 DEF At, n, q

LEMMA StartBatchSlots ==
  ASSUME NEW h, NEW k, NEW d, NEW u, NEW b, HostOK(h, k, d, u, {b.id}), Assigned(b, d),
         DispatchOK(d, u), UsedOK(u), Free(h) # {}, SlotsOK(h, k, d, u)
  PROVE  SlotsOK(StartBatch(h, b), k, d, u)
<1> DEFINE p == PrimeAllSlots(h, b.id[1])
           g == StartBatch(h, b)
           T == Taken(h, b)
           N == NewRuns(h, b)
           R(w) == RunFor(h, b, w)
<1>1. /\ Shape(h) /\ Priming(h, k) /\ Books(h) /\ Holds(h, d, u, {b.id})
      /\ b.id \in DOMAIN d.outstanding /\ b.id \notin DOMAIN h.running
      /\ b.id[1] = d.session /\ b.id[1] \in 1 .. MaxSessions /\ b.id[1] \in 1 .. u.sessions
      /\ Len(b.policies) \in Nat \ {0}
  BY OutstandingFacts DEF HostOK, Assigned, Holds
<1>2. b.id[2] \in 1 .. d.seq
  BY <1>1 DEF DispatchOK
<1>3. Shape(p) /\ Priming(p, k) /\ SameBooks(h, p) /\ SameRuns(h, p)
  BY <1>1, PrimeAllSlotsFields
<1>4. Started(h, b, p, g)
  BY <1>1, <1>3, StartBatchFields
<1>5. SlotsOK(p, k, d, u) /\ p.pending = h.pending /\ p.busy = h.busy
  BY <1>3, SlotsKeepPosting DEF SameBooks
<1> HIDE DEF p, g
<1>6. \A r \in p.pending : r.batch # b.id
  BY <1>1, <1>5 DEF Books
<1>7. \A w \in Slot : \A r : At(p, k, w, r) => r.batch # b.id
  BY <1>1, <1>5, <1>6 DEF SlotsOK, Known, Stray
<1>8. /\ T \subseteq Free(h) /\ \A r \in N : r.batch = b.id
      /\ \A v, w \in T : R(v) = R(w) => v = w
  BY <1>1, NewRunsCounted
<1>9. /\ \A w \in T : R(w) \in N
      /\ \A r \in N : \E w \in T : r = R(w)
  BY DEF NewRuns
<1>10. /\ g.pending = p.pending \cup N
       /\ \A w \in Slot : g.busy[w] <=> p.busy[w] \/ w \in T
  BY <1>4, <1>5 DEF Started
<1>11. \A w \in Slot : \A r :
         /\ \A i : RunIn(g, w, i, r) <=>
              RunIn(p, w, i, r) \/ (w \in T /\ r = R(w) /\ i = Len(p.inbox[w]) + 1)
         /\ At(g, k, w, r) <=> At(p, k, w, r) \/ (w \in T /\ r = R(w))
  <2>1. ASSUME NEW w \in Slot, NEW r
        PROVE  /\ \A i : RunIn(g, w, i, r) <=>
                    RunIn(p, w, i, r) \/ (w \in T /\ r = R(w) /\ i = Len(p.inbox[w]) + 1)
               /\ At(g, k, w, r) <=> At(p, k, w, r) \/ (w \in T /\ r = R(w))
    <3>1. InboxOK(p.inbox[w])
      BY <1>3 DEF Priming
    <3>2. /\ \A i : RunIn(g, w, i, r) <=>
                \/ RunIn(p, w, i, r)
                \/ /\ w \in Taken(h, b) /\ r = RunFor(h, b, w)
                   /\ i = Len(p.inbox[w]) + 1
          /\ At(g, k, w, r) <=> At(p, k, w, r) \/ (w \in Taken(h, b) /\ r = RunFor(h, b, w))
      BY ONLY <1>4, <3>1, StartedAt, w \in Slot
    <3> QED
      BY <3>2
  <2> QED
    BY <2>1
<1>12. \A w \in T : w \in Slot /\ ~p.busy[w]
  BY <1>5, <1>8 DEF Free
<1> HIDE DEF T, N, R
<1>13. \A w \in Slot : \A r \in p.pending : At(g, k, w, r) <=> At(p, k, w, r)
  BY <1>6, <1>8, <1>9, <1>11
<1>14. \A w \in Slot : \A r \in N : At(g, k, w, r) <=> w \in T /\ r = R(w)
  BY <1>7, <1>8, <1>11
<1>15. AllLive(k) => \A r \in g.pending : \E w \in Slot : At(g, k, w, r)
  BY <1>5, <1>9, <1>10, <1>12, <1>13, <1>14 DEF SlotsOK, Owned, Filled
<1>16. \A r \in g.pending : \A v, w \in Slot : At(g, k, v, r) /\ At(g, k, w, r) => v = w
  BY <1>5, <1>8, <1>10, <1>13, <1>14 DEF SlotsOK, Owned, Unique
<1>17. AllLive(k) => \A w \in Slot : g.busy[w] <=> \E r \in g.pending : At(g, k, w, r)
  <2>1. ASSUME AllLive(k), NEW w \in Slot
        PROVE  g.busy[w] <=> \E r \in g.pending : At(g, k, w, r)
    <3>1. p.busy[w] <=> \E r \in p.pending : At(g, k, w, r)
      BY <1>5, <1>13, <2>1 DEF SlotsOK, Owned, Filled
    <3>2. w \in T <=> \E r \in N : At(g, k, w, r)
      BY <1>9, <1>14
    <3> QED
      BY <1>10, <3>1, <3>2
  <2> QED
    BY <2>1
<1>18. AllLive(k) => \A w \in Slot : \A r, s \in g.pending :
                        At(g, k, w, r) /\ At(g, k, w, s) => r = s
  <2>1. ASSUME AllLive(k), NEW w \in Slot, NEW r \in g.pending, NEW s \in g.pending,
               At(g, k, w, r), At(g, k, w, s)
        PROVE  r = s
    <3>1. CASE r \in p.pending /\ s \in p.pending
      BY <1>5, <1>13, <2>1, <3>1 DEF SlotsOK, Owned, Filled
    <3>2. CASE r \in N /\ s \in N
      BY <1>14, <2>1, <3>2
    <3>3. ASSUME NEW x \in p.pending, NEW y \in N, At(g, k, w, x), At(g, k, w, y) PROVE FALSE
      <4>1. w \in T /\ p.busy[w]
        BY <1>5, <1>13, <1>14, <2>1, <3>3 DEF SlotsOK, Owned, Filled
      <4> QED
        BY <1>12, <4>1
    <3> QED
      BY <1>10, <2>1, <3>1, <3>2, <3>3
  <2> QED
    BY <2>1
<1>19. \A w \in Slot : \A r \in g.pending : Once(g, k, w, r)
  <2>1. ASSUME NEW w \in Slot, NEW r \in p.pending PROVE Once(g, k, w, r)
    <3>1. \A i : RunIn(g, w, i, r) <=> RunIn(p, w, i, r)
      BY <1>6, <1>8, <1>9, <1>11
    <3>2. Waits(g, w, r) => Waits(p, w, r)
      BY <3>1 DEF Waits, RunIn
    <3>3. Once(p, k, w, r)
      BY <1>5 DEF SlotsOK, Owned, Unique
    <3>4. \A i, j : RunIn(g, w, i, r) /\ RunIn(g, w, j, r) => i = j
      BY <3>1, <3>3 DEF Once, RunIn
    <3> QED
      BY <3>2, <3>3, <3>4 DEF Once
  <2>2. ASSUME NEW w \in Slot, NEW r \in N PROVE Once(g, k, w, r)
    <3>1. ~At(p, k, w, r)
      BY <1>7, <1>8
    <3>2. ~Works(k, w, r) /\ ~Waits(p, w, r)
      BY <3>1 DEF At
    <3>3. \A i : ~RunIn(p, w, i, r)
      BY <3>2 DEF Waits, RunIn
    <3>4. \A i, j : RunIn(g, w, i, r) /\ RunIn(g, w, j, r) => i = j
      BY <1>11, <3>3
    <3>5. \A m, n \in k[w].runs : m.run = r /\ n.run = r => m = n
      BY <3>2 DEF Works
    <3> QED
      BY <3>2, <3>4, <3>5 DEF Once
  <2> QED
    BY <1>10, <2>1, <2>2
<1>20. Known(g, k, d, u)
  <2>1. ASSUME NEW w \in Slot, NEW r, At(g, k, w, r)
        PROVE  /\ r \notin g.pending => Stray(d, r)
               /\ MaxRenumberings = 0 => Seen(d, u, r)
    <3>1. CASE At(p, k, w, r)
      BY <1>5, <1>10, <3>1 DEF SlotsOK, Known
    <3>2. CASE w \in T /\ r = R(w)
      <4>1. r \in g.pending /\ r.batch = b.id
        BY <1>8, <1>9, <1>10, <3>2
      <4> QED
        BY <1>1, <1>2, <4>1 DEF Seen
    <3> QED
      BY <1>11, <2>1, <3>1, <3>2
  <2> QED
    BY <2>1 DEF Known
<1>21. Owned(g, k)
  BY <1>15, <1>16, <1>17, <1>18, <1>19 DEF Owned, Unique, Filled
<1> QED
  BY <1>20, <1>21 DEF SlotsOK, g

LEMMA DrainSlots ==
  ASSUME NEW h, NEW k, NEW d, NEW u, HostOK(h, k, d, u, {}), DispatchOK(d, u), UsedOK(u),
         SlotsOK(h, k, d, u)
  PROVE  SlotsOK(Drain(h), k, d, u)
<1>1. PICK state : \E last \in Nat : DrainedOK(h, k, d, u, state, last)
  BY DrainStates
<1>2. PICK last \in Nat : DrainedOK(h, k, d, u, state, last)
  BY <1>1
<1>3. last \in 0 .. last /\ Drain(h) = state[last] /\ state[0] = h /\ 0 \in 0 .. last
  BY <1>2 DEF Drained, DrainedOK
<1> DEFINE Good == {i \in 0 .. last : SlotsOK(state[i], k, d, u)}
<1>4. ASSUME NEW i \in 1 .. last, i - 1 \in Good PROVE i \in Good
  <2> DEFINE f == state[i - 1]
             b == f.queue[1]
  <2>1. i - 1 \in 0 .. last /\ i \in 0 .. last
    BY <1>2
  <2>2. /\ HostOK(f, k, d, u, {}) /\ f.queue # <<>> /\ Free(f) # {}
        /\ state[i] = TakeUp(f, b) /\ SlotsOK(f, k, d, u)
    BY <1>2, <1>4, <2>1 DEF DrainedOK
  <2> HIDE DEF f
  <2>3. PICK g : HostOK(g, k, d, u, {b.id}) /\ Assigned(b, d) /\ Unqueued(f, g, b)
    BY <2>2, TakeUpStarts
  <2> HIDE DEF b
  <2>4. SlotsOK(g, k, d, u)
    BY <2>2, <2>3, SameInbox, SlotsKeepPosting DEF Unqueued
  <2>5. SlotsOK(StartBatch(g, b), k, d, u)
    BY <2>3, <2>4, StartBatchSlots DEF Unqueued
  <2> QED
    BY <2>1, <2>2, <2>3, <2>5 DEF Unqueued
<1>5. 0 \in Good
  BY <1>3
<1> HIDE DEF Good
<1>6. last \in Good
  BY <1>3, <1>4, <1>5, UpTo
<1> QED
  BY <1>3, <1>6 DEF Good

LEMMA HandleBatchAssignSlots ==
  ASSUME NEW h, NEW k, NEW d, NEW u, NEW b, HostOK(h, k, d, u, {b.id}), Assigned(b, d),
         DispatchOK(d, u), UsedOK(u), SlotsOK(h, k, d, u)
  PROVE  SlotsOK(HandleBatchAssign(h, b), k, d, u)
<1> DEFINE g == HandleBatchAssign(h, b)
<1>1. Shape(h)
  BY DEF HostOK
<1>2. CASE g = StartBatch(h, b) /\ Free(h) # {}
  BY <1>2, StartBatchSlots
<1>3. CASE ~(g = StartBatch(h, b) /\ Free(h) # {})
  <2>1. g.inbox = h.inbox /\ g.pending = h.pending /\ g.busy = h.busy
    BY <1>1, <1>3 DEF HandleBatchAssign, Shape
  <2> HIDE DEF g
  <2>2. SlotsOK(g, k, d, u)
    BY <2>1, SameInbox, SlotsKeepPosting
  <2> QED
    BY <2>2 DEF g
<1> QED
  BY <1>2, <1>3

(* Worker w is done with run m. *)
LeavesRun(k, l, w, m) ==
  /\ m \in k[w].runs
  /\ \A v \in Slot : l[v].runs = IF v = w THEN k[v].runs \ {m} ELSE k[v].runs
  /\ AllLive(l) => AllLive(k)

LEMMA LeavesRunAt ==
  ASSUME NEW h, NEW k, NEW l, NEW d, NEW u, SlotsOK(h, k, d, u), NEW w \in Slot, NEW m,
         LeavesRun(k, l, w, m)
  PROVE  /\ At(h, k, w, m.run)
         /\ \A v \in Slot : \A s : /\ Works(l, v, s) => Works(k, v, s)
                                   /\ At(h, l, v, s) => At(h, k, v, s)
                                   /\ s # m.run => (At(h, k, v, s) => At(h, l, v, s))
         /\ \A v \in Slot : \A s \in h.pending : Once(h, l, v, s)
<1>1. At(h, k, w, m.run)
  BY DEF At, Works, LeavesRun
<1>2. \A v \in Slot : \A s : /\ Works(l, v, s) => Works(k, v, s)
                             /\ s # m.run => (Works(k, v, s) => Works(l, v, s))
  BY DEF Works, LeavesRun
<1>3. ASSUME NEW v \in Slot, NEW s \in h.pending PROVE Once(h, l, v, s)
  <2>1. Once(h, k, v, s)
    BY DEF SlotsOK, Owned, Unique
  <2>2. \A n \in l[v].runs : n \in k[v].runs
    BY DEF LeavesRun
  <2> QED
    BY <1>2, <2>1, <2>2 DEF Once
<1>4. \A v \in Slot : \A s : /\ At(h, l, v, s) => At(h, k, v, s)
                             /\ s # m.run => (At(h, k, v, s) => At(h, l, v, s))
  BY <1>2 DEF At
<1> QED
  BY <1>1, <1>2, <1>3, <1>4

LEMMA SettledSlots ==
  ASSUME NEW h, NEW k, NEW l, NEW d, NEW u, Shape(h), SlotsOK(h, k, d, u),
         NEW w \in Slot, NEW m, LeavesRun(k, l, w, m), m.run \in h.pending,
         NEW g, Settled(h, g, w, m.run)
  PROVE  SlotsOK(g, l, d, u)
<1> DEFINE r == m.run
<1>0. r \in h.pending /\ Settled(h, g, w, r) /\ r = m.run
  OBVIOUS
<1>1. /\ At(h, k, w, r)
      /\ \A v \in Slot : \A s : /\ Works(l, v, s) => Works(k, v, s)
                                /\ At(h, l, v, s) => At(h, k, v, s)
                                /\ s # r => (At(h, k, v, s) => At(h, l, v, s))
      /\ \A v \in Slot : \A s \in h.pending : Once(h, l, v, s)
  BY LeavesRunAt
<1> HIDE DEF r
<1>2. m \in k[w].runs /\ l[w].runs = k[w].runs \ {m} /\ (AllLive(l) => AllLive(k))
  BY DEF LeavesRun
<1>3. /\ \A v \in Slot : \A s : At(g, l, v, s) <=> At(h, l, v, s)
      /\ \A v \in Slot : \A s \in g.pending : Once(g, l, v, s)
      /\ g.pending = h.pending \ {r}
  BY <1>0, <1>1, SameInbox, SameRunsAt DEF Settled
<1>4. \A v \in Slot : At(h, k, v, r) => v = w
  BY <1>0, <1>1 DEF SlotsOK, Owned, Unique
<1>5. \A v \in Slot : ~At(g, l, v, r)
  <2>1. Once(h, k, w, r) /\ Works(k, w, r)
    BY <1>0, <1>2 DEF SlotsOK, Owned, Unique, Works
  <2>2. ~Waits(h, w, r) /\ ~Works(l, w, r)
    BY <1>0, <1>2, <2>1 DEF Once, Works
  <2>3. ~At(h, l, w, r)
    BY <2>2 DEF At
  <2> QED
    BY <1>1, <1>3, <1>4, <2>3
<1>6. \A v \in Slot : \A s \in g.pending : At(g, l, v, s) <=> At(h, k, v, s)
  BY <1>1, <1>3
<1>7. \A v \in Slot : g.busy[v] <=> h.busy[v] /\ v # w
  <2>1. h.busy \in [Slot -> BOOLEAN] /\ g.busy = [h.busy EXCEPT ![w] = FALSE]
    BY DEF Shape, Settled
  <2> QED
    BY <2>1
<1>8. ASSUME AllLive(l), NEW v \in Slot
      PROVE  g.busy[v] <=> \E s \in g.pending : At(g, l, v, s)
  <2>1. h.busy[v] <=> \E s \in h.pending : At(h, k, v, s)
    BY <1>2, <1>8 DEF SlotsOK, Owned, Filled
  <2>2. CASE v = w
    <3>1. \A s \in h.pending : At(h, k, w, s) => s = r
      BY <1>0, <1>1, <1>2, <1>8 DEF SlotsOK, Owned, Filled
    <3> QED
      BY <1>3, <1>6, <1>7, <2>2, <3>1
  <2>3. CASE v # w
    BY <1>3, <1>4, <1>6, <1>7, <2>1, <2>3
  <2> QED
    BY <2>2, <2>3
<1>9. Owned(g, l)
  <2>1. AllLive(l) => \A s \in g.pending : \E v \in Slot : At(g, l, v, s)
    BY <1>2, <1>3, <1>6 DEF SlotsOK, Owned, Filled
  <2>2. \A s \in g.pending : \A v, x \in Slot : At(g, l, v, s) /\ At(g, l, x, s) => v = x
    BY <1>3, <1>6 DEF SlotsOK, Owned, Unique
  <2>3. AllLive(l) => \A v \in Slot : \A s, t \in g.pending :
                        At(g, l, v, s) /\ At(g, l, v, t) => s = t
    BY <1>2, <1>3, <1>6 DEF SlotsOK, Owned, Filled
  <2> QED
    BY <1>3, <1>8, <2>1, <2>2, <2>3 DEF Owned, Unique, Filled
<1>10. Known(g, l, d, u)
  <2>1. ASSUME NEW v \in Slot, NEW s, At(g, l, v, s) PROVE At(h, k, v, s) /\ s # r
    BY <1>1, <1>3, <1>5, <2>1
  <2> QED
    BY <1>3, <2>1 DEF SlotsOK, Known
<1> QED
  BY <1>9, <1>10 DEF SlotsOK

LEMMA EndOfRunSlots ==
  ASSUME NEW h, NEW k, NEW l, NEW d, NEW u, HostOK(h, l, d, u, {}), DispatchOK(d, u),
         UsedOK(u), SlotsOK(h, k, d, u), NEW w \in Slot, NEW m, LeavesRun(k, l, w, m),
         NEW ok, NEW evaluations
  PROVE  SlotsOK(HandleReply(h, w, m.run, ok, evaluations), l, d, u)
<1> DEFINE r == m.run
           f == HandleReply(h, w, r, ok, evaluations)
<1>1. CASE r \notin h.pending
  <2>1. f = h
    BY <1>1 DEF HandleReply
  <2> HIDE DEF f
  <2>2. /\ \A v \in Slot : \A s : At(h, l, v, s) => At(h, k, v, s)
        /\ \A v \in Slot : \A s \in h.pending : At(h, k, v, s) => At(h, l, v, s)
        /\ \A v \in Slot : \A s \in h.pending : Once(h, l, v, s)
        /\ AllLive(l) => AllLive(k)
    <3>1. /\ \A v \in Slot : \A s : /\ At(h, l, v, s) => At(h, k, v, s)
                                    /\ s # m.run => (At(h, k, v, s) => At(h, l, v, s))
          /\ \A v \in Slot : \A s \in h.pending : Once(h, l, v, s)
      BY LeavesRunAt
    <3> QED
      BY <1>1, <3>1 DEF LeavesRun
  <2>3. SlotsOK(h, l, d, u)
    BY <2>2, SlotsKeep
  <2> QED
    BY <2>1, <2>3 DEF f
<1>2. CASE r \in h.pending
  <2>1. \E g : HostOK(g, l, d, u, {}) /\ Settled(h, g, w, r) /\ f \in {g, Drain(g)}
    BY <1>2, ReplySettles
  <2> HIDE DEF f
  <2>2. PICK g : HostOK(g, l, d, u, {}) /\ Settled(h, g, w, r) /\ f \in {g, Drain(g)}
    BY <2>1
  <2>3. SlotsOK(g, l, d, u)
    BY <1>2, <2>2, SettledSlots DEF HostOK
  <2>4. SlotsOK(Drain(g), l, d, u)
    BY <2>2, <2>3, DrainSlots
  <2> QED
    BY <2>2, <2>3, <2>4 DEF f
<1> QED
  BY <1>1, <1>2

(* The dispatcher moves on. *)
LEMMA SlotsKnown ==
  ASSUME NEW h, NEW k, NEW d, NEW u, SlotsOK(h, k, d, u), NEW e, NEW v,
         \A r : /\ Stray(d, r) /\ Seen(d, u, r) => Stray(e, r)
                /\ MaxRenumberings = 0 /\ Seen(d, u, r) => Seen(e, v, r)
  PROVE  SlotsOK(h, k, e, v)
BY DEF SlotsOK, Known, Stray

(* Nothing is waited for. *)
LEMMA SlotsFree ==
  ASSUME NEW h, NEW k, NEW d, NEW u, h.pending = {}, \A w \in Slot : ~h.busy[w],
         \A w \in Slot : \A r : At(h, k, w, r) => Stray(d, r) /\ Seen(d, u, r)
  PROVE  SlotsOK(h, k, d, u)
BY DEF SlotsOK, Owned, Unique, Filled, Known

LEMMA SlotsInit == Init => SInv
<1> SUFFICES ASSUME Init PROVE SlotsOK(main, worker, dispatch, used)
  BY DEF SInv
<1>1. /\ main.pending = {} /\ main.busy = [w \in Slot |-> FALSE]
      /\ main.inbox = [w \in Slot |-> <<>>]
      /\ \A w \in Slot : worker[w].runs = {}
  BY DEF Init, IdleMain, FreshWorker
<1>2. \A w \in Slot : \A r : ~At(main, worker, w, r)
  BY <1>1, ListFacts DEF At, Waits, Works
<1> QED
  BY <1>1, <1>2, SlotsFree

(* One lemma for the steps at which only messages without runs are posted. *)
LEMMA SlotsPosted ==
  ASSUME HInv, SInv, worker' = worker, NEW g, main' = g, NEW e, NEW v,
         dispatch' = e, used' = v, SameRuns(main, g), g.pending = main.pending,
         g.busy = main.busy,
         \A r : /\ Stray(dispatch, r) /\ Seen(dispatch, used, r) => Stray(e, r)
                /\ MaxRenumberings = 0 /\ Seen(dispatch, used, r) => Seen(e, v, r)
  PROVE  SlotsOK(main', worker', dispatch', used')
<1> DEFINE h == main
           k == worker
           d == dispatch
           u == used
<1>1. SlotsOK(h, k, d, u)
  BY DEF SInv
<1> HIDE DEF h, k, d, u
<1>2. SlotsOK(g, k, d, u)
  BY <1>1, SlotsKeepPosting DEF h
<1>3. SlotsOK(g, k, e, v)
  BY <1>2, SlotsKnown DEF d, u
<1> QED
  BY <1>3 DEF k

LEMMA ConnectSlots == HInv /\ SInv /\ Connect => SInv'
<1> SUFFICES ASSUME HInv, SInv, Connect
             PROVE  SlotsOK(main', worker', dispatch', used')
  BY DEF SInv
<1>1. /\ worker' = worker /\ dispatch' = dispatch /\ used' = used
      /\ \/ dispatch.session # 0 /\ main' = HandleStartSession(main, dispatch.session)
         \/ main' = main
  BY DEF Connect
<1>2. /\ Shape(main) /\ Priming(main, worker) /\ dispatch.session \in 0 .. MaxSessions
  <2>1. MaxSessions \in Nat
    BY HostAssumption
  <2> QED
    BY <2>1 DEF HInv, HostOK, DispatchOK, UsedOK
<1>3. SameRuns(main, main') /\ main'.pending = main.pending /\ main'.busy = main.busy
  <2>1. CASE main' = main
    BY <2>1, SameInbox
  <2>2. CASE main' = HandleStartSession(main, dispatch.session)
    BY <1>2, <2>2, HandleStartSessionFields
  <2> QED
    BY <1>1, <2>1, <2>2
<1> QED
  BY <1>1, <1>3, SlotsPosted

LEMMA StartSessionSlots == HInv /\ SInv /\ StartSession => SInv'
<1> SUFFICES ASSUME HInv, SInv, StartSession
             PROVE  SlotsOK(main', worker', dispatch', used')
  BY DEF SInv
<1> DEFINE s == used.sessions + 1
<1>1. /\ used.sessions < MaxSessions /\ used' = [used EXCEPT !.sessions = s]
      /\ dispatch' = [ session |-> s, coarse |-> TwoStage, seq |-> 0, outstanding |-> Nothing ]
      /\ main' = main \/ main' = HandleStartSession(main, s)
      /\ worker' = worker
  BY DEF StartSession
<1>2. /\ Shape(main) /\ Priming(main, worker) /\ UsedOK(used)
  BY DEF HInv, HostOK
<1>3. s \in 0 .. MaxSessions /\ used.sessions \in Nat /\ used'.sessions = s
  <2>1. MaxSessions \in Nat
    BY HostAssumption
  <2> QED
    BY <1>1, <1>2, <2>1 DEF UsedOK
<1>4. SameRuns(main, main') /\ main'.pending = main.pending /\ main'.busy = main.busy
  <2>1. CASE main' = main
    BY <2>1, SameInbox
  <2>2. CASE main' = HandleStartSession(main, s)
    BY <1>2, <1>3, <2>2, HandleStartSessionFields
  <2> QED
    BY <1>1, <2>1, <2>2
<1>5. ASSUME NEW r
      PROVE  /\ Stray(dispatch, r) /\ Seen(dispatch, used, r) => Stray(dispatch', r)
             /\ MaxRenumberings = 0 /\ Seen(dispatch, used, r) => Seen(dispatch', used', r)
  <2>1. r.batch[1] \in 1 .. used.sessions => r.batch[1] \in 1 .. s /\ r.batch[1] # s
    BY <1>3
  <2>2. DOMAIN dispatch'.outstanding = {} /\ dispatch'.session = s
    BY <1>1 DEF Nothing
  <2> QED
    BY <1>3, <2>1, <2>2 DEF Stray, Seen
<1> QED
  BY <1>1, <1>4, <1>5, SlotsPosted

LEMMA EndSessionSlots == HInv /\ SInv /\ EndSession => SInv'
<1> SUFFICES ASSUME HInv, SInv, EndSession
             PROVE  SlotsOK(main', worker', dispatch', used')
  BY DEF SInv
<1>1. /\ dispatch' = [dispatch EXCEPT !.session = 0, !.outstanding = Nothing]
      /\ \/ main' = main
         \/ main' = HandleCancelSession(main, dispatch.session) /\ link = "up"
      /\ worker' = worker /\ used' = used
  BY DEF EndSession
<1>2. /\ Shape(main) /\ Priming(main, worker) /\ UsedOK(used) /\ IsFiniteSet(main.pending)
      /\ DispatchOK(dispatch, used)
      /\ link = "up" => main.active = dispatch.session
  BY DEF HInv, HostOK, Books, LinkOK
<1>3. SameRuns(main, main') /\ main'.pending = main.pending /\ main'.busy = main.busy
  <2>1. CASE main' = main
    BY <2>1, SameInbox
  <2>2. CASE main' = HandleCancelSession(main, dispatch.session) /\ link = "up"
    <3>1. main' = HandleCancelSession(main, main.active)
      BY <1>2, <2>2
    <3> QED
      BY <1>2, <3>1, HandleCancelSessionFields
  <2> QED
    BY <1>1, <2>1, <2>2
<1>4. DOMAIN dispatch'.outstanding = {} /\ dispatch'.session = 0
  BY <1>1, <1>2 DEF DispatchOK, Nothing
<1>5. ASSUME NEW r
      PROVE  /\ Stray(dispatch, r) /\ Seen(dispatch, used, r) => Stray(dispatch', r)
             /\ MaxRenumberings = 0 /\ Seen(dispatch, used, r) => Seen(dispatch', used', r)
  BY <1>1, <1>4 DEF Stray, Seen
<1> QED
  BY <1>1, <1>3, <1>5, SlotsPosted

LEMMA RenumberSlots == HInv /\ SInv /\ Renumber => SInv'
<1> SUFFICES ASSUME HInv, SInv, Renumber
             PROVE  SlotsOK(main', worker', dispatch', used')
  BY DEF SInv
<1>1. /\ main' = main /\ worker' = worker /\ used.renumberings < MaxRenumberings
  BY DEF Renumber
<1>2. MaxRenumberings # 0
  <2>1. used.renumberings \in Nat
    BY DEF HInv, UsedOK
  <2> QED
    BY <1>1, <2>1
<1>3. SameRuns(main, main') /\ main'.pending = main.pending /\ main'.busy = main.busy
  BY <1>1, SameInbox
<1> QED
  BY <1>1, <1>2, <1>3, SlotsPosted DEF Stray

LEMMA ReceiveAnswerSlots ==
  ASSUME NEW a PROVE HInv /\ SInv /\ ReceiveAnswer(a) => SInv'
<1> SUFFICES ASSUME HInv, SInv, ReceiveAnswer(a)
             PROVE  SlotsOK(main', worker', dispatch', used')
  BY DEF SInv
<1>1. /\ dispatch' = [dispatch EXCEPT !.outstanding = Without(@, a.id)]
      /\ main' = [main EXCEPT
                    !.answers = @ \ {a},
                    !.inFlight = IF a.kind \in {"result", "partial"} THEN @ \ {a.id} ELSE @]
      /\ worker' = worker /\ used' = used
  BY DEF ReceiveAnswer
<1>2. Shape(main) /\ DispatchOK(dispatch, used)
  BY DEF HInv, HostOK
<1>3. main'.inbox = main.inbox /\ main'.pending = main.pending /\ main'.busy = main.busy
  BY <1>1, <1>2 DEF Shape
<1>4. /\ DOMAIN dispatch'.outstanding \subseteq DOMAIN dispatch.outstanding
      /\ dispatch'.session = dispatch.session /\ dispatch'.seq = dispatch.seq
  BY <1>1, <1>2 DEF DispatchOK, Without
<1>5. ASSUME NEW r
      PROVE  /\ Stray(dispatch, r) /\ Seen(dispatch, used, r) => Stray(dispatch', r)
             /\ MaxRenumberings = 0 /\ Seen(dispatch, used, r) => Seen(dispatch', used', r)
  BY <1>1, <1>4 DEF Stray, Seen
<1> QED
  BY <1>1, <1>3, <1>5, SameInbox, SlotsPosted

LEMMA DisconnectSlots ==
  ASSUME MaxDrops = 0 \/ MaxRenumberings = 0 PROVE HInv /\ SInv /\ Disconnect => SInv'
<1> SUFFICES ASSUME HInv, SInv, Disconnect
             PROVE  SlotsOK(main', worker', dispatch', used')
  BY DEF SInv
<1>1. /\ worker' = worker /\ main' = ResetPeerScopedState(main) /\ used.drops < MaxDrops
      /\ used' = [used EXCEPT !.drops = @ + 1]
      /\ dispatch' = [dispatch EXCEPT !.outstanding = Nothing]
  BY DEF Disconnect
<1>2. /\ Shape(main) /\ Priming(main, worker) /\ UsedOK(used) /\ IsFiniteSet(main.pending)
      /\ DispatchOK(dispatch, used)
  BY DEF HInv, HostOK, Books
<1>3. MaxRenumberings = 0
  <2>1. used.drops \in Nat
    BY <1>2 DEF UsedOK
  <2> QED
    BY <1>1, <2>1
<1> DEFINE g == main'
           e == dispatch'
           v == used'
           k == worker'
<1>4. /\ g.pending = {} /\ \A w \in Slot : ~g.busy[w]
      /\ SameRuns(main, g)
  BY <1>1, <1>2, ResetFields
<1>5. /\ DOMAIN e.outstanding = {} /\ e.session = dispatch.session /\ e.seq = dispatch.seq
      /\ v.sessions = used.sessions /\ k = worker
  BY <1>1, <1>2 DEF DispatchOK, UsedOK, Nothing
<1> HIDE DEF g, e, v, k
<1>6. \A w \in Slot : \A r : At(g, k, w, r) => Stray(e, r) /\ Seen(e, v, r)
  <2>1. SUFFICES ASSUME NEW w \in Slot, NEW r, At(g, k, w, r)
                 PROVE  Stray(e, r) /\ Seen(e, v, r)
    OBVIOUS
  <2>2. At(main, k, w, r)
    BY <1>4, <2>1, SameRunsAt
  <2>3. Seen(dispatch, used, r)
    BY <1>3, <1>5, <2>2 DEF SInv, SlotsOK, Known, k
  <2> QED
    BY <1>3, <1>5, <2>3 DEF Stray, Seen
<1>7. SlotsOK(g, k, e, v)
  BY <1>4, <1>6, SlotsFree
<1> QED
  BY <1>7 DEF g, k, e, v

LEMMA HostRestartsSlots == HInv /\ SInv /\ HostRestarts => SInv'
<1> SUFFICES ASSUME HostRestarts PROVE SlotsOK(main', worker', dispatch', used')
  BY DEF SInv
<1> DEFINE g == main'
           e == dispatch'
           v == used'
           k == worker'
<1>1. g = IdleMain /\ k = [w \in Slot |-> FreshWorker]
  BY DEF HostRestarts
<1>2. /\ g.pending = {} /\ g.busy = [w \in Slot |-> FALSE] /\ g.inbox = [w \in Slot |-> <<>>]
      /\ \A w \in Slot : k[w].runs = {}
  BY <1>1 DEF IdleMain, FreshWorker
<1> HIDE DEF g, e, v, k
<1>3. \A w \in Slot : \A r : ~At(g, k, w, r)
  BY <1>2, ListFacts DEF At, Waits, Works
<1>4. SlotsOK(g, k, e, v)
  BY <1>2, <1>3, SlotsFree
<1> QED
  BY <1>4 DEF g, k, e, v

(* The batch just assigned is at no worker yet. *)
LEMMA ArrivesSlots ==
  ASSUME HInv, SInv, NEW b, Arrives(b)
  PROVE  SlotsOK(main, worker, dispatch', used)
<1> DEFINE d == dispatch'
<1>1. /\ b.id = <<dispatch.session, dispatch.seq + 1>>
      /\ DOMAIN d.outstanding = DOMAIN dispatch.outstanding \cup {b.id}
      /\ d.session = dispatch.session /\ d.seq = dispatch.seq + 1 /\ dispatch.seq \in Nat
  BY DEF Arrives, HInv, DispatchOK
<1>2. SlotsOK(main, worker, dispatch, used)
  BY DEF SInv
<1> HIDE DEF d
<1>3. ASSUME NEW r
      PROVE  /\ Stray(dispatch, r) /\ Seen(dispatch, used, r) => Stray(d, r)
             /\ MaxRenumberings = 0 /\ Seen(dispatch, used, r) => Seen(d, used, r)
  <2>1. \A n \in 1 .. dispatch.seq : n \in 1 .. dispatch.seq + 1 /\ n # dispatch.seq + 1
    BY <1>1
  <2>2. b.id[1] = dispatch.session /\ b.id[2] = dispatch.seq + 1
    BY <1>1
  <2>3. Seen(dispatch, used, r) => r.batch # b.id
    BY <2>1, <2>2 DEF Seen
  <2> QED
    BY <1>1, <2>1, <2>3 DEF Stray, Seen
<1>4. SlotsOK(main, worker, d, used)
  BY <1>2, <1>3, SlotsKnown
<1> QED
  BY <1>4 DEF d

LEMMA AssignSlots == ASSUME NEW ps \in Batches PROVE HInv /\ SInv /\ Assign(ps) => SInv'
<1> SUFFICES ASSUME HInv, SInv, Assign(ps)
             PROVE  SlotsOK(main', worker', dispatch', used')
  BY DEF SInv
<1>1. worker' = worker /\ used' = used /\ UsedOK(used)
  BY DEF Assign, HInv
<1>2. PICK b : Arrives(b)
  BY AssignArrives
<1> DEFINE d == dispatch'
           g == main'
<1>3. /\ HostOK(main, worker, d, used, {b.id}) /\ Assigned(b, d) /\ DispatchOK(d, used)
      /\ g = HandleBatchAssign(main, b)
  BY <1>2 DEF Arrives
<1>4. SlotsOK(main, worker, d, used)
  BY <1>2, ArrivesSlots
<1> HIDE DEF d, g
<1>5. SlotsOK(HandleBatchAssign(main, b), worker, d, used)
  BY <1>1, <1>3, <1>4, HandleBatchAssignSlots
<1> QED
  BY <1>1, <1>3, <1>5 DEF d, g

(* Worker w reads its first message: a run there is being worked on now.   *)
ReadOne(h, k, g, l, w) ==
  /\ g.pending = h.pending /\ g.busy = h.busy
  /\ g.inbox[w] = Tail(h.inbox[w])
  /\ l[w].runs = IF h.inbox[w][1].kind = "run" THEN k[w].runs \cup {h.inbox[w][1]}
                 ELSE k[w].runs
  /\ \A v \in Slot \ {w} : g.inbox[v] = h.inbox[v] /\ l[v].runs = k[v].runs

LEMMA ReadOneSlots ==
  ASSUME NEW h, NEW k, NEW d, NEW u, SlotsOK(h, k, d, u), NEW g, NEW l, NEW w \in Slot,
         ReadOne(h, k, g, l, w), AllLive(l) => AllLive(k), IsList(h.inbox[w]),
         h.inbox[w] # <<>>
  PROVE  SlotsOK(g, l, d, u)
<1> DEFINE q == h.inbox[w]
           m == q[1]
           n == Len(q)
<1>1. /\ n \in Nat \ {0} /\ Len(g.inbox[w]) = n - 1
      /\ \A i \in 1 .. n - 1 : g.inbox[w][i] = q[i + 1]
  BY ListTail DEF ReadOne
<1>2. /\ \A i \in 1 .. n - 1 : i + 1 \in 1 .. n /\ i + 1 # 1
      /\ \A i \in 1 .. n : i # 1 => i - 1 \in 1 .. n - 1 /\ i - 1 + 1 = i
      /\ 1 \in 1 .. n
      /\ \A i, j \in 1 .. n - 1 : i + 1 = j + 1 => i = j
  BY <1>1
<1>3. /\ \A i, r : RunIn(g, w, i, r) => i \in 1 .. n - 1 /\ RunIn(h, w, i + 1, r)
      /\ \A i, r : RunIn(h, w, i, r) => i = 1 \/ RunIn(g, w, i - 1, r)
      /\ \A r : RunIn(h, w, 1, r) <=> m.kind = "run" /\ m.run = r
  BY <1>1, <1>2 DEF RunIn
<1>4. /\ \A r : Works(l, w, r) <=> Works(k, w, r) \/ (m.kind = "run" /\ m.run = r)
      /\ m.kind # "run" => l[w].runs = k[w].runs
      /\ m.kind = "run" => l[w].runs = k[w].runs \cup {m}
  BY DEF Works, ReadOne
<1> HIDE DEF m, n, q
<1>5. /\ \A r : Waits(g, w, r) => Waits(h, w, r)
      /\ \A r : Waits(h, w, r) => Waits(g, w, r) \/ (m.kind = "run" /\ m.run = r)
      /\ \A r : m.kind = "run" /\ m.run = r => Waits(h, w, r)
  <2>1. \A i, r : /\ RunIn(g, w, i, r) => i \in 1 .. Len(g.inbox[w])
                  /\ RunIn(h, w, i, r) => i \in 1 .. Len(h.inbox[w])
    BY DEF RunIn
  <2> QED
    BY <1>2, <1>3, <2>1 DEF Waits
<1>6. \A v \in Slot \ {w} : \A r : /\ At(g, l, v, r) <=> At(h, k, v, r)
                                   /\ Once(h, k, v, r) => Once(g, l, v, r)
  BY DEF ReadOne, At, Waits, Works, RunIn, Once
<1>7. \A r : At(g, l, w, r) <=> At(h, k, w, r)
  BY <1>4, <1>5 DEF At
<1>8. ASSUME NEW r, Once(h, k, w, r) PROVE Once(g, l, w, r)
  <2>1. /\ ~(Waits(h, w, r) /\ Works(k, w, r))
        /\ \A i, j : RunIn(h, w, i, r) /\ RunIn(h, w, j, r) => i = j
        /\ \A x, y \in k[w].runs : x.run = r /\ y.run = r => x = y
    BY <1>8 DEF Once, RunIn
  <2>2. \A i, j : RunIn(g, w, i, r) /\ RunIn(g, w, j, r) => i = j
    BY <1>2, <1>3, <2>1
  <2>3. CASE m.kind = "run" /\ m.run = r
    <3>1. ~Works(k, w, r) /\ RunIn(h, w, 1, r)
      BY <1>3, <1>5, <2>1, <2>3
    <3>2. \A i : ~RunIn(g, w, i, r)
      BY <1>2, <1>3, <2>1, <3>1
    <3>3. \A x \in k[w].runs : x.run # r
      BY <3>1 DEF Works
    <3> QED
      BY <1>4, <2>2, <2>3, <3>2, <3>3 DEF Once, Waits
  <2>4. CASE ~(m.kind = "run" /\ m.run = r)
    <3>1. ~(Waits(g, w, r) /\ Works(l, w, r))
      BY <1>4, <1>5, <2>1, <2>4
    <3>2. \A x \in l[w].runs : x.run = r => x \in k[w].runs
      BY <1>4, <2>4
    <3> QED
      BY <2>1, <2>2, <3>1, <3>2 DEF Once
  <2> QED
    BY <2>3, <2>4
<1>9. \A v \in Slot : \A r : At(g, l, v, r) <=> At(h, k, v, r)
  BY <1>6, <1>7
<1>10. \A v \in Slot : \A r \in h.pending : Once(g, l, v, r)
  BY <1>6, <1>8 DEF SlotsOK, Owned, Unique
<1>11. g.pending = h.pending /\ g.busy = h.busy
  BY DEF ReadOne
<1> QED
  BY <1>9, <1>10, <1>11, SlotsKeep

(* A worker knows the sessions of the runs it reads. *)
LEMMA ReadMessageReads ==
  ASSUME HInv, NEW w \in Slot, ReadMessage(w)
  PROVE  /\ ReadOne(main, worker, main', worker', w)
         /\ AllLive(worker') => AllLive(worker)
         /\ IsList(main.inbox[w]) /\ main.inbox[w] # <<>>
         /\ main'.running = main.running /\ main'.answers = main.answers
         /\ dispatch' = dispatch /\ used' = used
<1> DEFINE q == main.inbox[w]
           m == Head(q)
<1>1. /\ Shape(main) /\ WorkersOK(worker) /\ InboxOK(q) /\ IsList(q)
      /\ worker[w].alive /\ q # <<>>
  BY DEF HInv, HostOK, Priming, InboxOK, ReadMessage
<1>2. m = q[1] /\ m.kind \in {"prime", "unprime", "cancel", "run"}
  <2>1. 1 \in 1 .. Len(q)
    <3>1. Len(q) \in Nat /\ Len(q) # 0
      BY <1>1, ListFacts
    <3> QED
      BY <3>1
  <2> QED
    BY <1>1, <2>1 DEF InboxOK
<1>3. m.kind = "run" => m.run.session \in worker[w].primed
  BY <1>1, HInvPrimed DEF RunsArePrimed
<1>4. /\ main' = [main EXCEPT !.inbox = [main.inbox EXCEPT ![w] = Tail(q)]]
      /\ dispatch' = dispatch /\ used' = used
  BY <1>1, <1>3 DEF ReadMessage, Shape
<1>5. worker' =
        CASE m.kind = "prime"   -> [worker EXCEPT ![w].primed = @ \cup {m.session}]
          [] m.kind = "unprime" -> [worker EXCEPT ![w].primed = @ \ {m.session}]
          [] m.kind = "cancel"  -> [worker EXCEPT ![w].cancelled = @ \cup {m.run}]
          [] OTHER -> [worker EXCEPT ![w].cancelled = @ \ {m.run},
                                     ![w].runs = @ \cup {m}]
  BY <1>2, <1>3 DEF ReadMessage
<1>6. /\ main'.pending = main.pending /\ main'.busy = main.busy
      /\ main'.running = main.running /\ main'.answers = main.answers
      /\ main'.inbox[w] = Tail(q) /\ \A v \in Slot \ {w} : main'.inbox[v] = main.inbox[v]
  BY <1>1, <1>4 DEF Shape
<1>7. /\ worker = [v \in Slot |-> worker[v]]
      /\ worker[w] = [ alive |-> worker[w].alive, primed |-> worker[w].primed,
                       cancelled |-> worker[w].cancelled, runs |-> worker[w].runs ]
  BY <1>1 DEF WorkersOK
<1>8. /\ worker'[w].runs = IF m.kind = "run" THEN worker[w].runs \cup {m} ELSE worker[w].runs
      /\ worker'[w].alive = worker[w].alive
      /\ \A v \in Slot \ {w} : worker'[v] = worker[v]
  <2>1. CASE m.kind = "prime"
    BY <1>5, <1>7, <2>1
  <2>2. CASE m.kind = "unprime"
    BY <1>5, <1>7, <2>2
  <2>3. CASE m.kind = "cancel"
    BY <1>5, <1>7, <2>3
  <2>4. CASE m.kind = "run"
    <3>1. worker' = [worker EXCEPT ![w] = [worker[w] EXCEPT
                       !.cancelled = worker[w].cancelled \ {m.run},
                       !.runs = worker[w].runs \cup {m}]]
      BY <1>5, <2>4
    <3> QED
      BY <1>7, <2>4, <3>1
  <2> QED
    BY <1>2, <2>1, <2>2, <2>3, <2>4
<1>9. AllLive(worker') => AllLive(worker)
  BY <1>8 DEF AllLive
<1>10. ReadOne(main, worker, main', worker', w)
  BY <1>2, <1>6, <1>8 DEF ReadOne
<1> QED
  BY <1>1, <1>4, <1>6, <1>9, <1>10

LEMMA ReadMessageSlots ==
  ASSUME NEW w \in Slot PROVE HInv /\ SInv /\ ReadMessage(w) => SInv'
<1> SUFFICES ASSUME HInv, SInv, ReadMessage(w)
             PROVE  SlotsOK(main', worker', dispatch', used')
  BY DEF SInv
<1> DEFINE g == main'
           l == worker'
<1>1. /\ ReadOne(main, worker, g, l, w) /\ (AllLive(l) => AllLive(worker))
      /\ IsList(main.inbox[w]) /\ main.inbox[w] # <<>>
      /\ dispatch' = dispatch /\ used' = used
  BY ReadMessageReads
<1>2. SlotsOK(main, worker, dispatch, used)
  BY DEF SInv
<1> HIDE DEF g, l
<1>3. SlotsOK(g, l, dispatch, used)
  BY <1>1, <1>2, ReadOneSlots
<1> QED
  BY <1>1, <1>3 DEF g, l

LEMMA EndOfRunStepSlots ==
  ASSUME HInv, SInv, HInv', NEW w \in Slot, NEW m \in worker[w].runs, NEW ok, NEW evaluations,
         main' = HandleReply(main, w, m.run, ok, evaluations),
         \A v \in Slot : /\ worker'[v].alive = worker[v].alive
                         /\ worker'[v].primed = worker[v].primed
                         /\ worker'[v].runs = IF v = w THEN worker[v].runs \ {m}
                                              ELSE worker[v].runs,
         dispatch' = dispatch, used'.sessions = used.sessions
  PROVE  SlotsOK(main', worker', dispatch', used')
<1>1. /\ HostOK(main, worker, dispatch, used, {}) /\ DispatchOK(dispatch, used)
      /\ UsedOK(used) /\ Priming(main, worker)
  BY DEF HInv, HostOK
<1>2. SlotsOK(main, worker, dispatch, used)
  BY DEF SInv
<1> DEFINE k == worker
           l == worker'
           g == main'
           u == used'
<1>3. /\ \A v \in Slot : l[v].runs = IF v = w THEN k[v].runs \ {m} ELSE k[v].runs
      /\ \A v \in Slot : l[v].alive = k[v].alive /\ l[v].primed = k[v].primed
      /\ g = HandleReply(main, w, m.run, ok, evaluations)
      /\ u.sessions = used.sessions /\ m \in k[w].runs
      /\ HostOK(main, k, dispatch, used, {}) /\ Priming(main, k)
      /\ SlotsOK(main, k, dispatch, used)
  BY <1>1, <1>2
<1> HIDE DEF k, l, g, u
<1>4. Priming(main, l)
  BY <1>3, SameWorkers
<1>5. HostOK(main, l, dispatch, used, {}) /\ LeavesRun(k, l, w, m)
  BY <1>3, <1>4 DEF HostOK, AllLive, LeavesRun
<1>6. SlotsOK(g, l, dispatch, used)
  BY ONLY <1>1, <1>3, <1>5, w \in Slot, EndOfRunSlots
<1>7. SlotsOK(g, l, dispatch, u)
  BY <1>3, <1>6, SlotsKnown DEF Seen
<1> QED
  BY <1>7 DEF l, g, u

LEMMA RunsSlots ==
  ASSUME NEW w \in Slot, NEW m \in worker[w].runs, HInv, SInv, HInv'
  PROVE  /\ FinishRun(w, m) => SlotsOK(main', worker', dispatch', used')
         /\ \A i : StopRun(w, m, i) => SlotsOK(main', worker', dispatch', used')
<1>1. /\ worker = [v \in Slot |-> worker[v]]
      /\ worker[w] = [ alive |-> worker[w].alive, primed |-> worker[w].primed,
                       cancelled |-> worker[w].cancelled, runs |-> worker[w].runs ]
      /\ UsedOK(used)
  BY DEF HInv, WorkersOK
<1>2. ASSUME FinishRun(w, m) PROVE SlotsOK(main', worker', dispatch', used')
  <2>1. /\ worker' = [worker EXCEPT ![w].runs = @ \ {m}]
        /\ main' = HandleReply(main, w, m.run, TRUE, m.policies)
        /\ dispatch' = dispatch /\ used' = used
    BY <1>2 DEF FinishRun
  <2>2. \A v \in Slot : /\ worker'[v].alive = worker[v].alive
                        /\ worker'[v].primed = worker[v].primed
                        /\ worker'[v].runs = IF v = w THEN worker[v].runs \ {m}
                                             ELSE worker[v].runs
    BY <1>1, <2>1
  <2> QED
    BY <2>1, <2>2, EndOfRunStepSlots
<1>3. ASSUME NEW i, StopRun(w, m, i) PROVE SlotsOK(main', worker', dispatch', used')
  <2>1. /\ worker' = [worker EXCEPT ![w].runs = @ \ {m}, ![w].cancelled = @ \ {m.run}]
        /\ main' = HandleReply(main, w, m.run, FALSE, SubSeq(m.policies, 1, i))
        /\ dispatch' = dispatch
        /\ used' = used \/ used' = [used EXCEPT !.faults = @ + 1]
    BY <1>3 DEF StopRun
  <2>2. \A v \in Slot : /\ worker'[v].alive = worker[v].alive
                        /\ worker'[v].primed = worker[v].primed
                        /\ worker'[v].runs = IF v = w THEN worker[v].runs \ {m}
                                             ELSE worker[v].runs
    BY <1>1, <2>1
  <2>3. used'.sessions = used.sessions
    BY <1>1, <2>1 DEF UsedOK
  <2> QED
    BY <2>1, <2>2, <2>3, EndOfRunStepSlots
<1> QED
  BY <1>2, <1>3

LEMMA WorkerCrashesSlots ==
  ASSUME NEW w \in Slot PROVE HInv /\ SInv /\ WorkerCrashes(w) => SInv'
<1> SUFFICES ASSUME HInv, SInv, WorkerCrashes(w)
             PROVE  SlotsOK(main', worker', dispatch', used')
  BY DEF SInv
<1>1. /\ worker' = [worker EXCEPT ![w] = [FreshWorker EXCEPT !.alive = FALSE]]
      /\ main' = [main EXCEPT !.busy[w] = TRUE, !.inbox[w] = <<>>]
      /\ dispatch' = dispatch /\ used' = [used EXCEPT !.faults = @ + 1]
  BY DEF WorkerCrashes
<1>2. Shape(main) /\ WorkersOK(worker) /\ UsedOK(used)
  BY DEF HInv, HostOK
<1> DEFINE g == main'
           l == worker'
           u == used'
<1>3. /\ g.pending = main.pending /\ g.inbox[w] = <<>>
      /\ \A v \in Slot \ {w} : g.inbox[v] = main.inbox[v]
  BY <1>1, <1>2 DEF Shape
<1>4. /\ l[w].runs = {} /\ ~l[w].alive
      /\ \A v \in Slot \ {w} : l[v] = worker[v]
  BY <1>1, <1>2 DEF WorkersOK, FreshWorker
<1>5. SlotsOK(main, worker, dispatch, used) /\ u.sessions = used.sessions
  BY <1>1, <1>2 DEF SInv, UsedOK
<1> HIDE DEF g, l, u
<1>6. \A r : ~At(g, l, w, r) /\ Once(g, l, w, r)
  BY <1>3, <1>4, ListFacts DEF At, Waits, Works, Once, RunIn
<1>7. \A v \in Slot \ {w} : \A r : /\ At(g, l, v, r) <=> At(main, worker, v, r)
                                   /\ Once(main, worker, v, r) => Once(g, l, v, r)
  BY <1>3, <1>4 DEF At, Waits, Works, Once, RunIn
<1>8. Owned(g, l)
  <2>1. ~AllLive(l)
    BY <1>4 DEF AllLive
  <2>2. /\ \A r \in g.pending : \A v, x \in Slot : At(g, l, v, r) /\ At(g, l, x, r) => v = x
        /\ \A v \in Slot : \A r \in g.pending : Once(g, l, v, r)
    BY <1>3, <1>5, <1>6, <1>7 DEF SlotsOK, Owned, Unique
  <2> QED
    BY <2>1, <2>2 DEF Owned, Unique
<1>9. Known(g, l, dispatch, u)
  BY <1>3, <1>5, <1>6, <1>7 DEF SlotsOK, Known, Seen
<1> QED
  BY <1>1, <1>8, <1>9 DEF SlotsOK, g, l, u

LEMMA SlotsStep ==
  ASSUME MaxDrops = 0 \/ MaxRenumberings = 0
  PROVE  HInv /\ HInv' /\ SInv /\ [Next]_hostVars => SInv'
<1> SUFFICES ASSUME HInv, HInv', SInv, [Next]_hostVars PROVE SInv'
  OBVIOUS
<1>1. CASE Next
  <2>1. CASE Connect \/ Disconnect \/ HostRestarts
    BY <2>1, ConnectSlots, DisconnectSlots, HostRestartsSlots
  <2>2. CASE DispatcherActs
    BY <2>2, StartSessionSlots, EndSessionSlots, RenumberSlots, AssignSlots,
       ReceiveAnswerSlots DEF DispatcherActs
  <2>3. ASSUME NEW w \in Slot, WorkerActs(w) PROVE SInv'
    <3>1. CASE ReadMessage(w)
      BY <3>1, ReadMessageSlots
    <3>2. CASE Runs(w)
      <4>1. PICK m \in worker[w].runs :
              FinishRun(w, m) \/ \E i \in 0 .. Len(m.policies) - 1 : StopRun(w, m, i)
        BY <3>2 DEF Runs
      <4> QED
        BY <4>1, RunsSlots DEF SInv
    <3>3. CASE WorkerCrashes(w)
      BY <3>3, WorkerCrashesSlots
    <3> QED
      BY <2>3, <3>1, <3>2, <3>3 DEF WorkerActs
  <2> QED
    BY <1>1, <2>1, <2>2, <2>3 DEF Next
<1>2. CASE UNCHANGED hostVars
  BY <1>2 DEF hostVars, SInv
<1> QED
  BY <1>1, <1>2

LEMMA SlotsCounted == HInv /\ SInv => BusyCountsRuns
<1> SUFFICES ASSUME HInv, SInv, AllLive(worker)
             PROVE  Cardinality({w \in Slot : main.busy[w]}) = Cardinality(main.pending)
  BY DEF BusyCountsRuns, AllLive
<1> DEFINE P == main.pending
           B == {w \in Slot : main.busy[w]}
           a(w, r) == At(main, worker, w, r)
           f == [r \in P |-> CHOOSE w \in Slot : a(w, r)]
<1>1. /\ \A r \in P : \E w \in Slot : a(w, r)
      /\ \A r \in P : \A v, w \in Slot : a(v, r) /\ a(w, r) => v = w
      /\ \A w \in Slot : main.busy[w] <=> \E r \in P : a(w, r)
      /\ \A w \in Slot : \A r, s \in P : a(w, r) /\ a(w, s) => r = s
  BY DEF SInv, SlotsOK, Owned, Unique, Filled
<1>2. IsFiniteSet(P)
  BY DEF HInv, HostOK, Books
<1> HIDE DEF P, a
<1>3. \A r \in P : f[r] \in Slot /\ a(f[r], r)
  BY <1>1
<1>4. /\ f \in [P -> B]
      /\ \A r, s \in P : f[r] = f[s] => r = s
      /\ \A w \in B : \E r \in P : f[r] = w
  <2>1. f = [r \in P |-> f[r]]
    OBVIOUS
  <2> HIDE DEF f
  <2>2. \A r \in P : f[r] \in B
    BY <1>1, <1>3
  <2>3. \A w \in B : \E r \in P : f[r] = w
    BY <1>1, <1>3
  <2> QED
    BY <1>1, <1>3, <2>1, <2>2, <2>3
<1> HIDE DEF f, B
<1>5. f \in Bijection(P, B)
  BY <1>4 DEF Bijection, Injection, Surjection, IsInjective
<1>6. ExistsBijection(P, B)
  BY <1>5 DEF ExistsBijection
<1> QED
  BY <1>2, <1>6, FS_Bijection DEF P, B

(* No slot is lost and none is given twice while the workers live: as many *)
(* are busy as runs are waited for, through every fan-out, error, cancel   *)
(* and reconnect.  What the hypothesis leaves out is the one way a run     *)
(* that was given up can be taken for one that is waited for: it outlives  *)
(* a lost connection (host.ts:361) and its batch's number is handed out    *)
(* again, by a fine stage or a resumed session.                            *)
THEOREM BusyIsRunning ==
  ASSUME MaxDrops = 0 \/ MaxRenumberings = 0
  PROVE  Spec => []BusyCountsRuns
<1>1. Init => SInv
  BY SlotsInit
<1>2. HInv /\ HInv' /\ SInv /\ [Next]_hostVars => SInv'
  BY SlotsStep
<1>3. HInv /\ SInv => BusyCountsRuns
  BY SlotsCounted
<1> QED
  BY <1>1, <1>2, <1>3, HInvAlways, PTL DEF Spec
-----------------------------------------------------------------------------
(* The slices of a batch that is being run for the dispatcher.  Those that *)
(* came back, those at the workers and those on their way are slices of    *)
(* the policies the dispatcher knows, each under the number of its part.   *)
Parts(n) == IF n = 1 THEN {0} ELSE 1 .. n
Slice(ps, n, i) == PartitionPolicies(ps, n)[IF n = 1 THEN 1 ELSE i]
Holding(h, k, w, m) ==
  m \in k[w].runs \/ \E i \in 1 .. Len(h.inbox[w]) : h.inbox[w][i] = m /\ m.kind = "run"
Wanted(h, d) == DOMAIN h.running \cap DOMAIN d.outstanding

SlicesOK(b, ps, R) ==
  /\ DOMAIN b.done \subseteq Parts(b.parts)
  /\ \A r \in R : r.part \in Parts(b.parts)
  /\ \A i \in DOMAIN b.done : b.done[i].ok => b.done[i].evaluations = Slice(ps, b.parts, i)
IsSlice(h, d, m) ==
  m.policies = Slice(d.outstanding[m.run.batch].policies,
                     h.running[m.run.batch].parts, m.run.part)
AnswersWhole(h, d) ==
  \A a \in h.answers : a.kind = "result" /\ a.id \in DOMAIN d.outstanding =>
    a.evaluations = d.outstanding[a.id].policies

Whole(h, k, d) ==
  /\ \A id \in Wanted(h, d) :
       SlicesOK(h.running[id], d.outstanding[id].policies, RunsOf(h, id))
  /\ \A w \in Slot : \A m :
       Holding(h, k, w, m) /\ m.run \in h.pending /\ m.run.batch \in Wanted(h, d) =>
         IsSlice(h, d, m)
  /\ AnswersWhole(h, d)
WInv == Whole(main, worker, dispatch)

(* Nothing new is run, held by a worker or answered. *)
NoneNew(h, k, d, g, l, e) ==
  /\ g.pending \subseteq h.pending
  /\ \A id \in DOMAIN g.running : id \in DOMAIN h.running /\ g.running[id] = h.running[id]
  /\ \A a \in g.answers : a.kind = "result" => a \in h.answers
  /\ \A id \in DOMAIN e.outstanding : id \in DOMAIN g.running \/ IsAnswered(g, id) =>
       id \in DOMAIN d.outstanding /\ e.outstanding[id] = d.outstanding[id]
  /\ \A w \in Slot : \A m : Holding(g, l, w, m) => Holding(h, k, w, m)

LEMMA WholeKeep ==
  ASSUME NEW h, NEW k, NEW d, Whole(h, k, d), NEW g, NEW l, NEW e, NoneNew(h, k, d, g, l, e)
  PROVE  Whole(g, l, e)
<1>1. ASSUME NEW id \in Wanted(g, e)
      PROVE  /\ id \in Wanted(h, d) /\ g.running[id] = h.running[id]
             /\ e.outstanding[id] = d.outstanding[id]
  BY DEF NoneNew, Wanted
<1>2. ASSUME NEW id \in Wanted(g, e)
      PROVE  SlicesOK(g.running[id], e.outstanding[id].policies, RunsOf(g, id))
  <2>1. SlicesOK(h.running[id], d.outstanding[id].policies, RunsOf(h, id))
    BY <1>1 DEF Whole
  <2>2. RunsOf(g, id) \subseteq RunsOf(h, id)
    BY DEF NoneNew, RunsOf
  <2> QED
    BY <1>1, <2>1, <2>2 DEF SlicesOK
<1>3. ASSUME NEW w \in Slot, NEW m, Holding(g, l, w, m), m.run \in g.pending,
             m.run.batch \in Wanted(g, e)
      PROVE  IsSlice(g, e, m)
  <2>1. IsSlice(h, d, m)
    BY <1>1, <1>3 DEF NoneNew, Whole
  <2> QED
    BY <1>1, <1>3, <2>1 DEF IsSlice
<1>4. AnswersWhole(g, e)
  BY DEF NoneNew, Whole, AnswersWhole, IsAnswered
<1> QED
  BY <1>2, <1>3, <1>4 DEF Whole

LEMMA SameRunsHolding ==
  ASSUME NEW h, NEW g, SameRuns(h, g), NEW k, NEW w \in Slot, NEW m, Holding(g, k, w, m)
  PROVE  Holding(h, k, w, m)
BY DEF SameRuns, Holding

LEMMA StartBatchWhole ==
  ASSUME NEW h, NEW k, NEW d, NEW u, NEW b, HostOK(h, k, d, u, {b.id}), Assigned(b, d),
         DispatchOK(d, u), UsedOK(u), Free(h) # {}, SlotsOK(h, k, d, u), Whole(h, k, d)
  PROVE  Whole(StartBatch(h, b), k, d)
<1> DEFINE p == PrimeAllSlots(h, b.id[1])
           g == StartBatch(h, b)
           n == SizeFor(h, b)
           T == Taken(h, b)
           N == NewRuns(h, b)
           R(w) == RunFor(h, b, w)
<1>1. /\ Shape(h) /\ Priming(h, k) /\ Books(h)
      /\ b.id \in DOMAIN d.outstanding /\ b = d.outstanding[b.id] /\ b.id \notin DOMAIN h.running
      /\ b.id[1] \in 1 .. MaxSessions /\ Len(b.policies) \in Nat \ {0}
  BY OutstandingFacts DEF HostOK, Assigned, Holds
<1>2. Shape(p) /\ Priming(p, k) /\ SameBooks(h, p) /\ SameRuns(h, p)
  BY <1>1, PrimeAllSlotsFields
<1>3. Started(h, b, p, g)
  BY <1>1, <1>2, StartBatchFields
<1> HIDE DEF p, g
<1>4. /\ n \in Nat \ {0} /\ \A w \in T : RankIn(Free(h), w) \in 1 .. n
      /\ \A r \in N : r.batch = b.id
  BY <1>1, NewRunsCounted
<1>5. /\ \A w \in T : R(w) \in N
      /\ \A r \in N : \E w \in T : r = R(w)
      /\ \A w \in T : R(w).part = IF n = 1 THEN 0 ELSE RankIn(Free(h), w)
  BY DEF NewRuns, RunFor, RunId
<1>6. /\ g.pending = h.pending \cup N /\ g.answers = h.answers
      /\ g.running = With(h.running, b.id, [parts |-> n, done |-> Nothing])
  BY <1>3 DEF Started
<1>7. /\ \A id \in DOMAIN g.running : id = b.id \/ id \in DOMAIN h.running
      /\ \A id \in DOMAIN h.running : g.running[id] = h.running[id]
      /\ g.running[b.id] = [parts |-> n, done |-> Nothing]
  BY <1>1, <1>6 DEF With
<1>8. ASSUME NEW w \in T
      PROVE  /\ R(w).part \in Parts(n)
             /\ SliceFor(h, b, w) = Slice(b.policies, n, R(w).part)
  <2>1. n = 1 => RankIn(Free(h), w) = 1
    BY <1>4
  <2> QED
    BY <1>4, <1>5, <2>1 DEF Parts, Slice, SliceFor
<1>9. \A r \in h.pending : r.batch # b.id
  BY <1>1 DEF Books
<1>10. \A w \in Slot : \A r : At(h, k, w, r) => r.batch # b.id
  BY <1>1, <1>9 DEF SlotsOK, Known, Stray
<1> HIDE DEF n, T, N, R
<1>11. ASSUME NEW id \in Wanted(g, d)
       PROVE  SlicesOK(g.running[id], d.outstanding[id].policies, RunsOf(g, id))
  <2>1. CASE id = b.id
    <3>1. RunsOf(g, id) \subseteq N
      BY <1>6, <1>9, <2>1 DEF RunsOf
    <3>2. \A r \in RunsOf(g, id) : r.part \in Parts(n)
      BY <1>5, <1>8, <3>1
    <3>3. DOMAIN g.running[id].done = {} /\ g.running[id].parts = n
      BY <1>7, <2>1 DEF Nothing
    <3> QED
      BY <3>2, <3>3 DEF SlicesOK
  <2>2. CASE id # b.id
    <3>1. id \in Wanted(h, d) /\ g.running[id] = h.running[id]
      BY <1>7, <2>2 DEF Wanted
    <3>2. RunsOf(g, id) = RunsOf(h, id)
      BY <1>4, <1>6, <2>2 DEF RunsOf
    <3> QED
      BY <3>1, <3>2 DEF Whole
  <2> QED
    BY <2>1, <2>2
<1>12. ASSUME NEW w \in Slot, NEW m, Holding(g, k, w, m), m.run \in g.pending,
              m.run.batch \in Wanted(g, d)
       PROVE  IsSlice(g, d, m)
  <2>1. Holding(p, k, w, m) \/ (w \in T /\ m = Run(R(w), SliceFor(h, b, w)))
    <3>1. IsList(p.inbox[w])
      BY <1>2 DEF Priming, InboxOK
    <3>2. g.inbox[w] = IF w \in T THEN Append(p.inbox[w], Run(R(w), SliceFor(h, b, w)))
                       ELSE p.inbox[w]
      BY <1>3 DEF Started, T, R
    <3>3. CASE w \in T
      <4> DEFINE q == p.inbox[w]
                 x == Run(R(w), SliceFor(h, b, w))
      <4>1. /\ Len(q) \in Nat /\ Len(Append(q, x)) = Len(q) + 1
            /\ \A i \in 1 .. Len(q) : Append(q, x)[i] = q[i]
            /\ Append(q, x)[Len(q) + 1] = x
        BY <3>1, ListAppend
      <4>2. g.inbox[w] = Append(q, x)
        BY <3>2, <3>3
      <4> HIDE DEF q, x
      <4>3. \A i \in 1 .. Len(Append(q, x)) : i \in 1 .. Len(q) \/ i = Len(q) + 1
        BY <4>1
      <4>4. Holding(p, k, w, m) \/ m = x
        BY <1>12, <4>1, <4>2, <4>3 DEF Holding, q
      <4> QED
        BY <3>3, <4>4 DEF x
    <3>4. CASE w \notin T
      BY <1>12, <3>2, <3>4 DEF Holding
    <3> QED
      BY <3>3, <3>4
  <2>2. CASE Holding(p, k, w, m)
    <3>1. Holding(h, k, w, m)
      BY <1>2, <2>2, SameRunsHolding
    <3>2. At(h, k, w, m.run)
      BY <3>1 DEF Holding, At, Waits, Works, RunIn
    <3>3. /\ m.run.batch # b.id /\ m.run \in h.pending
      BY <1>4, <1>6, <1>10, <1>12, <3>2
    <3>4. /\ m.run.batch \in Wanted(h, d)
          /\ g.running[m.run.batch] = h.running[m.run.batch]
      BY <1>7, <1>12, <3>3 DEF Wanted
    <3>5. IsSlice(h, d, m)
      BY <3>1, <3>3, <3>4 DEF Whole
    <3> QED
      BY <3>4, <3>5 DEF IsSlice
  <2>3. CASE w \in T /\ m = Run(R(w), SliceFor(h, b, w))
    <3>1. m.run = R(w) /\ m.policies = Slice(b.policies, n, R(w).part)
      BY <1>8, <2>3 DEF Run
    <3>2. m.run.batch = b.id
      BY <1>4, <1>5, <2>3, <3>1
    <3> QED
      BY <1>1, <1>7, <3>1, <3>2 DEF IsSlice
  <2> QED
    BY <2>1, <2>2, <2>3
<1>13. AnswersWhole(g, d)
  BY <1>6 DEF Whole, AnswersWhole
<1>14. Whole(g, k, d)
  BY <1>11, <1>12, <1>13 DEF Whole
<1> QED
  BY <1>14 DEF g

LEMMA DrainWhole ==
  ASSUME NEW h, NEW k, NEW d, NEW u, HostOK(h, k, d, u, {}), DispatchOK(d, u), UsedOK(u),
         SlotsOK(h, k, d, u), Whole(h, k, d)
  PROVE  Whole(Drain(h), k, d)
<1>1. PICK state : \E last \in Nat : DrainedOK(h, k, d, u, state, last)
  BY DrainStates
<1>2. PICK last \in Nat : DrainedOK(h, k, d, u, state, last)
  BY <1>1
<1>3. last \in 0 .. last /\ Drain(h) = state[last] /\ state[0] = h /\ 0 \in 0 .. last
  BY <1>2 DEF Drained, DrainedOK
<1> DEFINE Good == {i \in 0 .. last : SlotsOK(state[i], k, d, u) /\ Whole(state[i], k, d)}
<1>4. ASSUME NEW i \in 1 .. last, i - 1 \in Good PROVE i \in Good
  <2> DEFINE f == state[i - 1]
             b == f.queue[1]
  <2>1. i - 1 \in 0 .. last /\ i \in 0 .. last
    BY <1>2
  <2>2. /\ HostOK(f, k, d, u, {}) /\ f.queue # <<>> /\ Free(f) # {}
        /\ state[i] = TakeUp(f, b) /\ SlotsOK(f, k, d, u) /\ Whole(f, k, d)
    BY <1>2, <1>4, <2>1 DEF DrainedOK
  <2> HIDE DEF f
  <2>3. PICK g : HostOK(g, k, d, u, {b.id}) /\ Assigned(b, d) /\ Unqueued(f, g, b)
    BY <2>2, TakeUpStarts
  <2> HIDE DEF b
  <2>4. SlotsOK(g, k, d, u)
    BY <2>2, <2>3, SameInbox, SlotsKeepPosting DEF Unqueued
  <2>5. /\ g.running = f.running /\ g.answers = f.answers /\ g.pending = f.pending
        /\ g.inbox = f.inbox
    BY <2>3 DEF Unqueued
  <2>6. Whole(g, k, d)
    BY <2>2, <2>5 DEF Whole, Wanted, RunsOf, Holding, IsSlice, AnswersWhole
  <2>7. SlotsOK(StartBatch(g, b), k, d, u) /\ Whole(StartBatch(g, b), k, d)
    BY <2>3, <2>4, <2>6, StartBatchSlots, StartBatchWhole DEF Unqueued
  <2> QED
    BY <2>1, <2>2, <2>3, <2>7 DEF Unqueued
<1>5. 0 \in Good
  BY <1>3
<1> HIDE DEF Good
<1>6. last \in Good
  BY <1>3, <1>4, <1>5, UpTo
<1> QED
  BY <1>3, <1>6 DEF Good

LEMMA HandleBatchAssignWhole ==
  ASSUME NEW h, NEW k, NEW d, NEW u, NEW b, HostOK(h, k, d, u, {b.id}), Assigned(b, d),
         DispatchOK(d, u), UsedOK(u), SlotsOK(h, k, d, u), Whole(h, k, d)
  PROVE  Whole(HandleBatchAssign(h, b), k, d)
<1> DEFINE g == HandleBatchAssign(h, b)
<1>1. Shape(h)
  BY DEF HostOK
<1>2. CASE g = StartBatch(h, b) /\ Free(h) # {}
  BY <1>2, StartBatchWhole
<1>3. CASE ~(g = StartBatch(h, b) /\ Free(h) # {})
  <2>1. /\ g.inbox = h.inbox /\ g.pending = h.pending /\ g.running = h.running
        /\ \/ g.answers = h.answers
           \/ g.answers = h.answers \cup {Nack(b.id, "no_active_session")}
           \/ g.answers = h.answers \cup {Nack(b.id, "host_no_free_slots")}
    BY <1>1, <1>3 DEF HandleBatchAssign, Shape
  <2> HIDE DEF g
  <2>2. \A a \in g.answers : a.kind = "result" => a \in h.answers
    BY <2>1 DEF Nack
  <2>3. AnswersWhole(g, d)
    BY <2>2 DEF Whole, AnswersWhole
  <2>4. Whole(g, k, d)
    BY <2>1, <2>3 DEF Whole, Wanted, RunsOf, Holding, IsSlice
  <2> QED
    BY <2>4 DEF g
<1> QED
  BY <1>2, <1>3

(* A batch whose slices all came back is put together in its order.        *)
LEMMA AnswerWhole ==
  ASSUME NEW f, NEW id, NEW ps, IsList(ps), SlicesOK(f.running[id], ps, {}),
         f.running[id].parts \in Nat \ {0},
         Cardinality(DOMAIN f.running[id].done) = f.running[id].parts,
         Answer(f, id).kind = "result"
  PROVE  Answer(f, id).evaluations = ps
<1> DEFINE b == f.running[id]
           n == b.parts
           slice(i) == b.done[IF n = 1 THEN 0 ELSE i]
<1>1. /\ Answer(f, id).evaluations = FlattenSeq([i \in 1 .. n |-> slice(i).evaluations])
      /\ \A i \in DOMAIN b.done : b.done[i].ok
  BY DEF Answer
<1>2. /\ n \in Nat \ {0} /\ DOMAIN b.done \subseteq Parts(n) /\ Cardinality(DOMAIN b.done) = n
      /\ \A i \in DOMAIN b.done : b.done[i].evaluations = Slice(ps, n, i)
  BY <1>1 DEF SlicesOK
<1> HIDE DEF b
<1>3. IsFiniteSet(Parts(n)) /\ Cardinality(Parts(n)) = n
  <2>1. CASE n = 1
    BY <2>1, FS_Singleton DEF Parts
  <2>2. CASE n # 1
    <3>1. IsFiniteSet(1 .. n) /\ Cardinality(1 .. n) = n
      BY <1>2, FS_Interval
    <3> QED
      BY <2>2, <3>1 DEF Parts
  <2> QED
    BY <2>1, <2>2
<1>4. DOMAIN b.done = Parts(n)
  BY <1>2, <1>3, FS_Subset
<1>5. ASSUME NEW i \in 1 .. n PROVE slice(i).evaluations = PartitionPolicies(ps, n)[i]
  <2>1. CASE n = 1
    BY <1>2, <1>4, <2>1 DEF Parts, Slice
  <2>2. CASE n # 1
    BY <1>2, <1>4, <2>2 DEF Parts, Slice
  <2> QED
    BY <2>1, <2>2
<1>6. PartitionPolicies(ps, n) = [i \in 1 .. n |-> PartitionPolicies(ps, n)[i]]
  BY DEF PartitionPolicies
<1>7. [i \in 1 .. n |-> slice(i).evaluations] = PartitionPolicies(ps, n)
  <2> HIDE DEF slice, n
  <2>1. [i \in 1 .. n |-> slice(i).evaluations]
          = [i \in 1 .. n |-> PartitionPolicies(ps, n)[i]]
    BY <1>5
  <2> QED
    BY <1>6, <2>1
<1>8. FlattenSeq(PartitionPolicies(ps, n)) = ps
  BY <1>2, SlicesJoin
<1> QED
  BY <1>1, <1>7, <1>8

LEMMA OutstandingLists ==
  ASSUME NEW d, NEW u, DispatchOK(d, u), NEW id \in DOMAIN d.outstanding
  PROVE  IsList(d.outstanding[id].policies)
<1>1. PICK ps \in Batches : d.outstanding[id] = [id |-> id, policies |-> ps]
  BY DEF DispatchOK
<1> QED
  BY <1>1, HostAssumption DEF IsList

(* Worker w replies to the run it is done with. *)
LEMMA SettledWhole ==
  ASSUME NEW h, NEW k, NEW l, NEW d, NEW u, DispatchOK(d, u), Books(h), Whole(h, k, d),
         NEW w \in Slot, NEW m, LeavesRun(k, l, w, m), m.run \in h.pending,
         NEW ok, NEW evaluations, ok => evaluations = m.policies,
         NEW g, Settled(h, g, w, m.run),
         Replied(h, g, m.run, Extended(h.running[m.run.batch], m.run, ok, evaluations))
  PROVE  Whole(g, l, d)
<1> DEFINE r == m.run
           id == r.batch
           old == h.running[id]
           new == Extended(old, r, ok, evaluations)
           ps == d.outstanding[id].policies
<1>1. /\ g.inbox = h.inbox /\ g.pending = h.pending \ {r} /\ r \in h.pending
      /\ Replied(h, g, r, new) /\ id \in DOMAIN h.running
  BY DEF Settled, Books
<1>2. \A v \in Slot : \A x : Holding(g, l, v, x) => Holding(h, k, v, x)
  <2>1. \A v \in Slot : \A x \in l[v].runs : x \in k[v].runs
    BY DEF LeavesRun
  <2> QED
    BY <1>1, <2>1 DEF Holding
<1>3. /\ new.parts = old.parts /\ DOMAIN new.done = DOMAIN old.done \cup {r.part}
      /\ new.done[r.part] = [ok |-> ok, evaluations |-> evaluations]
      /\ \A i \in DOMAIN old.done : i # r.part => new.done[i] = old.done[i]
  BY DEF Extended, With
<1>4. old.parts \in Nat
  BY <1>1 DEF Books, BatchOK
<1>5. Holding(h, k, w, m)
  BY DEF Holding, LeavesRun
<1>6. id \in DOMAIN d.outstanding =>
        SlicesOK(old, ps, RunsOf(h, id)) /\ m.policies = Slice(ps, old.parts, r.part)
  BY <1>1, <1>5 DEF Whole, Wanted, IsSlice
<1>7. r \in RunsOf(h, id) /\ RunsOf(g, id) \subseteq RunsOf(h, id)
  BY <1>1 DEF RunsOf
<1> HIDE DEF new
<1>8. id \in DOMAIN d.outstanding => SlicesOK(new, ps, RunsOf(g, id))
  <2>1. SUFFICES ASSUME id \in DOMAIN d.outstanding PROVE SlicesOK(new, ps, RunsOf(g, id))
    OBVIOUS
  <2> HIDE DEF old, ps, r, id
  <2>2. /\ DOMAIN old.done \subseteq Parts(old.parts) /\ r.part \in Parts(old.parts)
        /\ \A x \in RunsOf(g, id) : x.part \in Parts(old.parts)
        /\ \A i \in DOMAIN old.done :
             old.done[i].ok => old.done[i].evaluations = Slice(ps, old.parts, i)
        /\ m.policies = Slice(ps, old.parts, r.part)
    BY <1>6, <1>7, <2>1 DEF SlicesOK
  <2>3. \A i \in DOMAIN new.done :
          new.done[i].ok => new.done[i].evaluations = Slice(ps, old.parts, i)
    BY <1>3, <2>2
  <2> QED
    BY <1>3, <2>2, <2>3 DEF SlicesOK
<1>9. \A x : x # id => RunsOf(g, x) \subseteq RunsOf(h, x)
  BY <1>1 DEF RunsOf
<1> HIDE DEF old, ps, r, id
<1>10. CASE g.running = [h.running EXCEPT ![id] = new] /\ g.answers = h.answers
  <2>1. /\ DOMAIN g.running = DOMAIN h.running /\ g.running[id] = new
        /\ \A x \in DOMAIN h.running : x # id => g.running[x] = h.running[x]
    BY <1>1, <1>10
  <2>2. ASSUME NEW x \in Wanted(g, d)
        PROVE  SlicesOK(g.running[x], d.outstanding[x].policies, RunsOf(g, x))
    <3>1. CASE x = id
      BY <1>8, <2>1, <2>2, <3>1 DEF Wanted, ps
    <3>2. CASE x # id
      <4>1. SlicesOK(h.running[x], d.outstanding[x].policies, RunsOf(h, x))
        BY <2>1, <2>2 DEF Whole, Wanted
      <4> QED
        BY <1>9, <2>1, <2>2, <3>2, <4>1 DEF SlicesOK, Wanted
    <3> QED
      BY <3>1, <3>2
  <2>3. ASSUME NEW v \in Slot, NEW x, Holding(g, l, v, x), x.run \in g.pending,
               x.run.batch \in Wanted(g, d)
        PROVE  IsSlice(g, d, x)
    <3>1. IsSlice(h, d, x)
      BY <1>1, <1>2, <2>1, <2>3 DEF Whole, Wanted
    <3>2. g.running[x.run.batch].parts = h.running[x.run.batch].parts
      BY <1>3, <2>1, <2>3 DEF Wanted, old
    <3> QED
      BY <3>1, <3>2 DEF IsSlice
  <2>4. AnswersWhole(g, d)
    BY <1>10 DEF Whole, AnswersWhole
  <2> QED
    BY <2>2, <2>3, <2>4 DEF Whole
<1>11. ASSUME Cardinality(DOMAIN new.done) = new.parts, g.running = Without(h.running, id),
              NEW f, f.running[id] = new, g.answers = h.answers \cup {Answer(f, id)}
       PROVE  Whole(g, l, d)
  <2>1. /\ DOMAIN g.running = DOMAIN h.running \ {id}
        /\ \A x \in DOMAIN g.running : g.running[x] = h.running[x]
    BY <1>11 DEF Without
  <2>2. ASSUME NEW x \in Wanted(g, d)
        PROVE  SlicesOK(g.running[x], d.outstanding[x].policies, RunsOf(g, x))
    <3>1. SlicesOK(h.running[x], d.outstanding[x].policies, RunsOf(h, x))
      BY <2>1, <2>2 DEF Whole, Wanted
    <3> QED
      BY <1>9, <2>1, <2>2, <3>1 DEF SlicesOK, Wanted
  <2>3. ASSUME NEW v \in Slot, NEW x, Holding(g, l, v, x), x.run \in g.pending,
               x.run.batch \in Wanted(g, d)
        PROVE  IsSlice(g, d, x)
    <3>1. IsSlice(h, d, x)
      BY <1>1, <1>2, <2>1, <2>3 DEF Whole, Wanted
    <3> QED
      BY <2>1, <2>3, <3>1 DEF IsSlice, Wanted
  <2>4. Answer(f, id).id = id
    BY DEF Answer
  <2>5. ASSUME id \in DOMAIN d.outstanding, Answer(f, id).kind = "result"
        PROVE  Answer(f, id).evaluations = ps
    <3>1. IsList(ps) /\ SlicesOK(new, ps, RunsOf(g, id))
      BY <1>8, <2>5, OutstandingLists DEF ps
    <3>2. SlicesOK(new, ps, {})
      BY <3>1 DEF SlicesOK
    <3>3. new.parts \in Nat \ {0}
      <4>1. r.part \in Parts(new.parts)
        BY <1>3, <3>1 DEF SlicesOK
      <4>2. Parts(0) = {}
        BY DEF Parts
      <4> QED
        BY <1>3, <1>4, <4>1, <4>2
    <3> QED
      BY <1>11, <2>5, <3>1, <3>2, <3>3, AnswerWhole
  <2>6. AnswersWhole(g, d)
    BY <1>11, <2>4, <2>5 DEF Whole, AnswersWhole, ps
  <2> QED
    BY <2>2, <2>3, <2>6 DEF Whole
<1> QED
  BY <1>1, <1>10, <1>11 DEF Replied, id

LEMMA EndOfRunWhole ==
  ASSUME NEW h, NEW k, NEW l, NEW d, NEW u, HostOK(h, l, d, u, {}), DispatchOK(d, u),
         UsedOK(u), SlotsOK(h, k, d, u), Whole(h, k, d), NEW w \in Slot, NEW m,
         LeavesRun(k, l, w, m), NEW ok, NEW evaluations, ok => evaluations = m.policies
  PROVE  Whole(HandleReply(h, w, m.run, ok, evaluations), l, d)
<1> DEFINE r == m.run
           f == HandleReply(h, w, r, ok, evaluations)
<1>1. CASE r \notin h.pending
  <2>1. f = h
    BY <1>1 DEF HandleReply
  <2>2. \A v \in Slot : \A x : Holding(h, l, v, x) => Holding(h, k, v, x)
    BY DEF Holding, LeavesRun
  <2>3. Whole(h, l, d)
    BY <2>2 DEF Whole
  <2> QED
    BY <2>1, <2>3
<1>2. CASE r \in h.pending
  <2>1. \E g : /\ HostOK(g, l, d, u, {}) /\ Settled(h, g, w, r) /\ f \in {g, Drain(g)}
               /\ Replied(h, g, r, Extended(h.running[r.batch], r, ok, evaluations))
    BY <1>2, ReplySettles
  <2> HIDE DEF f
  <2>2. PICK g : /\ HostOK(g, l, d, u, {}) /\ Settled(h, g, w, r) /\ f \in {g, Drain(g)}
                 /\ Replied(h, g, r, Extended(h.running[r.batch], r, ok, evaluations))
    BY <2>1
  <2>3. SlotsOK(g, l, d, u)
    BY <1>2, <2>2, SettledSlots DEF HostOK
  <2>4. Books(h)
    BY DEF HostOK
  <2>5. Whole(g, l, d)
    BY <1>2, <2>2, <2>4, SettledWhole
  <2>6. Whole(Drain(g), l, d)
    BY <2>2, <2>3, <2>5, DrainWhole
  <2> QED
    BY <2>2, <2>5, <2>6 DEF f
<1> QED
  BY <1>1, <1>2

LEMMA WholeInit == Init => WInv
<1> SUFFICES ASSUME Init PROVE Whole(main, worker, dispatch)
  BY DEF WInv
<1>1. main.running = Nothing /\ main.answers = {} /\ main.pending = {}
  BY DEF Init, IdleMain
<1> QED
  BY <1>1 DEF Whole, Wanted, AnswersWhole, Nothing

(* Nothing is run and nothing is answered. *)
LEMMA WholeFree ==
  ASSUME NEW h, NEW k, NEW d, h.pending = {}, h.running = Nothing, h.answers = {}
  PROVE  Whole(h, k, d)
BY DEF Whole, Wanted, AnswersWhole, Nothing

(* The steps at which only messages without runs are posted, while the     *)
(* dispatcher keeps at most the batches it has.                            *)
LEMMA WholePosted ==
  ASSUME WInv, worker' = worker, SameRuns(main, main'), main'.pending = main.pending,
         main'.running = main.running, main'.answers \subseteq main.answers,
         \A id \in DOMAIN dispatch'.outstanding :
           /\ id \in DOMAIN dispatch.outstanding
           /\ dispatch'.outstanding[id] = dispatch.outstanding[id]
  PROVE  Whole(main', worker', dispatch')
<1> DEFINE h == main
           k == worker
           d == dispatch
           g == main'
           e == dispatch'
<1>1. Whole(h, k, d)
  BY DEF WInv
<1>2. \A w \in Slot : \A m : Holding(g, k, w, m) => Holding(h, k, w, m)
  BY SameRunsHolding
<1>3. NoneNew(h, k, d, g, k, e)
  BY <1>2 DEF NoneNew
<1>4. Whole(g, k, e)
  <2> HIDE DEF h, k, d, g, e
  <2> QED
    BY ONLY <1>1, <1>3, WholeKeep
<1> QED
  BY <1>4

LEMMA ConnectWhole == HInv /\ WInv /\ Connect => WInv'
<1> SUFFICES ASSUME HInv, WInv, Connect PROVE Whole(main', worker', dispatch')
  BY DEF WInv
<1>1. /\ worker' = worker /\ dispatch' = dispatch
      /\ main' = HandleStartSession(main, dispatch.session) \/ main' = main
  BY DEF Connect
<1>2. /\ Shape(main) /\ Priming(main, worker) /\ dispatch.session \in 0 .. MaxSessions
  <2>1. MaxSessions \in Nat
    BY HostAssumption
  <2> QED
    BY <2>1 DEF HInv, HostOK, DispatchOK, UsedOK
<1>3. /\ SameRuns(main, main') /\ main'.pending = main.pending
      /\ main'.running = main.running /\ main'.answers = main.answers
  <2>1. CASE main' = main
    BY <2>1, SameInbox
  <2>2. CASE main' = HandleStartSession(main, dispatch.session)
    BY <1>2, <2>2, HandleStartSessionFields
  <2> QED
    BY <1>1, <2>1, <2>2
<1> QED
  BY <1>1, <1>3, WholePosted

LEMMA StartSessionWhole == HInv /\ WInv /\ StartSession => WInv'
<1> SUFFICES ASSUME HInv, WInv, StartSession PROVE Whole(main', worker', dispatch')
  BY DEF WInv
<1> DEFINE s == used.sessions + 1
<1>1. /\ used.sessions < MaxSessions /\ dispatch'.outstanding = Nothing
      /\ main' = main \/ main' = HandleStartSession(main, s)
      /\ worker' = worker
  BY DEF StartSession
<1>2. /\ Shape(main) /\ Priming(main, worker) /\ UsedOK(used)
  BY DEF HInv, HostOK
<1>3. s \in 0 .. MaxSessions
  <2>1. MaxSessions \in Nat
    BY HostAssumption
  <2> QED
    BY <1>1, <1>2, <2>1 DEF UsedOK
<1>4. /\ SameRuns(main, main') /\ main'.pending = main.pending
      /\ main'.running = main.running /\ main'.answers = main.answers
  <2>1. CASE main' = main
    BY <2>1, SameInbox
  <2>2. CASE main' = HandleStartSession(main, s)
    BY <1>2, <1>3, <2>2, HandleStartSessionFields
  <2> QED
    BY <1>1, <2>1, <2>2
<1>5. DOMAIN dispatch'.outstanding = {}
  BY <1>1 DEF Nothing
<1> QED
  BY <1>1, <1>4, <1>5, WholePosted

LEMMA EndSessionWhole == HInv /\ WInv /\ EndSession => WInv'
<1> SUFFICES ASSUME HInv, WInv, EndSession PROVE Whole(main', worker', dispatch')
  BY DEF WInv
<1>1. /\ dispatch' = [dispatch EXCEPT !.session = 0, !.outstanding = Nothing]
      /\ \/ main' = main
         \/ main' = HandleCancelSession(main, dispatch.session) /\ link = "up"
      /\ worker' = worker
  BY DEF EndSession
<1>2. /\ Shape(main) /\ Priming(main, worker) /\ IsFiniteSet(main.pending)
      /\ DispatchOK(dispatch, used)
      /\ link = "up" => main.active = dispatch.session
  BY DEF HInv, HostOK, Books, LinkOK
<1>3. /\ SameRuns(main, main') /\ main'.pending = main.pending
      /\ main'.running = main.running /\ main'.answers = main.answers
  <2>1. CASE main' = main
    BY <2>1, SameInbox
  <2>2. CASE main' = HandleCancelSession(main, dispatch.session) /\ link = "up"
    <3>1. main' = HandleCancelSession(main, main.active)
      BY <1>2, <2>2
    <3> QED
      BY <1>2, <3>1, HandleCancelSessionFields
  <2> QED
    BY <1>1, <2>1, <2>2
<1>4. DOMAIN dispatch'.outstanding = {}
  BY <1>1, <1>2 DEF DispatchOK, Nothing
<1> QED
  BY <1>1, <1>3, <1>4, WholePosted

LEMMA RenumberWhole == HInv /\ WInv /\ Renumber => WInv'
<1> SUFFICES ASSUME HInv, WInv, Renumber PROVE Whole(main', worker', dispatch')
  BY DEF WInv
<1>1. /\ main' = main /\ worker' = worker
      /\ dispatch' = [dispatch EXCEPT !.coarse = FALSE, !.seq = 0]
  BY DEF Renumber
<1>2. dispatch'.outstanding = dispatch.outstanding
  BY <1>1 DEF HInv, DispatchOK
<1>3. SameRuns(main, main')
  BY <1>1, SameInbox
<1> QED
  BY <1>1, <1>2, <1>3, WholePosted

LEMMA ReceiveAnswerWhole ==
  ASSUME NEW a PROVE HInv /\ WInv /\ ReceiveAnswer(a) => WInv'
<1> SUFFICES ASSUME HInv, WInv, ReceiveAnswer(a) PROVE Whole(main', worker', dispatch')
  BY DEF WInv
<1>1. /\ dispatch' = [dispatch EXCEPT !.outstanding = Without(@, a.id)]
      /\ main' = [main EXCEPT
                    !.answers = @ \ {a},
                    !.inFlight = IF a.kind \in {"result", "partial"} THEN @ \ {a.id} ELSE @]
      /\ worker' = worker
  BY DEF ReceiveAnswer
<1>2. Shape(main) /\ DispatchOK(dispatch, used)
  BY DEF HInv, HostOK
<1>3. /\ main'.inbox = main.inbox /\ main'.pending = main.pending
      /\ main'.running = main.running /\ main'.answers \subseteq main.answers
  BY <1>1, <1>2 DEF Shape
<1>4. dispatch'.outstanding = Without(dispatch.outstanding, a.id)
  BY <1>1, <1>2 DEF DispatchOK
<1>5. \A id \in DOMAIN dispatch'.outstanding :
        /\ id \in DOMAIN dispatch.outstanding
        /\ dispatch'.outstanding[id] = dispatch.outstanding[id]
  BY <1>4 DEF Without
<1>6. SameRuns(main, main')
  BY <1>3, SameInbox
<1> QED
  BY <1>1, <1>3, <1>5, <1>6, WholePosted

LEMMA DisconnectWhole == HInv /\ WInv /\ Disconnect => WInv'
<1> SUFFICES ASSUME HInv, WInv, Disconnect PROVE Whole(main', worker', dispatch')
  BY DEF WInv
<1> DEFINE g == main'
           l == worker'
           e == dispatch'
<1>1. g.pending = {} /\ g.running = Nothing /\ g.answers = {}
  <2>1. g = ResetPeerScopedState(main)
    BY DEF Disconnect
  <2> QED
    BY <2>1, ResetFields DEF HInv, HostOK, Books
<1> HIDE DEF g, l, e
<1>2. Whole(g, l, e)
  BY <1>1, WholeFree
<1> QED
  BY <1>2 DEF g, l, e

LEMMA HostRestartsWhole == HInv /\ WInv /\ HostRestarts => WInv'
<1> SUFFICES ASSUME HostRestarts PROVE Whole(main', worker', dispatch')
  BY DEF WInv
<1> DEFINE g == main'
           l == worker'
           e == dispatch'
<1>1. g.pending = {} /\ g.running = Nothing /\ g.answers = {}
  BY DEF HostRestarts, IdleMain
<1> HIDE DEF g, l, e
<1>2. Whole(g, l, e)
  BY <1>1, WholeFree
<1> QED
  BY <1>2 DEF g, l, e

LEMMA AssignWhole ==
  ASSUME NEW ps \in Batches PROVE HInv /\ SInv /\ WInv /\ Assign(ps) => WInv'
<1> SUFFICES ASSUME HInv, SInv, WInv, Assign(ps) PROVE Whole(main', worker', dispatch')
  BY DEF WInv
<1> DEFINE g == main'
           h == main
           k == worker
           d == dispatch
           e == dispatch'
<1>1. worker' = worker /\ UsedOK(used)
  BY DEF Assign, HInv
<1>2. PICK b : Arrives(b)
  BY AssignArrives
<1>3. /\ HostOK(h, k, e, used, {b.id}) /\ Assigned(b, e) /\ DispatchOK(e, used)
      /\ g = HandleBatchAssign(h, b) /\ b.id = <<d.session, d.seq + 1>>
      /\ DOMAIN e.outstanding = DOMAIN d.outstanding \cup {b.id}
  BY <1>2 DEF Arrives
<1>4. \A id \in DOMAIN e.outstanding :
        id # b.id => id \in DOMAIN d.outstanding /\ e.outstanding[id] = d.outstanding[id]
  <2>1. e = [d EXCEPT !.seq = @ + 1, !.outstanding =
               With(@, <<d.session, d.seq + 1>>,
                    [id |-> <<d.session, d.seq + 1>>, policies |-> ps])]
    BY DEF Assign
  <2>2. DispatchOK(d, used)
    BY DEF HInv
  <2> HIDE DEF d, e
  <2>3. e.outstanding = With(d.outstanding, <<d.session, d.seq + 1>>,
                             [id |-> <<d.session, d.seq + 1>>, policies |-> ps])
    BY <2>1, <2>2 DEF DispatchOK
  <2> QED
    BY <1>3, <2>3 DEF With
<1>5. SlotsOK(h, k, e, used) /\ Whole(h, k, d)
  BY <1>2, ArrivesSlots DEF WInv
<1> HIDE DEF g, h, k, d, e
<1>6. b.id \notin DOMAIN h.running /\ ~IsAnswered(h, b.id)
  BY <1>3 DEF HostOK, Holds
<1>7. NoneNew(h, k, d, h, k, e)
  BY <1>4, <1>6 DEF NoneNew
<1>8. Whole(h, k, e)
  BY <1>5, <1>7, WholeKeep
<1>9. Whole(HandleBatchAssign(h, b), k, e)
  BY <1>1, <1>3, <1>5, <1>8, HandleBatchAssignWhole
<1> QED
  BY <1>1, <1>3, <1>9 DEF g, k, e

LEMMA ReadMessageWhole ==
  ASSUME NEW w \in Slot PROVE HInv /\ WInv /\ ReadMessage(w) => WInv'
<1> SUFFICES ASSUME HInv, WInv, ReadMessage(w) PROVE Whole(main', worker', dispatch')
  BY DEF WInv
<1> DEFINE g == main'
           l == worker'
           h == main
           k == worker
           d == dispatch
<1>1. /\ ReadOne(h, k, g, l, w) /\ IsList(h.inbox[w]) /\ h.inbox[w] # <<>>
      /\ g.running = h.running /\ g.answers = h.answers /\ dispatch' = d
  BY ReadMessageReads
<1>2. Whole(h, k, d)
  BY DEF WInv
<1> HIDE DEF g, l, h, k, d
<1>3. /\ Len(h.inbox[w]) \in Nat \ {0} /\ Len(Tail(h.inbox[w])) = Len(h.inbox[w]) - 1
      /\ \A i \in 1 .. Len(h.inbox[w]) - 1 : Tail(h.inbox[w])[i] = h.inbox[w][i + 1]
  BY <1>1, ListTail
<1>4. /\ 1 \in 1 .. Len(h.inbox[w])
      /\ \A i \in 1 .. Len(h.inbox[w]) - 1 : i + 1 \in 1 .. Len(h.inbox[w])
  BY <1>3
<1>5. ASSUME NEW v \in Slot, NEW m, Holding(g, l, v, m) PROVE Holding(h, k, v, m)
  <2>1. CASE v = w
    <3>1. CASE m \in l[w].runs
      BY <1>1, <1>4, <2>1, <3>1 DEF ReadOne, Holding
    <3>2. CASE \E i \in 1 .. Len(g.inbox[w]) : g.inbox[w][i] = m /\ m.kind = "run"
      <4>1. PICK i \in 1 .. Len(h.inbox[w]) - 1 : h.inbox[w][i + 1] = m /\ m.kind = "run"
        BY <1>1, <1>3, <3>2 DEF ReadOne
      <4> QED
        BY <1>4, <2>1, <4>1 DEF Holding
    <3> QED
      BY <1>5, <2>1, <3>1, <3>2 DEF Holding
  <2>2. CASE v # w
    BY <1>1, <1>5, <2>2 DEF ReadOne, Holding
  <2> QED
    BY <2>1, <2>2
<1>6. NoneNew(h, k, d, g, l, d)
  BY <1>1, <1>5 DEF NoneNew, ReadOne
<1>7. Whole(g, l, d)
  BY <1>2, <1>6, WholeKeep
<1> QED
  BY <1>1, <1>7 DEF g, l, d

LEMMA EndOfRunStepWhole ==
  ASSUME HInv, SInv, WInv, NEW w \in Slot, NEW m \in worker[w].runs, NEW ok, NEW evaluations,
         ok => evaluations = m.policies,
         main' = HandleReply(main, w, m.run, ok, evaluations),
         \A v \in Slot : /\ worker'[v].alive = worker[v].alive
                         /\ worker'[v].primed = worker[v].primed
                         /\ worker'[v].runs = IF v = w THEN worker[v].runs \ {m}
                                              ELSE worker[v].runs,
         dispatch' = dispatch
  PROVE  Whole(main', worker', dispatch')
<1> DEFINE k == worker
           l == worker'
           g == main'
<1>1. /\ HostOK(main, k, dispatch, used, {}) /\ DispatchOK(dispatch, used)
      /\ UsedOK(used) /\ Priming(main, k) /\ SlotsOK(main, k, dispatch, used)
      /\ Whole(main, k, dispatch)
  BY DEF HInv, HostOK, SInv, WInv
<1>2. /\ \A v \in Slot : l[v].alive = k[v].alive /\ l[v].primed = k[v].primed
      /\ g = HandleReply(main, w, m.run, ok, evaluations)
      /\ LeavesRun(k, l, w, m)
  BY DEF LeavesRun, AllLive
<1> HIDE DEF k, l, g
<1>3. Priming(main, l)
  BY <1>1, <1>2, SameWorkers
<1>4. HostOK(main, l, dispatch, used, {})
  BY <1>1, <1>3 DEF HostOK
<1>5. ok => evaluations = m.policies
  OBVIOUS
<1>6. Whole(g, l, dispatch)
  BY ONLY <1>1, <1>2, <1>4, <1>5, w \in Slot, EndOfRunWhole
<1> QED
  BY <1>6 DEF l, g

LEMMA RunsWhole ==
  ASSUME NEW w \in Slot, NEW m \in worker[w].runs, HInv, SInv, WInv
  PROVE  /\ FinishRun(w, m) => Whole(main', worker', dispatch')
         /\ \A i : StopRun(w, m, i) => Whole(main', worker', dispatch')
<1>1. /\ worker = [v \in Slot |-> worker[v]]
      /\ worker[w] = [ alive |-> worker[w].alive, primed |-> worker[w].primed,
                       cancelled |-> worker[w].cancelled, runs |-> worker[w].runs ]
  BY DEF HInv, WorkersOK
<1>2. ASSUME FinishRun(w, m) PROVE Whole(main', worker', dispatch')
  <2>1. /\ worker' = [worker EXCEPT ![w].runs = @ \ {m}]
        /\ main' = HandleReply(main, w, m.run, TRUE, m.policies)
        /\ dispatch' = dispatch
    BY <1>2 DEF FinishRun
  <2>2. \A v \in Slot : /\ worker'[v].alive = worker[v].alive
                        /\ worker'[v].primed = worker[v].primed
                        /\ worker'[v].runs = IF v = w THEN worker[v].runs \ {m}
                                             ELSE worker[v].runs
    BY <1>1, <2>1
  <2> QED
    BY <2>1, <2>2, EndOfRunStepWhole
<1>3. ASSUME NEW i, StopRun(w, m, i) PROVE Whole(main', worker', dispatch')
  <2>1. /\ worker' = [worker EXCEPT ![w].runs = @ \ {m}, ![w].cancelled = @ \ {m.run}]
        /\ main' = HandleReply(main, w, m.run, FALSE, SubSeq(m.policies, 1, i))
        /\ dispatch' = dispatch
    BY <1>3 DEF StopRun
  <2>2. \A v \in Slot : /\ worker'[v].alive = worker[v].alive
                        /\ worker'[v].primed = worker[v].primed
                        /\ worker'[v].runs = IF v = w THEN worker[v].runs \ {m}
                                             ELSE worker[v].runs
    BY <1>1, <2>1
  <2> QED
    BY <2>1, <2>2, EndOfRunStepWhole
<1> QED
  BY <1>2, <1>3

LEMMA WorkerCrashesWhole ==
  ASSUME NEW w \in Slot PROVE HInv /\ WInv /\ WorkerCrashes(w) => WInv'
<1> SUFFICES ASSUME HInv, WInv, WorkerCrashes(w) PROVE Whole(main', worker', dispatch')
  BY DEF WInv
<1>1. /\ worker' = [worker EXCEPT ![w] = [FreshWorker EXCEPT !.alive = FALSE]]
      /\ main' = [main EXCEPT !.busy[w] = TRUE, !.inbox[w] = <<>>]
      /\ dispatch' = dispatch
  BY DEF WorkerCrashes
<1>2. Shape(main) /\ WorkersOK(worker)
  BY DEF HInv, HostOK
<1> DEFINE g == main'
           l == worker'
           h == main
           k == worker
           d == dispatch
<1>3. /\ g.pending = h.pending /\ g.running = h.running /\ g.answers = h.answers
      /\ g.inbox[w] = <<>> /\ \A v \in Slot \ {w} : g.inbox[v] = h.inbox[v]
  BY <1>1, <1>2 DEF Shape
<1>4. l[w].runs = {} /\ \A v \in Slot \ {w} : l[v] = k[v]
  BY <1>1, <1>2 DEF WorkersOK, FreshWorker
<1>5. Whole(h, k, d)
  BY DEF WInv
<1> HIDE DEF g, l, h, k, d
<1>6. \A v \in Slot : \A m : Holding(g, l, v, m) => Holding(h, k, v, m)
  BY <1>3, <1>4, ListFacts DEF Holding
<1>7. NoneNew(h, k, d, g, l, d)
  BY <1>3, <1>6 DEF NoneNew
<1>8. Whole(g, l, d)
  BY <1>5, <1>7, WholeKeep
<1> QED
  BY <1>1, <1>8 DEF g, l, d

LEMMA WholeStep == HInv /\ SInv /\ WInv /\ [Next]_hostVars => WInv'
<1> SUFFICES ASSUME HInv, SInv, WInv, [Next]_hostVars PROVE WInv'
  OBVIOUS
<1>1. CASE Next
  <2>1. CASE Connect \/ Disconnect \/ HostRestarts
    BY <2>1, ConnectWhole, DisconnectWhole, HostRestartsWhole
  <2>2. CASE DispatcherActs
    BY <2>2, StartSessionWhole, EndSessionWhole, RenumberWhole, AssignWhole,
       ReceiveAnswerWhole DEF DispatcherActs
  <2>3. ASSUME NEW w \in Slot, WorkerActs(w) PROVE WInv'
    <3>1. CASE ReadMessage(w)
      BY <3>1, ReadMessageWhole
    <3>2. CASE Runs(w)
      <4>1. PICK m \in worker[w].runs :
              FinishRun(w, m) \/ \E i \in 0 .. Len(m.policies) - 1 : StopRun(w, m, i)
        BY <3>2 DEF Runs
      <4> QED
        BY <4>1, RunsWhole DEF WInv
    <3>3. CASE WorkerCrashes(w)
      BY <3>3, WorkerCrashesWhole
    <3> QED
      BY <2>3, <3>1, <3>2, <3>3 DEF WorkerActs
  <2> QED
    BY <1>1, <2>1, <2>2, <2>3 DEF Next
<1>2. CASE UNCHANGED hostVars
  BY <1>2 DEF hostVars, WInv
<1> QED
  BY <1>1, <1>2

(* A result that reports no failure has the evaluations of all the batch's *)
(* policies in their order, however many slots it found free, in whatever  *)
(* order the slices came back and whatever happened to the connection and  *)
(* the sessions meanwhile.  The hypothesis is needed for the reason given  *)
(* at BusyIsRunning: the reply of a run that was given up (host.ts:361)    *)
(* would be taken for the slice of a batch that has its number.            *)
THEOREM ResultsAlwaysWhole ==
  ASSUME MaxDrops = 0 \/ MaxRenumberings = 0
  PROVE  Spec => []ResultsAreWhole
<1>1. Init => SInv /\ WInv
  BY SlotsInit, WholeInit
<1>2. HInv /\ HInv' /\ (SInv /\ WInv) /\ [Next]_hostVars => (SInv /\ WInv)'
  BY SlotsStep, WholeStep
<1>3. WInv => ResultsAreWhole
  BY DEF WInv, Whole, AnswersWhole, ResultsAreWhole, Current
<1> QED
  BY <1>1, <1>2, <1>3, HInvAlways, PTL DEF Spec
=============================================================================
