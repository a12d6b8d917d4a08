------------------------ MODULE ClusterClientProofs ------------------------
(***************************************************************************)
(* Safety properties of module ClusterClient, for every pool of workers,   *)
(* set of sockets, depth and number of calls, sessions and faults.  They   *)
(* are about the browser's pool, so what the argument needs of the client  *)
(* is the session it is active in, and of the dispatcher which sessions    *)
(* and batches it has handed out so far.                                   *)
(***************************************************************************)
EXTENDS ClusterClient, CommonLemmas

(* The messages q of a worker that has primed the sessions in K find the   *)
(* sessions of their runs primed, and in the end those in B are.           *)
InOrder(q, K, B) ==
  /\ \A i \in 1 .. Len(q) : IsRun(q[i]) => PrimedAfter(q, K, i - 1, q[i].request.session)
  /\ \A s \in B : PrimedAfter(q, K, Len(q), s)

(* The inbox of a slot whose current request is r: its run, once.          *)
InboxOK(q, r) ==
  /\ IsList(q)
  /\ \A i \in 1 .. Len(q) : q[i].kind \in {"prime", "unprime", "run"}
  /\ \A i \in 1 .. Len(q) : IsRun(q[i]) => r # NoRequest /\ q[i] = Run(r)
  /\ \A i, j \in 1 .. Len(q) : IsRun(q[i]) /\ IsRun(q[j]) => i = j
  /\ r # NoRequest => \E i \in 1 .. Len(q) : IsRun(q[i])

Shape(p) ==
  /\ p \in [ queue : {p.queue}, pending : {p.pending}, current : {p.current},
             inbox : {p.inbox}, primed : {p.primed}, loaded : {p.loaded}, broken : {p.broken} ]
  /\ p.current = [w \in Worker |-> p.current[w]]
  /\ p.inbox = [w \in Worker |-> p.inbox[w]]
  /\ p.primed = [w \in Worker |-> p.primed[w]]

(* Every worker that works has what its slot takes it to have, and will    *)
(* have primed the sessions in B.                                          *)
SlotOK(p, B, w) ==
  IF w \in p.broken THEN p.inbox[w] = <<>>
  ELSE InboxOK(p.inbox[w], p.current[w]) /\ InOrder(p.inbox[w], p.primed[w], B)
Inboxes(p, B) == \A w \in Worker : SlotOK(p, B, w)

(* A request waits or is current in one place.  Those that wait are of the *)
(* active session a, for the others outlive it.                            *)
Holders(p, a) ==
  /\ IsList(p.queue)
  /\ \A i \in 1 .. Len(p.queue) : p.queue[i] \in Request /\ p.queue[i].session = a
  /\ \A i, j \in 1 .. Len(p.queue) : p.queue[i] = p.queue[j] => i = j
  /\ \A w \in Worker : p.current[w] \in Request \cup {NoRequest}
  /\ \A v, w \in Worker : p.current[v] = p.current[w] /\ p.current[v] # NoRequest => v = w
  /\ \A w \in Worker : \A i \in 1 .. Len(p.queue) : p.queue[i] # p.current[w]

Waits(p, r) == \E i \in 1 .. Len(p.queue) : p.queue[i] = r
IsCurrent(p, r) == \E w \in Worker : p.current[w] = r
Pending(p) ==
  \A r : r \in p.pending <=> r # NoRequest /\ (Waits(p, r) \/ IsCurrent(p, r))

Busy(p, w) == p.current[w] # NoRequest
Full(p) == p.queue # <<>> => \A w \in Worker : Busy(p, w)

(* The pool of a client active in session a, 0 for none. *)
PoolOK(p, a) == Shape(p) /\ Inboxes(p, {a} \ {0}) /\ Holders(p, a) /\ Pending(p)

(* A batch the dispatcher has yet to hand out is not pending. *)
Fresh(p, u) ==
  \A r \in p.pending : /\ r \in Request /\ r.session <= u.sessions
                       /\ r.session = u.sessions => r.batch <= u.seq

UsedOK(u) ==
  u \in [ calls : {u.calls}, drops : {u.drops}, rejections : {u.rejections},
          sessions : 0 .. MaxSessions, seq : 0 .. MaxSeq ]
ClientOK(c, s, u) ==
  /\ c \in [ state : {c.state}, socket : {c.socket}, welcomed : {c.welcomed},
             intentionallyClosed : {c.intentionallyClosed},
             reconnectTimer : {c.reconnectTimer}, heartbeatTimer : {c.heartbeatTimer},
             activeSession : 0 .. u.sessions ]
  /\ s \in {0, u.sessions}

CInv ==
  /\ UsedOK(used) /\ ClientOK(client, session, used)
  /\ PoolOK(pool, client.activeSession) /\ Full(pool) /\ Fresh(pool, used)
-----------------------------------------------------------------------------
(* The messages of one worker. *)

LEMMA RunFields == \A r : Run(r).kind = "run" /\ Run(r).request = r /\ IsRun(Run(r))
BY DEF Run, IsRun

LEMMA InOrderPost ==
  ASSUME NEW q, IsList(q), NEW K, NEW B, InOrder(q, K, B), NEW m, NEW C,
         IsRun(m) => m.request.session \in B,
         \A s \in C : Primes(m, s) \/ (s \in B /\ ~Unprimes(m, s))
  PROVE  InOrder(Append(q, m), K, C)
<1> DEFINE t == Append(q, m)
           n == Len(q)
<1>1. /\ n \in Nat /\ Len(t) = n + 1 /\ t[n + 1] = m
      /\ \A i \in 1 .. n : t[i] = q[i]
  BY ListAppend
<1>2. /\ \A k \in 0 .. n : \A s : PrimedAfter(q, K, k, s) => PrimedAfter(t, K, k, s)
      /\ \A s : Primes(m, s) \/ (PrimedAfter(q, K, n, s) /\ ~Unprimes(m, s)) =>
                PrimedAfter(t, K, n + 1, s)
  BY PrimedAppend
<1> HIDE DEF t
<1>3. ASSUME NEW i \in 1 .. n + 1, IsRun(t[i])
      PROVE  PrimedAfter(t, K, i - 1, t[i].request.session)
  <2>1. CASE i \in 1 .. n
    <3>1. IsRun(q[i]) /\ t[i] = q[i] /\ i - 1 \in 0 .. n
      BY <1>1, <1>3, <2>1
    <3>2. PrimedAfter(q, K, i - 1, q[i].request.session)
      BY <2>1, <3>1 DEF InOrder
    <3> QED
      BY <1>2, <3>1, <3>2
  <2>2. CASE i = n + 1
    <3>1. m.request.session \in B /\ t[i] = m /\ i - 1 = n /\ n \in 0 .. n
      BY <1>1, <1>3, <2>2
    <3>2. PrimedAfter(q, K, n, m.request.session)
      BY <3>1 DEF InOrder
    <3> QED
      BY <1>2, <3>1, <3>2
  <2> QED
    BY <1>1, <2>1, <2>2
<1>4. ASSUME NEW s \in C PROVE PrimedAfter(t, K, n + 1, s)
  BY <1>2 DEF InOrder
<1> QED
  BY <1>1, <1>3, <1>4 DEF InOrder, t

LEMMA InOrderRead ==
  ASSUME NEW q, IsList(q), q # <<>>, NEW K, NEW B, InOrder(q, K, B), NEW L,
         \A s : Primes(Head(q), s) \/ (s \in K /\ ~Unprimes(Head(q), s)) => s \in L
  PROVE  /\ InOrder(Tail(q), L, B)
         /\ IsRun(Head(q)) => Head(q).request.session \in K
<1> DEFINE t == Tail(q)
           n == Len(q)
<1>1. /\ n \in Nat \ {0} /\ Len(t) = n - 1 /\ q[1] = Head(q)
      /\ \A i \in 1 .. n - 1 : t[i] = q[i + 1]
  BY ListTail
<1>2. \A k \in 0 .. n - 1 : \A s : PrimedAfter(q, K, k + 1, s) => PrimedAfter(t, L, k, s)
  BY PrimedRead
<1> HIDE DEF t, n
<1>3. ASSUME NEW i \in 1 .. n - 1, IsRun(t[i])
      PROVE  PrimedAfter(t, L, i - 1, t[i].request.session)
  <2>1. /\ i + 1 \in 1 .. n /\ t[i] = q[i + 1] /\ i + 1 - 1 = i - 1 + 1 /\ i - 1 \in 0 .. n - 1
    BY <1>1
  <2>2. PrimedAfter(q, K, i - 1 + 1, t[i].request.session)
    BY <1>3, <2>1 DEF InOrder, n
  <2> QED
    BY <1>2, <2>1, <2>2
<1>4. ASSUME NEW s \in B PROVE PrimedAfter(t, L, n - 1, s)
  <2>1. PrimedAfter(q, K, n, s)
    BY DEF InOrder, n
  <2>2. n - 1 \in 0 .. n - 1 /\ n - 1 + 1 = n
    BY <1>1
  <2> QED
    BY <1>2, <2>1, <2>2
<1>5. ASSUME IsRun(Head(q)) PROVE Head(q).request.session \in K
  <2>1. 1 \in 1 .. n /\ 1 - 1 = 0
    BY <1>1
  <2>2. PrimedAfter(q, K, 0, Head(q).request.session)
    BY <1>1, <1>5, <2>1 DEF InOrder, n
  <2> QED
    BY <2>2 DEF PrimedAfter
<1> QED
  BY <1>1, <1>3, <1>4, <1>5 DEF InOrder, t

(* Positions of a list with one more message, and with one less.           *)
LEMMA InboxPost ==
  ASSUME NEW q, NEW r, InboxOK(q, r), NEW m, m.kind \in {"prime", "unprime"}
  PROVE  InboxOK(Append(q, m), r)
<1> DEFINE t == Append(q, m)
           n == Len(q)
<1>1. /\ IsList(t) /\ n \in Nat /\ Len(t) = n + 1 /\ t[n + 1] = m
      /\ \A i \in 1 .. n : t[i] = q[i]
  BY ListAppend DEF InboxOK
<1> HIDE DEF t
<1>2. \A i \in 1 .. Len(t) : (i \in 1 .. n /\ t[i] = q[i]) \/ (i = n + 1 /\ t[i] = m)
  BY <1>1
<1>3. ~IsRun(m)
  BY DEF IsRun
<1>4. \A i \in 1 .. n : i \in 1 .. Len(t)
  BY <1>1
<1> QED
  BY <1>1, <1>2, <1>3, <1>4 DEF InboxOK, t

LEMMA InboxRun ==
  ASSUME NEW q, InboxOK(q, NoRequest), NEW r, r # NoRequest
  PROVE  InboxOK(Append(q, Run(r)), r)
<1> DEFINE m == Run(r)
           t == Append(q, m)
           n == Len(q)
<1>1. /\ IsList(t) /\ n \in Nat /\ Len(t) = n + 1 /\ t[n + 1] = m
      /\ \A i \in 1 .. n : t[i] = q[i]
  BY ListAppend DEF InboxOK
<1>2. IsRun(m) /\ m.kind = "run"
  BY RunFields
<1> HIDE DEF t, m
<1>3. \A i \in 1 .. Len(t) : (i \in 1 .. n /\ t[i] = q[i]) \/ (i = n + 1 /\ t[i] = m)
  BY <1>1
<1>4. \A i \in 1 .. n : ~IsRun(q[i])
  BY DEF InboxOK
<1>5. n + 1 \in 1 .. Len(t)
  BY <1>1
<1>6. \A i \in 1 .. Len(t) : IsRun(t[i]) => i = n + 1 /\ t[i] = m
  BY <1>3, <1>4
<1>7. \A i \in 1 .. Len(t) : t[i].kind \in {"prime", "unprime", "run"}
  BY <1>2, <1>3 DEF InboxOK
<1>8. InboxOK(t, r)
  BY <1>1, <1>2, <1>5, <1>6, <1>7 DEF InboxOK, m
<1> QED
  BY <1>8 DEF t, m

LEMMA InboxRead ==
  ASSUME NEW q, NEW r, InboxOK(q, r), q # <<>>
  PROVE  /\ Head(q).kind \in {"prime", "unprime", "run"}
         /\ ~IsRun(Head(q)) => InboxOK(Tail(q), r)
         /\ IsRun(Head(q)) => r # NoRequest /\ Head(q) = Run(r) /\ InboxOK(Tail(q), NoRequest)
<1> DEFINE t == Tail(q)
           n == Len(q)
<1>1. /\ IsList(t) /\ n \in Nat \ {0} /\ Len(t) = n - 1 /\ q[1] = Head(q)
      /\ \A i \in 1 .. n - 1 : t[i] = q[i + 1]
  BY ListTail DEF InboxOK
<1> HIDE DEF t
<1>2. 1 \in 1 .. n /\ \A i \in 1 .. Len(t) : i + 1 \in 1 .. n /\ t[i] = q[i + 1] /\ i + 1 # 1
  BY <1>1
<1>3. \A i \in 1 .. n : i = 1 \/ (i - 1 \in 1 .. Len(t) /\ t[i - 1] = q[i])
  <2>1. \A i \in 1 .. n : i = 1 \/ (i - 1 \in 1 .. n - 1 /\ i - 1 + 1 = i)
    BY <1>1
  <2> QED
    BY <1>1, <2>1
<1>4. \A i \in 1 .. Len(t) : t[i].kind \in {"prime", "unprime", "run"}
  BY <1>2 DEF InboxOK
<1>5. \A i, j \in 1 .. Len(t) : i + 1 = j + 1 => i = j
  BY <1>1
<1>6. ASSUME ~IsRun(Head(q)) PROVE InboxOK(t, r)
  <2>1. \A i \in 1 .. Len(t) : IsRun(t[i]) => r # NoRequest /\ t[i] = Run(r)
    BY <1>2 DEF InboxOK
  <2>2. \A i, j \in 1 .. Len(t) : IsRun(t[i]) /\ IsRun(t[j]) => i = j
    BY <1>2, <1>5 DEF InboxOK
  <2>3. r # NoRequest => \E i \in 1 .. Len(t) : IsRun(t[i])
    BY <1>1, <1>3, <1>6 DEF InboxOK
  <2> QED
    BY <1>1, <1>4, <2>1, <2>2, <2>3 DEF InboxOK
<1>7. ASSUME IsRun(Head(q))
      PROVE  r # NoRequest /\ Head(q) = Run(r) /\ InboxOK(t, NoRequest)
  <2>1. r # NoRequest /\ Head(q) = Run(r)
    BY <1>1, <1>2, <1>7 DEF InboxOK
  <2>2. \A i \in 1 .. Len(t) : ~IsRun(t[i])
    BY <1>1, <1>2, <1>7 DEF InboxOK
  <2> QED
    BY <1>1, <1>4, <2>1, <2>2 DEF InboxOK
<1> QED
  BY <1>1, <1>2, <1>6, <1>7 DEF InboxOK, t

LEMMA InboxEmpty == InboxOK(<<>>, NoRequest) /\ InOrder(<<>>, {}, {})
<1>1. IsList(<<>>) /\ Len(<<>>) = 0
  BY ListFacts
<1> QED
  BY <1>1 DEF InboxOK, InOrder
-----------------------------------------------------------------------------
(* The pool's operations. *)

(* Request r moves from the head of the queue to idle slot w. *)
Moves(p, g, w, r) ==
  /\ p.queue # <<>> /\ r = Head(p.queue) /\ ~Busy(p, w)
  /\ g.queue = Tail(p.queue) /\ g.pending = p.pending
  /\ g.current[w] = r
  /\ g.inbox[w] = IF w \in p.broken THEN <<>> ELSE Append(p.inbox[w], Run(r))
  /\ \A v \in Worker \ {w} : g.current[v] = p.current[v] /\ g.inbox[v] = p.inbox[v]
  /\ g.primed = p.primed /\ g.broken = p.broken

LEMMA MovesHolders ==
  ASSUME NEW p, NEW a, Holders(p, a), Pending(p), NEW w \in Worker, NEW g, NEW r,
         Moves(p, g, w, r)
  PROVE  /\ Holders(g, a) /\ Pending(g)
         /\ r \in Request /\ r.session = a /\ r # NoRequest
<1> DEFINE n == Len(p.queue)
<1>1. /\ IsList(g.queue) /\ n \in Nat \ {0} /\ Len(g.queue) = n - 1 /\ p.queue[1] = r
      /\ \A i \in 1 .. n - 1 : g.queue[i] = p.queue[i + 1]
  BY ListTail DEF Holders, Moves
<1>2. /\ 1 \in 1 .. n
      /\ \A i \in 1 .. Len(g.queue) : i + 1 \in 1 .. n /\ g.queue[i] = p.queue[i + 1] /\ i + 1 # 1
      /\ \A i, j \in 1 .. Len(g.queue) : i + 1 = j + 1 => i = j
  BY <1>1
<1>3. \A i \in 1 .. n : i = 1 \/ (i - 1 \in 1 .. Len(g.queue) /\ g.queue[i - 1] = p.queue[i])
  <2>1. \A i \in 1 .. n : i = 1 \/ (i - 1 \in 1 .. n - 1 /\ i - 1 + 1 = i)
    BY <1>1
  <2> QED
    BY <1>1, <2>1
<1>4. r \in Request /\ r.session = a /\ r # NoRequest
  BY <1>1, <1>2, ClusterClientAssumption DEF Holders
<1>5. \A v \in Worker : g.current[v] = IF v = w THEN r ELSE p.current[v]
  BY DEF Moves
<1>6. \A v \in Worker : p.current[v] # r
  BY <1>1, <1>2 DEF Holders
<1>7. /\ \A i \in 1 .. Len(g.queue) : g.queue[i] \in Request /\ g.queue[i].session = a
      /\ \A i, j \in 1 .. Len(g.queue) : g.queue[i] = g.queue[j] => i = j
      /\ \A i \in 1 .. Len(g.queue) : g.queue[i] # r
  <2>1. /\ \A i \in 1 .. n : p.queue[i] \in Request /\ p.queue[i].session = a
        /\ \A i, j \in 1 .. n : p.queue[i] = p.queue[j] => i = j
    BY DEF Holders
  <2> HIDE DEF n
  <2>2. \A i \in 1 .. Len(g.queue) : g.queue[i] \in Request /\ g.queue[i].session = a
    BY ONLY <1>2, <2>1
  <2>3. \A i, j \in 1 .. Len(g.queue) : g.queue[i] = g.queue[j] => i = j
    <3> SUFFICES ASSUME NEW i \in 1 .. Len(g.queue), NEW j \in 1 .. Len(g.queue),
                        g.queue[i] = g.queue[j]
                 PROVE  i = j
      OBVIOUS
    <3>1. i + 1 \in 1 .. n /\ j + 1 \in 1 .. n /\ p.queue[i + 1] = p.queue[j + 1]
      BY <1>2
    <3>2. i + 1 = j + 1
      BY <2>1, <3>1
    <3> QED
      BY <1>2, <3>2
  <2>4. \A i \in 1 .. Len(g.queue) : g.queue[i] # r
    <3> SUFFICES ASSUME NEW i \in 1 .. Len(g.queue) PROVE g.queue[i] # r
      OBVIOUS
    <3>1. i + 1 \in 1 .. n /\ i + 1 # 1 /\ g.queue[i] = p.queue[i + 1] /\ 1 \in 1 .. n
      BY <1>2
    <3> QED
      BY <1>1, <2>1, <3>1
  <2> QED
    BY <2>2, <2>3, <2>4
<1>8. /\ \A v \in Worker : g.current[v] \in Request \cup {NoRequest}
      /\ \A u, v \in Worker : g.current[u] = g.current[v] /\ g.current[u] # NoRequest => u = v
  BY <1>4, <1>5, <1>6 DEF Holders
<1>9. \A v \in Worker : \A i \in 1 .. Len(g.queue) : g.queue[i] # g.current[v]
  BY <1>2, <1>5, <1>7 DEF Holders
<1>10. Holders(g, a)
  BY <1>1, <1>7, <1>8, <1>9 DEF Holders
<1>11. ASSUME NEW x, x # NoRequest
       PROVE  Waits(p, x) \/ IsCurrent(p, x) <=> Waits(g, x) \/ IsCurrent(g, x)
  <2>1. Waits(p, x) <=> x = r \/ Waits(g, x)
    <3>1. ASSUME Waits(p, x) PROVE x = r \/ Waits(g, x)
      <4>1. PICK i \in 1 .. n : p.queue[i] = x
        BY <3>1 DEF Waits
      <4> QED
        BY <1>1, <1>3, <4>1 DEF Waits
    <3>2. ASSUME Waits(g, x) PROVE Waits(p, x)
      <4>1. PICK i \in 1 .. Len(g.queue) : g.queue[i] = x
        BY <3>2 DEF Waits
      <4>2. i + 1 \in 1 .. n /\ p.queue[i + 1] = x
        BY <1>2, <4>1
      <4> QED
        BY <4>2 DEF Waits
    <3>3. Waits(p, r)
      BY <1>1, <1>2 DEF Waits
    <3> QED
      BY <3>1, <3>2, <3>3
  <2>2. IsCurrent(g, x) <=> x = r \/ IsCurrent(p, x)
    BY <1>5, <1>11 DEF IsCurrent, Moves, Busy
  <2> QED
    BY <2>1, <2>2
<1>12. Pending(g)
  BY <1>11 DEF Pending, Moves
<1> QED
  BY <1>4, <1>10, <1>12

LEMMA MovesInboxes ==
  ASSUME NEW p, NEW B, Inboxes(p, B), NEW w \in Worker, NEW g, NEW r,
         Moves(p, g, w, r), r # NoRequest, r.session \in B
  PROVE  Inboxes(g, B)
<1> SUFFICES ASSUME NEW v \in Worker PROVE SlotOK(g, B, v)
  BY DEF Inboxes
<1>1. SlotOK(p, B, v)
  BY DEF Inboxes
<1>2. CASE v # w
  BY <1>1, <1>2 DEF SlotOK, Moves
<1>3. CASE v = w /\ w \in p.broken
  BY <1>3 DEF SlotOK, Moves
<1>4. CASE v = w /\ w \notin p.broken
  <2> DEFINE q == p.inbox[w]
             K == p.primed[w]
             m == Run(r)
  <2>1. InboxOK(q, NoRequest) /\ InOrder(q, K, B) /\ IsList(q)
    BY <1>1, <1>4 DEF SlotOK, Moves, Busy, InboxOK
  <2>2. m.request.session \in B /\ \A s \in B : ~Unprimes(m, s)
    BY RunFields DEF Unprimes
  <2>3. g.inbox[w] = Append(q, m) /\ g.current[w] = r /\ g.primed[w] = K /\ w \notin g.broken
    BY <1>4 DEF Moves
  <2>4. InboxOK(Append(q, m), r)
    BY <2>1, InboxRun
  <2> HIDE DEF q, K, m
  <2>5. InOrder(Append(q, m), K, B)
    BY <2>1, <2>2, InOrderPost
  <2> QED
    BY <1>4, <2>3, <2>4, <2>5 DEF SlotOK
<1> QED
  BY <1>2, <1>3, <1>4

LEMMA DispatchKeeps ==
  ASSUME NEW p, NEW a, PoolOK(p, a), NEW w \in Worker
  PROVE  LET g == DispatchQueued(p, w)
         IN  /\ PoolOK(g, a) /\ g.pending = p.pending
             /\ \A v \in Worker : Busy(p, v) => Busy(g, v)
             /\ g.queue = <<>> \/ Busy(g, w)
             /\ p.queue = <<>> => g.queue = <<>>
<1> DEFINE g == DispatchQueued(p, w)
           r == Head(p.queue)
<1>1. Shape(p) /\ Inboxes(p, {a} \ {0}) /\ Holders(p, a) /\ Pending(p)
  BY DEF PoolOK
<1>2. CASE Busy(p, w) \/ p.queue = <<>>
  <2>1. g = p
    BY <1>2 DEF DispatchQueued, Busy
  <2> QED
    BY <1>2, <2>1
<1>3. CASE ~Busy(p, w) /\ p.queue # <<>>
  <2> DEFINE q == IF w \in p.broken THEN <<>> ELSE Append(p.inbox[w], Run(r))
             cur == [p.current EXCEPT ![w] = r]
             box == [p.inbox EXCEPT ![w] = q]
  <2>1. g = [p EXCEPT !.queue = Tail(p.queue), !.current = cur, !.inbox = box]
    BY <1>3 DEF DispatchQueued, Busy
  <2>2. Shape(g) /\ Moves(p, g, w, r)
    <3>1. /\ cur = [v \in Worker |-> IF v = w THEN r ELSE p.current[v]]
          /\ box = [v \in Worker |-> IF v = w THEN q ELSE p.inbox[v]]
      BY <1>1 DEF Shape
    <3> HIDE DEF g, cur, box
    <3>2. Shape(g)
      BY <1>1, <2>1, <3>1 DEF Shape
    <3>3. /\ g.queue = Tail(p.queue) /\ g.pending = p.pending /\ g.current = cur
          /\ g.inbox = box /\ g.primed = p.primed /\ g.broken = p.broken
      BY <1>1, <2>1 DEF Shape
    <3> QED
      BY <1>3, <3>1, <3>2, <3>3 DEF Moves
  <2> HIDE DEF g, r, q, cur, box
  <2>3. Holders(g, a) /\ Pending(g) /\ r \in Request /\ r.session = a /\ r # NoRequest
    BY <1>1, <2>2, MovesHolders
  <2>4. r.session \in {a} \ {0}
    BY <2>3 DEF Request
  <2>5. Inboxes(g, {a} \ {0})
    <3> DEFINE B == {a} \ {0}
    <3>1. r.session \in B /\ Inboxes(p, B)
      BY <1>1, <2>4
    <3> HIDE DEF B
    <3>2. Inboxes(g, B)
      BY <2>2, <2>3, <3>1, MovesInboxes
    <3> QED
      BY <3>2 DEF B
  <2>6. /\ \A v \in Worker : Busy(p, v) => Busy(g, v)
        /\ Busy(g, w) /\ g.pending = p.pending
    BY <2>2, <2>3 DEF Moves, Busy
  <2>7. PoolOK(g, a)
    BY <2>2, <2>3, <2>5 DEF PoolOK
  <2> QED
    BY <1>3, <2>6, <2>7 DEF g
<1> QED
  BY <1>2, <1>3

(* The order in which the slots are tried has every slot in it.            *)
LEMMA OrderCovers ==
  LET order == SetToSeq(Worker)
  IN  /\ Len(order) \in Nat
      /\ \A k \in 1 .. Len(order) : order[k] \in Worker
      /\ \A w \in Worker : \E k \in 1 .. Len(order) : order[k] = w
<1> DEFINE n == Cardinality(Worker)
           order == SetToSeq(Worker)
<1>1. IsFiniteSet(Worker)
  BY ClusterClientAssumption
<1>2. n \in Nat /\ ExistsBijection(1 .. n, Worker)
  BY <1>1, FS_CardinalityType
<1>3. \E f \in [1 .. n -> Worker] : IsInjective(f)
  BY <1>2 DEF ExistsBijection, Bijection, Injection, IsInjective
<1>4. order \in [1 .. n -> Worker] /\ IsInjective(order)
  BY <1>3 DEF SetToSeq
<1>5. order \in Injection(1 .. n, Worker)
  BY <1>4 DEF Injection, IsInjective
<1>6. Cardinality(1 .. n) = n
  BY <1>2, FS_Interval
<1> HIDE DEF n, order
<1>7. order \in Surjection(1 .. n, Worker)
  BY <1>1, <1>5, <1>6, FS_Injection DEF n
<1>8. Len(order) = n
  BY <1>2, <1>4
<1>9. \A w \in Worker : \E k \in 1 .. n : order[k] = w
  BY <1>7 DEF Surjection
<1> QED
  BY <1>2, <1>4, <1>8, <1>9 DEF order

(* The states of the loop over the slots.                                  *)
LEMMA TrySteps ==
  ASSUME NEW p, NEW order, order = SetToSeq(Worker), NEW n, n = Len(order)
  PROVE  \E after : /\ after[0] = p /\ after[n] = TryDispatchAcrossPool(p)
                    /\ \A k \in 1 .. n : after[k] = DispatchQueued(after[k - 1], order[k])
<1> DEFINE F(f, m) == [k \in 0 .. m |-> IF k = 0 THEN p ELSE DispatchQueued(f[k - 1], order[k])]
           Good == {m \in 0 .. n : \E f : f = F(f, m)}
           after == CHOOSE f : f = F(f, n)
<1>0. n \in Nat
  BY OrderCovers
<1>1. 0 \in Good
  <2> DEFINE f == [k \in 0 .. 0 |-> p]
  <2>1. f = F(f, 0)
    OBVIOUS
  <2>2. 0 \in 0 .. n
    BY <1>0
  <2> HIDE DEF f
  <2> QED
    BY <2>1, <2>2
<1>2. ASSUME NEW m \in 1 .. n, m - 1 \in Good PROVE m \in Good
  <2>1. PICK f : f = F(f, m - 1)
    BY <1>2
  <2> DEFINE g == [k \in 0 .. m |-> IF k = m THEN DispatchQueued(f[m - 1], order[m]) ELSE f[k]]
  <2>2. \A k \in 0 .. m - 1 : g[k] = f[k]
    OBVIOUS
  <2>3. \A k \in 0 .. m - 1 : f[k] = IF k = 0 THEN p ELSE DispatchQueued(f[k - 1], order[k])
    BY <2>1
  <2>4. ASSUME NEW k \in 0 .. m
        PROVE  g[k] = IF k = 0 THEN p ELSE DispatchQueued(g[k - 1], order[k])
    <3>1. CASE k = m
      <4>1. m - 1 \in 0 .. m - 1 /\ m # 0
        BY <1>0
      <4> QED
        BY <2>2, <3>1, <4>1
    <3>2. CASE k # m /\ k # 0
      <4>1. k \in 0 .. m - 1 /\ k - 1 \in 0 .. m - 1
        BY <1>0, <3>2
      <4> QED
        BY <2>2, <2>3, <3>2, <4>1
    <3>3. CASE k # m /\ k = 0
      <4>1. k \in 0 .. m - 1
        BY <1>0, <3>3
      <4> QED
        BY <2>2, <2>3, <3>3, <4>1
    <3> QED
      BY <3>1, <3>2, <3>3
  <2>5. g = [k \in 0 .. m |-> g[k]]
    OBVIOUS
  <2> HIDE DEF g
  <2>6. g = F(g, m)
    BY <2>4, <2>5
  <2>7. m \in 0 .. n
    BY <1>0
  <2> QED
    BY <2>6, <2>7
<1>3. n \in Good
  <2> HIDE DEF Good
  <2>1. \A i \in 0 .. n : i \in Good
    BY <1>0, <1>1, <1>2, UpTo
  <2> QED
    BY <1>0, <2>1
<1>4. after = F(after, n)
  BY <1>3
<1>5. TryDispatchAcrossPool(p) = after[n]
  BY DEF TryDispatchAcrossPool
<1> DEFINE g == F(after, n)
<1>6. g[0] = p /\ \A k \in 1 .. n : g[k] = DispatchQueued(after[k - 1], order[k])
  BY <1>0
<1>7. after = g
  BY <1>4
<1> HIDE DEF after, g
<1>8. after[0] = p /\ \A k \in 1 .. n : after[k] = DispatchQueued(after[k - 1], order[k])
  BY <1>6, <1>7
<1> QED
  BY <1>5, <1>8

(* Trying every slot leaves nothing waiting or nobody idle.                *)
LEMMA TryDispatchKeeps ==
  ASSUME NEW p, NEW a, PoolOK(p, a)
  PROVE  LET g == TryDispatchAcrossPool(p)
         IN  PoolOK(g, a) /\ Full(g) /\ g.pending = p.pending
<1> PICK order : order = SetToSeq(Worker)
  OBVIOUS
<1> PICK n : n = Len(order)
  OBVIOUS
<1>1. /\ n \in Nat
      /\ \A k \in 1 .. n : order[k] \in Worker
      /\ \A w \in Worker : \E k \in 1 .. n : order[k] = w
  BY OrderCovers
<1>2. PICK after : /\ after[0] = p /\ after[n] = TryDispatchAcrossPool(p)
                   /\ \A k \in 1 .. n : after[k] = DispatchQueued(after[k - 1], order[k])
  BY TrySteps
<1> DEFINE Tried(g, k) == /\ PoolOK(g, a) /\ g.pending = p.pending
                          /\ \A i \in 1 .. k : g.queue = <<>> \/ Busy(g, order[i])
           Good == {k \in 0 .. n : Tried(after[k], k)}
<1>3. 0 \in Good
  BY <1>1, <1>2
<1>4. ASSUME NEW k \in 1 .. n, k - 1 \in Good PROVE k \in Good
  <2> DEFINE h == after[k - 1]
             g == DispatchQueued(h, order[k])
  <2>1. order[k] \in Worker /\ after[k] = g /\ Tried(h, k - 1)
    BY <1>1, <1>2, <1>4
  <2> HIDE DEF h
  <2>2. /\ PoolOK(g, a) /\ g.pending = h.pending
        /\ \A v \in Worker : Busy(h, v) => Busy(g, v)
        /\ g.queue = <<>> \/ Busy(g, order[k])
        /\ h.queue = <<>> => g.queue = <<>>
    BY <2>1, DispatchKeeps
  <2> HIDE DEF g
  <2>3. \A i \in 1 .. k : i = k \/ i \in 1 .. k - 1
    BY <1>1
  <2>4. \A i \in 1 .. k : i \in 1 .. n
    BY <1>1
  <2>5. Tried(g, k)
    BY <1>1, <2>1, <2>2, <2>3, <2>4
  <2>6. k \in 0 .. n
    BY <1>1
  <2> HIDE DEF Tried
  <2> QED
    BY <2>1, <2>5, <2>6
<1>5. n \in Good
  <2> HIDE DEF Good
  <2>1. \A i \in 0 .. n : i \in Good
    BY <1>1, <1>3, <1>4, UpTo
  <2> QED
    BY <1>1, <2>1
<1>6. Tried(TryDispatchAcrossPool(p), n)
  BY <1>2, <1>5
<1> QED
  BY <1>1, <1>6 DEF Full

(* A new request of the active session. *)
LEMMA RunBatchKeeps ==
  ASSUME NEW p, NEW a, PoolOK(p, a), NEW r \in Request, r.session = a, r \notin p.pending
  PROVE  LET g == RunPolicyBatch(p, r)
         IN  PoolOK(g, a) /\ Full(g) /\ g.pending = p.pending \cup {r}
<1> DEFINE q == Append(p.queue, r)
           n == Len(p.queue)
           h == [p EXCEPT !.queue = q, !.pending = p.pending \cup {r}]
<1>1. Shape(p) /\ Inboxes(p, {a} \ {0}) /\ Holders(p, a) /\ Pending(p)
  BY DEF PoolOK
<1>2. RunPolicyBatch(p, r) = TryDispatchAcrossPool(h)
  BY DEF RunPolicyBatch
<1>3. /\ h.queue = q /\ h.pending = p.pending \cup {r} /\ h.current = p.current
      /\ h.inbox = p.inbox /\ h.primed = p.primed /\ h.broken = p.broken
  BY <1>1 DEF Shape
<1>4. Shape(h)
  <2> HIDE DEF q
  <2> QED
    BY <1>1 DEF Shape
<1>5. /\ IsList(q) /\ n \in Nat /\ Len(q) = n + 1 /\ q[n + 1] = r
      /\ \A i \in 1 .. n : q[i] = p.queue[i]
  BY <1>1, ListAppend DEF Holders
<1> HIDE DEF q, h
<1>6. /\ \A i \in 1 .. Len(q) : (i \in 1 .. n /\ q[i] = p.queue[i]) \/ (i = n + 1 /\ q[i] = r)
      /\ \A i \in 1 .. n : i \in 1 .. Len(q)
      /\ n + 1 \in 1 .. Len(q)
  BY <1>5
<1>7. r # NoRequest
  BY ClusterClientAssumption
<1>8. /\ \A i \in 1 .. n : p.queue[i] # r
      /\ \A w \in Worker : p.current[w] # r
  BY <1>1, <1>7 DEF Pending, Waits, IsCurrent
<1>9. Holders(h, a)
  <2>1. \A i \in 1 .. Len(q) : q[i] \in Request /\ q[i].session = a
    BY <1>1, <1>6 DEF Holders
  <2>2. \A i, j \in 1 .. Len(q) : q[i] = q[j] => i = j
    BY <1>1, <1>6, <1>8 DEF Holders
  <2>3. \A w \in Worker : \A i \in 1 .. Len(q) : q[i] # p.current[w]
    BY <1>1, <1>6, <1>8 DEF Holders
  <2> QED
    BY <1>1, <1>3, <1>5, <2>1, <2>2, <2>3 DEF Holders
<1>10. Pending(h)
  <2>1. \A x : Waits(h, x) <=> x = r \/ Waits(p, x)
    BY <1>3, <1>5, <1>6 DEF Waits
  <2>2. \A x : IsCurrent(h, x) <=> IsCurrent(p, x)
    BY <1>3 DEF IsCurrent
  <2> QED
    BY <1>1, <1>3, <1>7, <2>1, <2>2 DEF Pending
<1>11. Inboxes(h, {a} \ {0})
  BY <1>1, <1>3 DEF Inboxes, SlotOK
<1>12. PoolOK(h, a)
  BY <1>4, <1>9, <1>10, <1>11 DEF PoolOK
<1> QED
  BY <1>2, <1>3, <1>12, TryDispatchKeeps

(* A prime or unprime message to every worker.                             *)
LEMMA PostKeeps ==
  ASSUME NEW p, Shape(p), NEW B, Inboxes(p, B), NEW m, m.kind \in {"prime", "unprime"},
         NEW C, \A s \in C : Primes(m, s) \/ (s \in B /\ ~Unprimes(m, s))
  PROVE  LET g == PostToAll(p, m)
         IN  /\ Shape(g) /\ Inboxes(g, C)
             /\ g.queue = p.queue /\ g.pending = p.pending /\ g.current = p.current
<1> DEFINE box == [w \in Worker |-> IF w \in p.broken THEN <<>> ELSE Append(p.inbox[w], m)]
           g == [p EXCEPT !.inbox = box]
<1>1. PostToAll(p, m) = g
  BY DEF PostToAll
<1>2. \A w \in Worker : box[w] = IF w \in p.broken THEN <<>> ELSE Append(p.inbox[w], m)
  OBVIOUS
<1>3. box = [w \in Worker |-> box[w]]
  OBVIOUS
<1> HIDE DEF box
<1>4. /\ g.queue = p.queue /\ g.pending = p.pending /\ g.current = p.current
      /\ g.inbox = box /\ g.primed = p.primed /\ g.broken = p.broken
  BY DEF Shape
<1>5. Shape(g)
  BY <1>3 DEF Shape
<1> HIDE DEF g
<1>6. ASSUME NEW w \in Worker PROVE SlotOK(g, C, w)
  <2>1. SlotOK(p, B, w)
    BY DEF Inboxes
  <2>2. CASE w \in p.broken
    BY <1>2, <1>4, <2>2 DEF SlotOK
  <2>3. CASE w \notin p.broken
    <3> DEFINE q == p.inbox[w]
               K == p.primed[w]
    <3>1. InboxOK(q, p.current[w]) /\ InOrder(q, K, B) /\ IsList(q)
      BY <2>1, <2>3 DEF SlotOK, InboxOK
    <3>2. g.inbox[w] = Append(q, m) /\ g.current[w] = p.current[w] /\ g.primed[w] = K
      BY <1>2, <1>4, <2>3
    <3>3. ~IsRun(m)
      BY DEF IsRun
    <3> HIDE DEF q, K
    <3>4. InboxOK(Append(q, m), p.current[w])
      BY <3>1, InboxPost
    <3>5. InOrder(Append(q, m), K, C)
      BY <3>1, <3>3, InOrderPost
    <3> QED
      BY <1>4, <2>3, <3>2, <3>4, <3>5 DEF SlotOK
  <2> QED
    BY <2>2, <2>3
<1>7. Inboxes(g, C)
  BY <1>6 DEF Inboxes
<1> QED
  BY <1>1, <1>4, <1>5, <1>7

(* What is rejected, and what is left of a session given up.               *)
LEMMA CancelKeeps ==
  ASSUME NEW p, NEW a, PoolOK(p, a)
  PROVE  LET g == CancelMinerSession(p)
         IN  /\ Shape(g) /\ Inboxes(g, {a} \ {0}) /\ \A b : Holders(g, b)
             /\ Pending(g) /\ g.queue = <<>> /\ g.pending \subseteq p.pending
<1> DEFINE R == Range(p.queue)
           g == [p EXCEPT !.queue = <<>>, !.pending = p.pending \ R]
<1>1. Shape(p) /\ Inboxes(p, {a} \ {0}) /\ Holders(p, a) /\ Pending(p)
  BY DEF PoolOK
<1>2. CancelMinerSession(p) = g
  BY DEF CancelMinerSession
<1>3. \A x : x \in R <=> Waits(p, x)
  <2>1. IsList(p.queue)
    BY <1>1 DEF Holders
  <2> QED
    BY <2>1 DEF Waits, IsList, Range
<1> HIDE DEF R
<1>4. /\ g.queue = <<>> /\ g.pending = p.pending \ R /\ g.current = p.current
      /\ g.inbox = p.inbox /\ g.primed = p.primed /\ g.broken = p.broken
  BY <1>1 DEF Shape
<1>5. Shape(g)
  BY <1>1 DEF Shape
<1> HIDE DEF g
<1>6. Inboxes(g, {a} \ {0})
  BY <1>1, <1>4 DEF Inboxes, SlotOK
<1>7. IsList(<<>>) /\ Len(<<>>) = 0
  BY ListFacts
<1>8. \A b : Holders(g, b)
  BY <1>1, <1>4, <1>7 DEF Holders
<1>9. \A x : ~Waits(g, x) /\ (IsCurrent(g, x) <=> IsCurrent(p, x))
  BY <1>4, <1>7 DEF Waits, IsCurrent
<1>10. \A x : Waits(p, x) /\ IsCurrent(p, x) => FALSE
  BY <1>1 DEF Waits, IsCurrent, Holders
<1>11. Pending(g)
  BY <1>1, <1>3, <1>4, <1>9, <1>10 DEF Pending
<1> QED
  BY <1>2, <1>4, <1>5, <1>6, <1>8, <1>11

LEMMA NoSessionNoQueue == \A p : PoolOK(p, 0) => p.queue = <<>>
<1> SUFFICES ASSUME NEW p, PoolOK(p, 0) PROVE p.queue = <<>>
  OBVIOUS
<1>1. IsList(p.queue) /\ \A i \in 1 .. Len(p.queue) : p.queue[i] \in Request /\ p.queue[i].session = 0
  BY DEF PoolOK, Holders
<1>2. \A r \in Request : r.session # 0
  BY DEF Request
<1>3. Len(p.queue) \in Nat /\ \A i \in 1 .. Len(p.queue) : FALSE
  BY <1>1, <1>2, ListFacts
<1>4. Len(p.queue) = 0
  BY <1>3
<1> QED
  BY <1>1, <1>4, ListFacts

LEMMA GiveUpKeeps ==
  ASSUME NEW p, NEW a, PoolOK(p, a)
  PROVE  LET g == GiveUp(p, a)
         IN  PoolOK(g, 0) /\ g.queue = <<>> /\ g.pending \subseteq p.pending
<1>1. CASE a = 0
  BY <1>1, NoSessionNoQueue DEF GiveUp
<1>2. CASE a # 0
  <2> DEFINE h == CancelMinerSession(p)
             m == Unprime(a)
             g == PostToAll(h, m)
             B == {a} \ {0}
             C == {0} \ {0}
  <2>1. GiveUp(p, a) = g
    BY <1>2 DEF GiveUp, UnprimeMinerSession
  <2>2. /\ Shape(h) /\ Inboxes(h, B) /\ \A b : Holders(h, b)
        /\ Pending(h) /\ h.queue = <<>> /\ h.pending \subseteq p.pending
    BY CancelKeeps
  <2>3. m.kind \in {"prime", "unprime"}
    BY DEF Unprime
  <2>4. \A s \in C : Primes(m, s) \/ (s \in B /\ ~Unprimes(m, s))
    OBVIOUS
  <2> HIDE DEF h, m, B, C
  <2>5. /\ Shape(g) /\ Inboxes(g, C)
        /\ g.queue = h.queue /\ g.pending = h.pending /\ g.current = h.current
    BY <2>2, <2>3, <2>4, PostKeeps
  <2> HIDE DEF g
  <2>6. Holders(g, 0) /\ Pending(g)
    BY <2>2, <2>5 DEF Holders, Pending, Waits, IsCurrent
  <2>7. PoolOK(g, 0)
    BY <2>5, <2>6 DEF PoolOK, C
  <2> QED
    BY <2>1, <2>2, <2>5, <2>7
<1> QED
  BY <1>1, <1>2

(* Session s is announced to a client that may be active in another one.   *)
LEMMA StartKeeps ==
  ASSUME NEW c, NEW p, PoolOK(p, c.activeSession), Full(p), NEW s, s # 0
  PROVE  LET g == HandleStartSession(c, p, s)
         IN  PoolOK(g, s) /\ Full(g) /\ g.pending \subseteq p.pending
<1> DEFINE a == c.activeSession
           h == IF a \notin {0, s} THEN GiveUp(p, a) ELSE p
           b == IF a = s THEN s ELSE 0
           m == Prime(s)
           g == PostToAll(h, m)
           B == {b} \ {0}
           C == {s} \ {0}
<1>1. HandleStartSession(c, p, s) = g
  BY DEF HandleStartSession, PrimeMinerSession
<1>2. PoolOK(h, b) /\ Full(h) /\ h.pending \subseteq p.pending
  <2>1. CASE a \notin {0, s}
    BY <2>1, GiveUpKeeps DEF Full
  <2>2. CASE a \in {0, s}
    BY <2>2
  <2> QED
    BY <2>1, <2>2
<1>3. h.queue = <<>> \/ b = s
  BY <1>2, NoSessionNoQueue
<1>4. m.kind \in {"prime", "unprime"} /\ \A t \in C : Primes(m, t)
  BY DEF Prime, Primes
<1>5. Shape(h) /\ Inboxes(h, B) /\ Holders(h, b) /\ Pending(h)
  BY <1>2 DEF PoolOK
<1> HIDE DEF h, m, B, C, b
<1>6. /\ Shape(g) /\ Inboxes(g, C)
      /\ g.queue = h.queue /\ g.pending = h.pending /\ g.current = h.current
  BY <1>4, <1>5, PostKeeps
<1> HIDE DEF g
<1>7. Len(<<>>) = 0
  BY ListFacts
<1>8. Holders(g, s) /\ Pending(g)
  BY <1>3, <1>5, <1>6, <1>7 DEF Holders, Pending, Waits, IsCurrent
<1>9. PoolOK(g, s) /\ Full(g)
  BY <1>2, <1>6, <1>8 DEF PoolOK, C, Full, Busy
<1> QED
  BY <1>1, <1>2, <1>6, <1>9

(* A worker reads a message that is no run.                                *)
LEMMA HandlesKeeps ==
  ASSUME NEW p, NEW a, PoolOK(p, a), Full(p), NEW w \in Worker, w \notin p.broken,
         p.inbox[w] # <<>>, ~IsRun(Head(p.inbox[w]))
  PROVE  LET g == HandlesSession(p, w)
         IN  PoolOK(g, a) /\ Full(g) /\ g.pending = p.pending
<1> DEFINE q == p.inbox[w]
           m == Head(q)
           L == IF m.kind = "prime" THEN p.primed[w] \cup {m.session}
                ELSE p.primed[w] \ {m.session}
           box == [p.inbox EXCEPT ![w] = Tail(q)]
           pri == [p.primed EXCEPT ![w] = L]
           ld == p.loaded \cup {w}
           g == [p EXCEPT !.inbox = box, !.loaded = ld, !.primed = pri]
           B == {a} \ {0}
<1>1. Shape(p) /\ Inboxes(p, B) /\ Holders(p, a) /\ Pending(p)
  BY DEF PoolOK
<1>2. HandlesSession(p, w) = g
  BY DEF HandlesSession
<1>3. /\ box = [v \in Worker |-> IF v = w THEN Tail(q) ELSE p.inbox[v]]
      /\ pri = [v \in Worker |-> IF v = w THEN L ELSE p.primed[v]]
  BY <1>1 DEF Shape
<1>4. InboxOK(q, p.current[w]) /\ InOrder(q, p.primed[w], B) /\ IsList(q)
  BY <1>1 DEF Inboxes, SlotOK, InboxOK
<1>5. m.kind \in {"prime", "unprime"} /\ InboxOK(Tail(q), p.current[w])
  <2>1. /\ m.kind \in {"prime", "unprime", "run"}
        /\ InboxOK(Tail(q), p.current[w])
    BY <1>4, InboxRead
  <2> QED
    BY <2>1 DEF IsRun
<1>6. \A s : Primes(m, s) \/ (s \in p.primed[w] /\ ~Unprimes(m, s)) => s \in L
  BY <1>5 DEF Primes, Unprimes
<1> HIDE DEF m, L, B
<1>7. InOrder(Tail(q), L, B)
  BY <1>4, <1>6, InOrderRead DEF m
<1>8. pri = [v \in Worker |-> pri[v]] /\ box = [v \in Worker |-> box[v]]
  BY <1>3
<1> HIDE DEF q, box, pri, ld
<1>9. /\ g.queue = p.queue /\ g.pending = p.pending /\ g.current = p.current
      /\ g.inbox = box /\ g.primed = pri /\ g.broken = p.broken
  BY <1>1 DEF Shape
<1>10. Shape(g)
  BY <1>1, <1>8 DEF Shape
<1> HIDE DEF g
<1>11. ASSUME NEW v \in Worker PROVE SlotOK(g, B, v)
  <2>1. SlotOK(p, B, v)
    BY <1>1 DEF Inboxes
  <2>2. CASE v # w
    BY <1>3, <1>9, <2>1, <2>2 DEF SlotOK
  <2>3. CASE v = w
    BY <1>3, <1>5, <1>7, <1>9, <2>3 DEF SlotOK
  <2> QED
    BY <2>2, <2>3
<1>12. Holders(g, a) /\ Pending(g) /\ Full(g)
  BY <1>1, <1>9 DEF Holders, Pending, Waits, IsCurrent, Full, Busy
<1>13. PoolOK(g, a)
  BY <1>1, <1>10, <1>11, <1>12 DEF PoolOK, Inboxes, B
<1> QED
  BY <1>2, <1>9, <1>12, <1>13

(* The request of slot w is settled. *)
Frees(p, g, w) ==
  /\ g.queue = p.queue /\ g.pending = p.pending \ {p.current[w]}
  /\ g.current[w] = NoRequest /\ g.primed = p.primed
  /\ \A v \in Worker \ {w} : g.current[v] = p.current[v] /\ g.inbox[v] = p.inbox[v]
  /\ g.broken \subseteq p.broken \cup {w} /\ p.broken \subseteq g.broken

LEMMA FreesHolders ==
  ASSUME NEW p, NEW a, Holders(p, a), Pending(p), NEW w \in Worker, NEW g, Frees(p, g, w)
  PROVE  Holders(g, a) /\ Pending(g)
<1>1. \A v \in Worker : g.current[v] = IF v = w THEN NoRequest ELSE p.current[v]
  BY DEF Frees
<1>2. \A i \in 1 .. Len(p.queue) : p.queue[i] # NoRequest
  BY ClusterClientAssumption DEF Holders
<1>3. Holders(g, a)
  BY <1>1, <1>2 DEF Holders, Frees
<1>4. ASSUME NEW x, x # NoRequest
      PROVE  Waits(g, x) \/ IsCurrent(g, x) <=>
             (Waits(p, x) \/ IsCurrent(p, x)) /\ x # p.current[w]
  <2>1. Waits(g, x) <=> Waits(p, x)
    BY DEF Waits, Frees
  <2>2. IsCurrent(g, x) <=> IsCurrent(p, x) /\ x # p.current[w]
    <3>1. ASSUME IsCurrent(g, x) PROVE IsCurrent(p, x) /\ x # p.current[w]
      <4>1. PICK v \in Worker : g.current[v] = x
        BY <3>1 DEF IsCurrent
      <4>2. v # w /\ p.current[v] = x
        BY <1>1, <1>4, <4>1
      <4> QED
        BY <1>4, <4>2 DEF IsCurrent, Holders
    <3>2. ASSUME IsCurrent(p, x), x # p.current[w] PROVE IsCurrent(g, x)
      BY <1>1, <3>2 DEF IsCurrent
    <3> QED
      BY <3>1, <3>2
  <2>3. Waits(p, x) => x # p.current[w]
    BY DEF Waits, Holders
  <2> QED
    BY <2>1, <2>2, <2>3
<1>5. Pending(g)
  BY <1>4 DEF Pending, Frees
<1> QED
  BY <1>3, <1>5

(* The slot that was freed takes up what waits, so again nothing waits     *)
(* while a slot is idle.                                                   *)
LEMMA FreesDispatch ==
  ASSUME NEW p, NEW a, PoolOK(p, a), Full(p), NEW w \in Worker, NEW h, Frees(p, h, w),
         Shape(h), SlotOK(h, {a} \ {0}, w)
  PROVE  LET g == DispatchQueued(h, w)
         IN  PoolOK(g, a) /\ Full(g) /\ g.pending \subseteq p.pending
<1> DEFINE g == DispatchQueued(h, w)
           B == {a} \ {0}
<1>1. Inboxes(p, B) /\ Holders(p, a) /\ Pending(p)
  BY DEF PoolOK
<1>2. Holders(h, a) /\ Pending(h)
  BY <1>1, FreesHolders
<1>3. ASSUME NEW v \in Worker PROVE SlotOK(h, B, v)
  <2>1. CASE v = w
    BY <2>1
  <2>2. CASE v # w
    BY <1>1, <2>2 DEF Inboxes, SlotOK, Frees
  <2> QED
    BY <2>1, <2>2
<1>4. PoolOK(h, a)
  BY <1>2, <1>3 DEF PoolOK, Inboxes
<1>5. /\ PoolOK(g, a) /\ g.pending = h.pending
      /\ \A v \in Worker : Busy(h, v) => Busy(g, v)
      /\ g.queue = <<>> \/ Busy(g, w)
      /\ h.queue = <<>> => g.queue = <<>>
  BY <1>4, DispatchKeeps
<1> HIDE DEF g
<1>6. Full(g)
  <2> SUFFICES ASSUME g.queue # <<>>, NEW v \in Worker PROVE Busy(g, v)
    BY DEF Full
  <2>1. Busy(p, v)
    BY <1>5 DEF Full, Frees
  <2>2. v # w => Busy(h, v)
    BY <2>1 DEF Busy, Frees
  <2> QED
    BY <1>5, <2>2
<1>7. g.pending \subseteq p.pending
  BY <1>5 DEF Frees
<1> QED
  BY <1>5, <1>6, <1>7 DEF g

(* A worker ends its run. *)
LEMMA AnsweredKeeps ==
  ASSUME NEW p, NEW a, PoolOK(p, a), Full(p), NEW w \in Worker, w \notin p.broken,
         p.inbox[w] # <<>>, IsRun(Head(p.inbox[w]))
  PROVE  LET g == Answered(p, w)
         IN  PoolOK(g, a) /\ Full(g) /\ g.pending \subseteq p.pending
<1> DEFINE q == p.inbox[w]
           m == Head(q)
           K == p.primed[w]
           B == {a} \ {0}
           pen == p.pending \ {p.current[w]}
           cur == [p.current EXCEPT ![w] = NoRequest]
           box == [p.inbox EXCEPT ![w] = Tail(q)]
           h == [p EXCEPT !.inbox = box, !.pending = pen, !.current = cur]
<1>1. Shape(p) /\ Inboxes(p, B) /\ Holders(p, a) /\ Pending(p)
  BY DEF PoolOK
<1>2. Answered(p, w) = DispatchQueued(h, w)
  BY DEF Answered
<1>3. /\ cur = [v \in Worker |-> IF v = w THEN NoRequest ELSE p.current[v]]
      /\ box = [v \in Worker |-> IF v = w THEN Tail(q) ELSE p.inbox[v]]
  BY <1>1 DEF Shape
<1>4. InboxOK(q, p.current[w]) /\ InOrder(q, K, B) /\ IsList(q)
  BY <1>1 DEF Inboxes, SlotOK, InboxOK
<1>5. InboxOK(Tail(q), NoRequest)
  BY <1>4, InboxRead
<1> HIDE DEF B, K
<1>6. InOrder(Tail(q), K, B)
  <2>1. \A s : Primes(Head(q), s) \/ (s \in K /\ ~Unprimes(Head(q), s)) => s \in K
    BY DEF IsRun, Primes
  <2> HIDE DEF q
  <2> QED
    BY <1>4, <2>1, InOrderRead DEF q
<1>7. cur = [v \in Worker |-> cur[v]] /\ box = [v \in Worker |-> box[v]]
  BY <1>3
<1> HIDE DEF q, cur, box, pen
<1>8. /\ h.queue = p.queue /\ h.pending = pen /\ h.current = cur
      /\ h.inbox = box /\ h.primed = p.primed /\ h.broken = p.broken
  BY <1>1 DEF Shape
<1>9. Shape(h)
  BY <1>1, <1>7 DEF Shape
<1> HIDE DEF h
<1>10. Frees(p, h, w)
  BY <1>3, <1>8 DEF Frees, pen
<1>11. SlotOK(h, B, w)
  BY <1>3, <1>5, <1>6, <1>8 DEF SlotOK, K
<1> QED
  BY <1>2, <1>9, <1>10, <1>11, FreesDispatch DEF B

(* The script of a worker fails to load. *)
LEMMA FailsToLoadKeeps ==
  ASSUME NEW p, NEW a, PoolOK(p, a), Full(p), NEW w \in Worker
  PROVE  LET g == FailsToLoad(p, w)
         IN  PoolOK(g, a) /\ Full(g) /\ g.pending \subseteq p.pending
<1> DEFINE B == {a} \ {0}
           pen == p.pending \ {p.current[w]}
           cur == [p.current EXCEPT ![w] = NoRequest]
           box == [p.inbox EXCEPT ![w] = <<>>]
           brk == p.broken \cup {w}
           h == [p EXCEPT !.pending = pen, !.current = cur, !.inbox = box, !.broken = brk]
<1>1. Shape(p) /\ Inboxes(p, B) /\ Holders(p, a) /\ Pending(p)
  BY DEF PoolOK
<1>2. FailsToLoad(p, w) = DispatchQueued(h, w)
  BY DEF FailsToLoad
<1>3. /\ cur = [v \in Worker |-> IF v = w THEN NoRequest ELSE p.current[v]]
      /\ box = [v \in Worker |-> IF v = w THEN <<>> ELSE p.inbox[v]]
  BY <1>1 DEF Shape
<1>4. cur = [v \in Worker |-> cur[v]] /\ box = [v \in Worker |-> box[v]]
  BY <1>3
<1> HIDE DEF cur, box, pen, brk, B
<1>5. /\ h.queue = p.queue /\ h.pending = pen /\ h.current = cur
      /\ h.inbox = box /\ h.primed = p.primed /\ h.broken = brk
  BY <1>1 DEF Shape
<1>6. Shape(h)
  BY <1>1, <1>4 DEF Shape
<1> HIDE DEF h
<1>7. Frees(p, h, w)
  BY <1>3, <1>5 DEF Frees, pen, brk
<1>8. SlotOK(h, B, w)
  BY <1>3, <1>5 DEF SlotOK, brk
<1> QED
  BY <1>2, <1>6, <1>7, <1>8, FreesDispatch DEF B
-----------------------------------------------------------------------------
(* The invariant. *)

LEMMA CInvInit == Init => CInv
<1> SUFFICES ASSUME Init PROVE CInv
  OBVIOUS
<1>1. {MaxSessions, MaxSeq} \subseteq Nat
  BY ClusterClientAssumption
<1>2. UsedOK(used) /\ used.sessions = 0
  BY <1>1 DEF Init, UsedOK
<1>3. ClientOK(client, session, used) /\ client.activeSession = 0
  BY <1>2 DEF Init, ClientOK
<1>4. /\ pool.queue = <<>> /\ pool.pending = {} /\ pool.broken = {} /\ Shape(pool)
      /\ \A w \in Worker : /\ pool.current[w] = NoRequest /\ pool.inbox[w] = <<>>
                           /\ pool.primed[w] = {}
  BY DEF Init, EmptyPool, Shape
<1>5. IsList(<<>>) /\ Len(<<>>) = 0 /\ {0} \ {0} = {}
  BY ListFacts
<1>6. Inboxes(pool, {0} \ {0})
  BY <1>4, <1>5, InboxEmpty DEF Inboxes, SlotOK
<1>7. Holders(pool, 0) /\ Pending(pool) /\ Full(pool) /\ Fresh(pool, used)
  BY <1>4, <1>5 DEF Holders, Pending, Waits, IsCurrent, Full, Fresh
<1> QED
  BY <1>2, <1>3, <1>4, <1>6, <1>7 DEF CInv, PoolOK

(* Steps that leave the pool alone.                                        *)
SameUse == UsedOK(used)' /\ used'.sessions = used.sessions /\ used'.seq = used.seq
SameClient == ClientOK(client, session, used)' /\ client'.activeSession = client.activeSession

LEMMA QuietStep ==
  ASSUME CInv, SameUse, SameClient, UNCHANGED pool
  PROVE  CInv'
BY DEF CInv, SameUse, SameClient, PoolOK, Fresh, Full, Busy, Shape, Inboxes, SlotOK, InboxOK,
       InOrder, Holders, Pending, Waits, IsCurrent

LEMMA SpendCounts ==
  ASSUME UsedOK(used), NEW b \in {"calls", "drops", "rejections"}, Spend(b) \/ UNCHANGED used
  PROVE  SameUse
BY DEF UsedOK, Spend, SameUse

LEMMA OpenSocketClient ==
  ASSUME NEW c, NEW s, NEW u, ClientOK(c, s, u), NEW k, OpenSocket(c, k)
  PROVE  ClientOK(client', s, u) /\ client'.activeSession = c.activeSession
<1> SUFFICES ASSUME NEW st, NEW so, NEW we, NEW ic,
                    client' = [c EXCEPT !.state = st, !.welcomed = we, !.socket = so,
                                        !.intentionallyClosed = ic]
             PROVE  ClientOK(client', s, u) /\ client'.activeSession = c.activeSession
  BY DEF OpenSocket, ClientOK
<1> QED
  BY DEF ClientOK

LEMMA UserCallsStep == CInv /\ UserCalls => CInv'
<1> SUFFICES ASSUME CInv, UserCalls PROVE CInv'
  OBVIOUS
<1>1. Call /\ UNCHANGED <<pool, session>>
  BY DEF UserCalls, Connect, Disconnect, Reconnect, SetDispatcherUrl, Call
<1>2. SameUse
  BY <1>1, SpendCounts DEF Call, CInv
<1>3. ClientOK(client, session, used)
  BY DEF CInv
<1>4. ClientOK(client', session, used) /\ client'.activeSession = client.activeSession
  <2>1. CASE Connect
    BY <1>3, <2>1, OpenSocketClient DEF Connect
  <2>2. CASE Disconnect
    BY <1>3, <2>2 DEF Disconnect, ClientOK
  <2>3. CASE Reconnect
    <3> DEFINE c == [client EXCEPT !.reconnectTimer = FALSE]
    <3>1. ClientOK(c, session, used) /\ c.activeSession = client.activeSession
      BY <1>3 DEF ClientOK
    <3>2. OpenSocket(c, CloseCurrent)
      BY <2>3 DEF Reconnect
    <3> HIDE DEF c
    <3> QED
      BY <3>1, <3>2, OpenSocketClient
  <2>4. CASE SetDispatcherUrl
    BY <1>3, <2>4 DEF SetDispatcherUrl, ClientOK
  <2> QED
    BY <2>1, <2>2, <2>3, <2>4 DEF UserCalls
<1>5. SameClient
  BY <1>1, <1>2, <1>4 DEF SameClient, SameUse, ClientOK
<1> QED
  BY <1>1, <1>2, <1>5, QuietStep

LEMMA TimerFiresStep == CInv /\ TimerFires => CInv'
<1> SUFFICES ASSUME CInv, TimerFires PROVE CInv'
  OBVIOUS
<1> DEFINE c == [client EXCEPT !.reconnectTimer = FALSE]
<1>1. OpenSocket(c, sockets) /\ UNCHANGED <<pool, session, used>>
  BY DEF TimerFires
<1>2. ClientOK(c, session, used) /\ c.activeSession = client.activeSession
  BY DEF ClientOK, CInv
<1>3. SameUse
  BY <1>1 DEF SameUse, CInv, UsedOK
<1> HIDE DEF c
<1>4. ClientOK(client', session, used) /\ client'.activeSession = client.activeSession
  BY <1>1, <1>2, OpenSocketClient
<1>5. SameClient
  BY <1>1, <1>4 DEF SameClient, ClientOK
<1> QED
  BY <1>1, <1>3, <1>5, QuietStep

LEMMA SocketOpensStep == CInv /\ (\E s \in Socket : SocketOpens(s)) => CInv'
<1> SUFFICES ASSUME CInv, NEW s \in Socket, SocketOpens(s) PROVE CInv'
  OBVIOUS
<1>1. UNCHANGED <<client, pool, session, used>>
  BY DEF SocketOpens
<1>2. SameUse /\ SameClient
  BY <1>1 DEF SameUse, SameClient, CInv, UsedOK, ClientOK
<1> QED
  BY <1>1, <1>2, QuietStep

LEMMA RegisterRejectedStep == CInv /\ (\E s \in Socket : RegisterRejected(s)) => CInv'
<1> SUFFICES ASSUME CInv, NEW s \in Socket, RegisterRejected(s) PROVE CInv'
  OBVIOUS
<1>1. /\ Spend("rejections") /\ UNCHANGED <<pool, session>>
      /\ client' = [client EXCEPT !.state = "error", !.intentionallyClosed = TRUE]
  BY DEF RegisterRejected
<1>2. SameUse
  BY <1>1, SpendCounts DEF CInv
<1>3. ClientOK(client', session, used) /\ client'.activeSession = client.activeSession
  BY <1>1 DEF ClientOK, CInv
<1>4. SameClient
  BY <1>1, <1>2, <1>3 DEF SameClient, SameUse, ClientOK
<1> QED
  BY <1>1, <1>2, <1>4, QuietStep

(* What an action that changes the pool has to show.                       *)
LEMMA FreshKeeps ==
  ASSUME NEW p, NEW u, Fresh(p, u), NEW g, g.pending \subseteq p.pending,
         NEW v, v.sessions = u.sessions, v.seq = u.seq
  PROVE  Fresh(g, v)
BY DEF Fresh

LEMMA PoolStep ==
  ASSUME CInv, NEW a, NEW p, PoolOK(p, a), Full(p), p.pending \subseteq pool.pending, pool' = p,
         client'.activeSession = a, SameUse, ClientOK(client, session, used)'
  PROVE  CInv'
<1>1. Fresh(p, used')
  BY FreshKeeps DEF CInv, SameUse
<1>2. PoolOK(pool, client.activeSession)' /\ Full(pool)' /\ Fresh(pool, used)'
  BY <1>1 DEF PoolOK, Fresh, Full, Busy, Shape, Inboxes, SlotOK, InboxOK,
       InOrder, Holders, Pending, Waits, IsCurrent
<1> QED
  BY <1>2 DEF CInv, SameUse

LEMMA CloseStep ==
  CInv /\ (\E s \in Socket : CloseCompletes(s) \/ ConnectionLost(s)) => CInv'
<1> SUFFICES ASSUME CInv, NEW s \in Socket, CloseCompletes(s) \/ ConnectionLost(s) PROVE CInv'
  OBVIOUS
<1> DEFINE a == client.activeSession
           g == GiveUp(pool, a)
<1>1. CloseEvent(s) /\ (Spend("drops") \/ UNCHANGED used)
  BY DEF CloseCompletes, ConnectionLost
<1>2. SameUse
  BY <1>1, SpendCounts DEF CInv
<1>3. ClientOK(client, session, used) /\ PoolOK(pool, a)
  BY DEF CInv
<1>4. PoolOK(g, 0) /\ g.queue = <<>> /\ g.pending \subseteq pool.pending
  BY <1>3, GiveUpKeeps
<1>5. pool' = g /\ UNCHANGED session
  BY <1>1 DEF CloseEvent
<1>6. \E st, we, rt :
        client' = [client EXCEPT !.socket = 0, !.heartbeatTimer = FALSE, !.activeSession = 0,
                                 !.reconnectTimer = rt, !.state = st, !.welcomed = we]
  BY <1>1 DEF CloseEvent
<1>7. 0 \in 0 .. used.sessions
  BY DEF CInv, UsedOK
<1>8. ClientOK(client', session, used) /\ client'.activeSession = 0
  BY <1>3, <1>6, <1>7 DEF ClientOK
<1>9. ClientOK(client, session, used)'
  BY <1>2, <1>5, <1>8 DEF SameUse, ClientOK
<1> HIDE DEF g
<1>10. Full(g)
  BY <1>4 DEF Full
<1> QED
  BY <1>2, <1>4, <1>5, <1>8, <1>9, <1>10, PoolStep

LEMMA WelcomeStep == CInv /\ (\E s \in Socket : Welcome(s)) => CInv'
<1> SUFFICES ASSUME CInv, NEW s \in Socket, Welcome(s) PROVE CInv'
  OBVIOUS
<1> DEFINE c == [client EXCEPT !.state = "connected", !.welcomed = TRUE, !.heartbeatTimer = TRUE]
           g == HandleStartSession(c, pool, session)
<1>1. /\ ClientOK(client, session, used) /\ UsedOK(used)
      /\ PoolOK(pool, client.activeSession) /\ Full(pool)
  BY DEF CInv
<1>2. ClientOK(c, session, used) /\ c.activeSession = client.activeSession
  BY <1>1 DEF ClientOK
<1>3. /\ client' = IF session = 0 THEN c ELSE [c EXCEPT !.activeSession = session]
      /\ pool' = IF session = 0 THEN pool ELSE g
      /\ UNCHANGED <<session, used>>
  BY DEF Welcome
<1> HIDE DEF c
<1>4. SameUse
  BY <1>1, <1>3 DEF SameUse, UsedOK
<1>5. CASE session = 0
  <2>1. SameClient /\ UNCHANGED pool
    BY <1>2, <1>3, <1>5 DEF SameClient, ClientOK
  <2> QED
    BY <1>4, <2>1, QuietStep
<1>6. CASE session # 0
  <2>1. PoolOK(g, session) /\ Full(g) /\ g.pending \subseteq pool.pending
    BY <1>1, <1>2, <1>6, StartKeeps
  <2>2. client' = [c EXCEPT !.activeSession = session] /\ pool' = g
    BY <1>3, <1>6
  <2>3. session \in 0 .. used.sessions
    BY <1>1 DEF ClientOK, UsedOK
  <2>4. ClientOK(client', session, used) /\ client'.activeSession = session
    BY <1>2, <2>2, <2>3 DEF ClientOK
  <2>5. ClientOK(client, session, used)'
    BY <1>3, <2>4 DEF ClientOK
  <2> HIDE DEF g
  <2> QED
    BY <1>4, <2>1, <2>2, <2>4, <2>5, PoolStep
<1> QED
  BY <1>5, <1>6

(* Batches are numbered from 1 again, under a session id of their own.     *)
LEMMA StartSessionStep == CInv /\ StartSession => CInv'
<1> SUFFICES ASSUME CInv, StartSession PROVE CInv'
  OBVIOUS
<1> DEFINE t == used.sessions + 1
           a == client.activeSession
           g == IF Listening = {} THEN pool ELSE HandleStartSession(client, pool, t)
           b == IF Listening = {} THEN a ELSE t
<1>1. /\ ClientOK(client, session, used) /\ UsedOK(used)
      /\ PoolOK(pool, a) /\ Full(pool) /\ Fresh(pool, used)
  BY DEF CInv
<1>2. /\ used.sessions < MaxSessions /\ session' = t /\ pool' = g
      /\ used' = [used EXCEPT !.sessions = t, !.seq = 0]
      /\ client' = IF Listening = {} THEN client ELSE [client EXCEPT !.activeSession = t]
  BY DEF StartSession
<1>3. t # 0 /\ t \in 0 .. MaxSessions /\ t \in 0 .. t /\ used.sessions \in Nat /\ 0 \in 0 .. MaxSeq
      /\ \A i \in 0 .. used.sessions : i \in 0 .. t
  <2>1. used.sessions \in 0 .. MaxSessions /\ MaxSessions \in Nat /\ MaxSeq \in Nat
    BY <1>1, ClusterClientAssumption DEF UsedOK
  <2> QED
    BY <1>2, <2>1
<1> HIDE DEF t
<1>4. UsedOK(used') /\ used'.sessions = t /\ used'.seq = 0
  BY <1>1, <1>2, <1>3 DEF UsedOK
<1>5. PoolOK(g, b) /\ Full(g) /\ g.pending \subseteq pool.pending
  BY <1>1, <1>3, StartKeeps
<1>6. ASSUME NEW r \in g.pending
      PROVE  /\ r \in Request /\ r.session <= t
             /\ r.session = t => r.batch <= 0
  <2>1. r \in Request /\ r.session <= used.sessions
    BY <1>1, <1>5 DEF Fresh
  <2>2. r.session \in 1 .. MaxSessions /\ MaxSessions \in Nat
    BY <2>1, ClusterClientAssumption DEF Request
  <2> QED
    BY <1>3, <2>1, <2>2 DEF t
<1> HIDE DEF g
<1>7. Fresh(g, used')
  BY <1>4, <1>6 DEF Fresh
<1>8. ClientOK(client', t, used') /\ client'.activeSession = b
  <2>1. a \in 0 .. t
    BY <1>1, <1>3 DEF ClientOK
  <2> QED
    BY <1>1, <1>2, <1>3, <1>4, <2>1 DEF ClientOK
<1> HIDE DEF b
<1>9. PoolOK(pool, client.activeSession)' /\ Full(pool)' /\ Fresh(pool, used)'
  BY <1>2, <1>5, <1>7, <1>8 DEF PoolOK, Fresh, Full, Busy, Shape, Inboxes, SlotOK, InboxOK,
       InOrder, Holders, Pending, Waits, IsCurrent
<1>10. UsedOK(used)' /\ ClientOK(client, session, used)'
  BY <1>2, <1>4, <1>8 DEF UsedOK, ClientOK
<1> QED
  BY <1>9, <1>10 DEF CInv

LEMMA EndSessionStep == CInv /\ EndSession => CInv'
<1> SUFFICES ASSUME CInv, EndSession PROVE CInv'
  OBVIOUS
<1> DEFINE g == GiveUp(pool, session)
<1>1. /\ ClientOK(client, session, used) /\ UsedOK(used)
      /\ PoolOK(pool, client.activeSession)
  BY DEF CInv
<1>2. UNCHANGED used /\ session' = 0
  BY DEF EndSession
<1>3. SameUse
  BY <1>1, <1>2 DEF SameUse, UsedOK
<1>4. CASE Listening # {} /\ client.activeSession = session
  <2>1. client' = [client EXCEPT !.activeSession = 0] /\ pool' = g
    BY <1>4 DEF EndSession
  <2>2. PoolOK(g, 0) /\ g.queue = <<>> /\ g.pending \subseteq pool.pending
    BY <1>1, <1>4, GiveUpKeeps
  <2> HIDE DEF g
  <2>3. Full(g)
    BY <2>2 DEF Full
  <2>4. 0 \in 0 .. used.sessions
    BY <1>1 DEF UsedOK
  <2>5. ClientOK(client', 0, used) /\ client'.activeSession = 0
    BY <1>1, <2>1, <2>4 DEF ClientOK
  <2>6. ClientOK(client, session, used)'
    BY <1>2, <2>5 DEF ClientOK
  <2> QED
    BY <1>3, <2>1, <2>2, <2>3, <2>5, <2>6, PoolStep
<1>5. CASE ~(Listening # {} /\ client.activeSession = session)
  <2>1. UNCHANGED <<client, pool>>
    BY <1>5 DEF EndSession
  <2>2. SameClient
    BY <1>1, <1>2, <2>1 DEF SameClient, ClientOK
  <2> QED
    BY <1>3, <2>1, <2>2, QuietStep
<1> QED
  BY <1>4, <1>5

(* A batch is a request the pool has never had.                            *)
LEMMA BatchAssignStep == CInv /\ (\E s \in Socket : BatchAssign(s)) => CInv'
<1> SUFFICES ASSUME CInv, NEW s \in Socket, BatchAssign(s) PROVE CInv'
  OBVIOUS
<1> DEFINE q == used.seq + 1
           r == [session |-> session, batch |-> q]
           a == client.activeSession
           g == RunPolicyBatch(pool, r)
<1>1. /\ ClientOK(client, session, used) /\ UsedOK(used)
      /\ PoolOK(pool, a) /\ Full(pool) /\ Fresh(pool, used)
  BY DEF CInv
<1>2. /\ session # 0 /\ used.seq < MaxSeq /\ used' = [used EXCEPT !.seq = q]
      /\ UNCHANGED <<client, session>>
      /\ (a = session /\ pool' = g) \/ UNCHANGED pool
  BY DEF BatchAssign, Spend
<1>3. /\ session \in 1 .. MaxSessions /\ q \in 1 .. MaxSeq /\ session = used.sessions
      /\ q \in 0 .. MaxSeq /\ used.seq <= q /\ used.seq \in Int /\ ~(q <= used.seq) /\ q <= q
      /\ session <= session
  <2>1. /\ used.sessions \in 0 .. MaxSessions /\ used.seq \in 0 .. MaxSeq
        /\ session \in {0, used.sessions} /\ MaxSessions \in Nat /\ MaxSeq \in Nat
    BY <1>1, ClusterClientAssumption DEF ClientOK, UsedOK
  <2> QED
    BY <1>2, <2>1
<1> HIDE DEF q
<1>4. r \in Request /\ r.session = session /\ r.batch = q
  BY <1>3 DEF Request
<1>5. r \notin pool.pending
  BY <1>1, <1>3, <1>4 DEF Fresh
<1>6. UsedOK(used') /\ used'.sessions = used.sessions /\ used'.seq = q
  BY <1>1, <1>2, <1>3 DEF UsedOK
<1> HIDE DEF r
<1>7. Fresh(pool, used')
  <2>1. \A x \in Request : x.batch <= used.seq => x.batch <= q
    <3>1. \A x \in Request : x.batch \in Int
      BY ClusterClientAssumption DEF Request
    <3>2. \A i \in Int : i <= used.seq => i <= q
      BY <1>3 DEF q
    <3> QED
      BY <3>1, <3>2
  <2> QED
    BY <1>1, <1>6, <2>1 DEF Fresh
<1>8. /\ PoolOK(pool', a) /\ Full(pool') /\ Fresh(pool', used')
  <2>1. CASE UNCHANGED pool
    BY <1>1, <1>7, <2>1
  <2>2. CASE a = session /\ pool' = g
    <3>1. PoolOK(g, a) /\ Full(g) /\ g.pending = pool.pending \cup {r}
      BY <1>1, <1>4, <1>5, <2>2, RunBatchKeeps
    <3> HIDE DEF g
    <3>2. Fresh(g, used')
      BY <1>3, <1>4, <1>6, <1>7, <3>1 DEF Fresh
    <3> QED
      BY <2>2, <3>1, <3>2
  <2> QED
    BY <1>2, <2>1, <2>2
<1>9. PoolOK(pool, client.activeSession)' /\ Full(pool)' /\ Fresh(pool, used)'
  BY <1>2, <1>8 DEF PoolOK, Fresh, Full, Busy, Shape, Inboxes, SlotOK, InboxOK,
       InOrder, Holders, Pending, Waits, IsCurrent
<1>10. UsedOK(used)' /\ ClientOK(client, session, used)'
  BY <1>1, <1>2, <1>6 DEF UsedOK, ClientOK
<1> QED
  BY <1>9, <1>10 DEF CInv

LEMMA WorkerActsStep == CInv /\ (\E w \in Worker : WorkerActs(w)) => CInv'
<1> SUFFICES ASSUME CInv, NEW w \in Worker, WorkerActs(w) PROVE CInv'
  OBVIOUS
<1> DEFINE a == client.activeSession
<1>1. /\ ClientOK(client, session, used) /\ UsedOK(used) /\ PoolOK(pool, a) /\ Full(pool)
  BY DEF CInv
<1>2. UNCHANGED <<client, session, used>>
  BY DEF WorkerActs, ReadsSession, EndsRun, WorkerFails
<1>3. PICK g : pool' = g /\ PoolOK(g, a) /\ Full(g) /\ g.pending \subseteq pool.pending
  <2>1. CASE ReadsSession(w)
    BY <1>1, <2>1, HandlesKeeps DEF ReadsSession, Alive
  <2>2. CASE EndsRun(w)
    BY <1>1, <2>2, AnsweredKeeps DEF EndsRun, Alive
  <2>3. CASE WorkerFails(w)
    BY <1>1, <2>3, FailsToLoadKeeps DEF WorkerFails
  <2> QED
    BY <2>1, <2>2, <2>3 DEF WorkerActs
<1>4. SameUse /\ SameClient
  BY <1>1, <1>2 DEF SameUse, SameClient, UsedOK, ClientOK
<1> QED
  BY <1>2, <1>3, <1>4, PoolStep DEF SameClient

LEMMA CInvStep == CInv /\ [Next]_clientVars => CInv'
<1> SUFFICES ASSUME CInv, [Next]_clientVars PROVE CInv'
  OBVIOUS
<1>1. CASE UNCHANGED clientVars
  <2>1. UNCHANGED <<client, pool, session, used>>
    BY <1>1 DEF clientVars
  <2>2. SameUse /\ SameClient
    BY <2>1 DEF SameUse, SameClient, CInv, UsedOK, ClientOK
  <2> QED
    BY <2>1, <2>2, QuietStep
<1>2. CASE \E s \in Socket : SocketActs(s)
  <2>1. PICK s \in Socket : SocketActs(s)
    BY <1>2
  <2> QED
    BY <2>1, SocketOpensStep, WelcomeStep, RegisterRejectedStep, CloseStep, BatchAssignStep
       DEF SocketActs
<1>3. CASE \E w \in Worker : WorkerActs(w)
  BY <1>3, WorkerActsStep
<1> QED
  BY <1>1, <1>2, <1>3, UserCallsStep, TimerFiresStep, StartSessionStep, EndSessionStep DEF Next

LEMMA CInvAlways == Spec => []CInv
BY CInvInit, CInvStep, PTL DEF Spec
-----------------------------------------------------------------------------
(* What the invariant shows.                                               *)

LEMMA HowMany ==
  ASSUME NEW S
  PROVE  /\ S = {} => Cardinality(S) = 0
         /\ (\E x \in S : \A y \in S : y = x) => Cardinality(S) = 1
<1>1. (\E x \in S : \A y \in S : y = x) => \E x : S = {x}
  OBVIOUS
<1> QED
  BY <1>1, FS_EmptySet, FS_Singleton

(* A worker has a run of its slot's request and of no other.               *)
LEMMA RunsOfSlots ==
  ASSUME CInv, NEW r, r # NoRequest, NEW w \in Worker
  PROVE  RunsOf(pool, w, r) = IF pool.current[w] = r /\ w \notin pool.broken THEN 1 ELSE 0
<1> DEFINE b == pool.inbox[w]
           runs == {i \in DOMAIN b : b[i] = Run(r)}
<1>1. SlotOK(pool, {client.activeSession} \ {0}, w)
  BY DEF CInv, PoolOK, Inboxes
<1>2. RunsOf(pool, w, r) = Cardinality(runs)
  BY DEF RunsOf
<1>3. CASE w \in pool.broken
  <2>1. DOMAIN b = {}
    BY <1>1, <1>3 DEF SlotOK
  <2>2. runs = {}
    BY <2>1
  <2> HIDE DEF runs
  <2> QED
    BY <1>2, <1>3, <2>2, HowMany
<1>4. CASE w \notin pool.broken
  <2>1. InboxOK(b, pool.current[w])
    BY <1>1, <1>4 DEF SlotOK
  <2>2. DOMAIN b = 1 .. Len(b)
    BY <2>1, ListFacts DEF InboxOK
  <2>3. CASE pool.current[w] = r
    <3>1. PICK i \in 1 .. Len(b) : IsRun(b[i])
      BY <2>1, <2>3 DEF InboxOK
    <3>2. b[i] = Run(r) /\ \A j \in 1 .. Len(b) : b[j] = Run(r) => j = i
      BY <2>1, <2>3, <3>1, RunFields DEF InboxOK
    <3>3. i \in runs /\ \A j \in runs : j = i
      BY <2>2, <3>2
    <3> HIDE DEF runs
    <3> QED
      BY <1>2, <1>4, <2>3, <3>3, HowMany
  <2>4. CASE pool.current[w] # r
    <3>1. ASSUME NEW i \in runs PROVE FALSE
      <4>1. i \in 1 .. Len(b) /\ IsRun(b[i]) /\ b[i].request = r
        BY <2>2, RunFields
      <4>2. b[i].request = pool.current[w]
        BY <2>1, <4>1, RunFields DEF InboxOK
      <4> QED
        BY <2>4, <4>1, <4>2
    <3>2. runs = {}
      BY <3>1
    <3> HIDE DEF runs
    <3> QED
      BY <1>2, <2>4, <3>2, HowMany
  <2> QED
    BY <2>3, <2>4
<1> QED
  BY <1>3, <1>4

LEMMA InvHoldsRequests == CInv => RequestsHeld
<1> SUFFICES ASSUME CInv PROVE RequestsHeld
  OBVIOUS
<1> DEFINE q == pool.queue
           a == client.activeSession
<1>1. Holders(pool, a) /\ Pending(pool) /\ Full(pool)
  BY DEF CInv, PoolOK
<1>2. IsList(q) /\ DOMAIN q = 1 .. Len(q)
  BY <1>1, ListFacts DEF Holders
<1>3. ASSUME NEW r \in pool.pending
      PROVE  LET slots == {w \in Worker : pool.current[w] = r}
             IN  /\ Cardinality({i \in DOMAIN q : q[i] = r}) + Cardinality(slots) = 1
                 /\ \A w \in Worker :
                      RunsOf(pool, w, r) = IF w \in slots \ pool.broken THEN 1 ELSE 0
  <2> DEFINE slots == {w \in Worker : pool.current[w] = r}
             places == {i \in DOMAIN q : q[i] = r}
  <2>1. r # NoRequest /\ (Waits(pool, r) \/ IsCurrent(pool, r))
    BY <1>1 DEF Pending
  <2>2. \A w \in Worker : RunsOf(pool, w, r) = IF w \in slots \ pool.broken THEN 1 ELSE 0
    BY <2>1, RunsOfSlots
  <2>3. CASE Waits(pool, r)
    <3>1. slots = {}
      BY <1>1, <2>3 DEF Waits, Holders
    <3>2. \E i \in places : \A j \in places : j = i
      BY <1>1, <1>2, <2>3 DEF Waits, Holders
    <3> HIDE DEF slots, places
    <3>3. Cardinality(slots) = 0 /\ Cardinality(places) = 1
      BY <3>1, <3>2, HowMany
    <3> QED
      BY <2>2, <3>3 DEF slots, places
  <2>4. CASE IsCurrent(pool, r)
    <3>1. places = {}
      BY <1>1, <1>2, <2>4 DEF IsCurrent, Holders
    <3>2. \E w \in slots : \A v \in slots : v = w
      BY <1>1, <2>1, <2>4 DEF IsCurrent, Holders
    <3> HIDE DEF slots, places
    <3>3. Cardinality(slots) = 1 /\ Cardinality(places) = 0
      BY <3>1, <3>2, HowMany
    <3> QED
      BY <2>2, <3>3 DEF slots, places
  <2> QED
    BY <2>1, <2>3, <2>4
<1>4. \A w \in Worker : pool.current[w] \in pool.pending \cup {NoRequest}
  BY <1>1 DEF Pending, IsCurrent
<1>5. Range(q) \subseteq pool.pending
  <2>1. \A i \in 1 .. Len(q) : q[i] \in Request /\ NoRequest \notin Request
    BY <1>1, ClusterClientAssumption DEF Holders
  <2>2. \A x \in Range(q) : x # NoRequest /\ Waits(pool, x)
    BY <1>2, <2>1 DEF Range, Waits
  <2> QED
    BY <1>1, <2>2 DEF Pending
<1>6. q # <<>> => \A w \in Worker : pool.current[w] # NoRequest
  BY <1>1 DEF Full, Busy
<1> HIDE DEF q
<1> QED
  BY <1>3, <1>4, <1>5, <1>6 DEF RequestsHeld, q

LEMMA InvFindsSessions == CInv => RunsFindTheirSession
<1> SUFFICES ASSUME CInv, NEW w \in Worker, Alive(w), IsRun(Head(pool.inbox[w]))
             PROVE  Head(pool.inbox[w]).request.session \in pool.primed[w]
  BY DEF RunsFindTheirSession
<1> DEFINE b == pool.inbox[w]
           K == pool.primed[w]
           B == {client.activeSession} \ {0}
<1>1. SlotOK(pool, B, w)
  BY DEF CInv, PoolOK, Inboxes
<1>2. IsList(b) /\ b # <<>> /\ InOrder(b, K, B)
  BY <1>1 DEF SlotOK, Alive, InboxOK
<1>3. \A s : Primes(Head(b), s) \/ (s \in K /\ ~Unprimes(Head(b), s)) => s \in K
  BY DEF IsRun, Primes
<1> HIDE DEF b, K, B
<1>4. IsRun(Head(b)) => Head(b).request.session \in K
  BY <1>2, <1>3, InOrderRead
<1> QED
  BY <1>4 DEF b, K

(* However sessions, connections and batches come and go, the browser      *)
(* holds every request that is not yet settled in exactly one place: its   *)
(* queue or one slot, none waiting while a slot is idle.  A worker has one *)
(* run of its slot's request and of no other, and one that did not load    *)
(* has none: what its slot holds is not run.                               *)
THEOREM RequestsAreHeld == Spec => []RequestsHeld
BY CInvAlways, InvHoldsRequests, PTL

(* No worker of the browser ever takes up a run before the session it      *)
(* belongs to, or after that was taken away.                               *)
THEOREM SessionsAreFound == Spec => []RunsFindTheirSession
BY CInvAlways, InvFindsSessions, PTL

(* What waits for a slot is of the session the client is active in, so     *)
(* giving that session up rejects all of it and nothing else.              *)
THEOREM QueueIsOfSession == Spec => [](\A r \in Range(pool.queue) : r.session = client.activeSession)
<1>1. CInv => \A r \in Range(pool.queue) : r.session = client.activeSession
  <2>1. CInv => DOMAIN pool.queue = 1 .. Len(pool.queue)
    BY ListFacts DEF CInv, PoolOK, Holders
  <2> QED
    BY <2>1 DEF CInv, PoolOK, Holders, Range
<1> QED
  BY <1>1, CInvAlways, PTL
=============================================================================
