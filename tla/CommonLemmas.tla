---------------------------- MODULE CommonLemmas ----------------------------
(***************************************************************************)
(* Facts that several components need: induction over an initial segment   *)
(* of the numbers, with a set in place of a predicate; the existence of    *)
(* the functions defined by recursion over such a segment, which is how    *)
(* the loops of the model are written; lists; and which sessions a worker  *)
(* has primed after reading some of its messages, the same for the host's  *)
(* workers and the browser's.                                              *)
(***************************************************************************)
EXTENDS Integers, Sequences, FiniteSets, Functions, FiniteSetTheorems,
        SequenceTheorems, WellFoundedInduction, TLAPS

(* A finite set of numbers has a greatest and a least element.             *)
LEMMA ExtremesExist ==
  ASSUME NEW S \in SUBSET Nat, IsFiniteSet(S), S # {}
  PROVE  /\ \E m \in S : \A x \in S : m >= x
         /\ \E m \in S : \A x \in S : m <= x
<1> DEFINE Good(K) == /\ \E m \in K : \A x \in K : m >= x
                      /\ \E m \in K : \A x \in K : m <= x
           Bad == {K \in SUBSET S : K # {} /\ ~Good(K)}
<1>1. FiniteSubsetsOf(S) = SUBSET S
  BY FS_FiniteSubsetsOfFinite
<1>2. IsWellFoundedOn(StrictSubsetOrdering(S), SUBSET S)
  BY <1>1, FS_StrictSubsetOrderingWellFounded
<1>3. ASSUME Bad # {} PROVE FALSE
  <2>1. Bad \subseteq SUBSET S
    OBVIOUS
  <2>2. \E K \in Bad : \A L \in Bad : ~(<<L, K>> \in StrictSubsetOrdering(S))
    <3> HIDE DEF Bad
    <3> QED
      BY <1>2, <1>3, <2>1, WFMin, Zenon
  <2>3. PICK K \in Bad : \A L \in Bad : ~(<<L, K>> \in StrictSubsetOrdering(S))
    BY <2>2
  <2>4. PICK k \in K : TRUE
    BY <2>3
  <2>5. K \ {k} = {} \/ Good(K \ {k})
    <3>1. K \ {k} \in SUBSET K /\ K \ {k} # K
      BY <2>4
    <3>2. <<K \ {k}, K>> \in StrictSubsetOrdering(S)
      BY <3>1, <2>3 DEF StrictSubsetOrdering
    <3>3. K \ {k} \notin Bad
      BY <3>2, <2>3
    <3> QED
      BY <3>3, <2>3
  <2>6. K \subseteq Nat
    BY <2>3
  <2>7. CASE K \ {k} = {}
    <3>1. \A x \in K : k >= x /\ k <= x
      BY <2>6, <2>7, <2>4
    <3> QED
      BY <3>1, <2>3, <2>4
  <2>8. CASE Good(K \ {k})
    <3>1. PICK m \in K \ {k} : \A x \in K \ {k} : m >= x
      BY <2>8
    <3>2. PICK n \in K \ {k} : \A x \in K \ {k} : n <= x
      BY <2>8
    <3>3. \E a \in K : \A x \in K : a >= x
      <4>1. CASE m >= k
        BY <3>1, <4>1, <2>6, <2>4
      <4>2. CASE k > m
        BY <3>1, <4>2, <2>6, <2>4
      <4> QED
        BY <4>1, <4>2, <2>6, <2>4, <3>1
    <3>4. \E a \in K : \A x \in K : a <= x
      <4>1. CASE n <= k
        BY <3>2, <4>1, <2>6, <2>4
      <4>2. CASE k < n
        BY <3>2, <4>2, <2>6, <2>4
      <4> QED
        BY <4>1, <4>2, <2>6, <2>4, <3>2
    <3> QED
      BY <3>3, <3>4, <2>3
  <2> QED
    BY <2>5, <2>7, <2>8
<1>4. S \notin Bad
  BY <1>3
<1> QED
  BY <1>4

(* What holds at 0 and from each number to the next holds up to n.         *)
LEMMA UpTo ==
  ASSUME NEW n \in Nat, NEW S, 0 \in S,
         \A i \in 1 .. n : i - 1 \in S => i \in S
  PROVE  \A i \in 0 .. n : i \in S
<1> DEFINE T == {i \in 0 .. n : i \notin S}
<1> SUFFICES ASSUME T # {} PROVE FALSE
  OBVIOUS
<1>1. T \in SUBSET Nat /\ IsFiniteSet(T)
  <2>1. IsFiniteSet(0 .. n)
    BY FS_Interval
  <2> QED
    BY <2>1, FS_Subset
<1>2. PICK m \in T : \A x \in T : m <= x
  <2> HIDE DEF T
  <2> QED
    BY <1>1, ExtremesExist
<1>3. m \in 1 .. n /\ m - 1 \in 0 .. n
  BY <1>2
<1>4. m - 1 \in S
  BY <1>2, <1>3
<1> QED
  BY <1>2, <1>3, <1>4

(* The function that starts from base and takes step i from i - 1 exists.  *)
Stepwise(f, n, base, step) ==
  f[0] = base /\ \A i \in 1 .. n : f[i] = step[<<f[i - 1], i>>]

LEMMA RecursiveFunction ==
  ASSUME NEW n \in Nat, NEW S, NEW base \in S, NEW step \in [S \X (1 .. n) -> S]
  PROVE  \E f \in [0 .. n -> S] : Stepwise(f, n, base, step)
<1> DEFINE Steps(f, k) == /\ f \in [0 .. k -> S] /\ f[0] = base
                          /\ \A i \in 1 .. k : f[i] = step[<<f[i - 1], i>>]
           Good == {k \in 0 .. n : \E f : Steps(f, k)}
<1>1. 0 \in Good
  <2> DEFINE g == [i \in 0 .. 0 |-> base]
  <2>1. Steps(g, 0)
    OBVIOUS
  <2> HIDE DEF g
  <2> QED
    BY <2>1
<1>2. ASSUME NEW k \in 1 .. n, k - 1 \in Good PROVE k \in Good
  <2>1. PICK f : Steps(f, k - 1)
    BY <1>2
  <2> DEFINE g == [i \in 0 .. k |-> IF i = k THEN step[<<f[k - 1], k>>] ELSE f[i]]
  <2>2. f[k - 1] \in S
    BY <2>1
  <2>3. step[<<f[k - 1], k>>] \in S
    BY <2>2
  <2>4. g \in [0 .. k -> S] /\ g[0] = base
    BY <2>1, <2>3
  <2>5. ASSUME NEW i \in 1 .. k
        PROVE  g[i] = step[<<g[i - 1], i>>]
    <3>1. i - 1 \in 0 .. k - 1 /\ g[i - 1] = f[i - 1]
      OBVIOUS
    <3>2. CASE i = k
      <4>1. g[i] = step[<<f[k - 1], k>>]
        BY <3>2
      <4> QED
        BY <3>1, <3>2, <4>1
    <3>3. CASE i # k
      <4>1. i \in 1 .. k - 1 /\ g[i] = f[i]
        BY <3>3
      <4> QED
        BY <2>1, <3>1, <4>1
    <3> QED
      BY <3>2, <3>3
  <2>6. Steps(g, k)
    BY <2>4, <2>5
  <2> HIDE DEF g
  <2> QED
    BY <2>6
<1>3. n \in Good
  <2>1. \A i \in 1 .. n : i - 1 \in Good => i \in Good
    BY <1>2
  <2> HIDE DEF Good
  <2>2. \A i \in 0 .. n : i \in Good
    BY <1>1, <2>1, UpTo
  <2> QED
    BY <2>2
<1> QED
  BY <1>3 DEF Stepwise
-----------------------------------------------------------------------------
(* Lists. *)

IsList(s) == s \in Seq(Range(s))

LEMMA ListAppend ==
  ASSUME NEW s, IsList(s), NEW m
  PROVE  /\ IsList(Append(s, m)) /\ Len(s) \in Nat /\ Len(Append(s, m)) = Len(s) + 1
         /\ \A i \in 1 .. Len(s) : Append(s, m)[i] = s[i]
         /\ Append(s, m)[Len(s) + 1] = m
<1> DEFINE S == Range(s) \cup {m}
<1>1. s \in Seq(S) /\ Len(s) \in Nat
  BY SeqMonotonic, LenProperties DEF IsList
<1> HIDE DEF S
<1>2. /\ Append(s, m) \in Seq(S) /\ Len(Append(s, m)) = Len(s) + 1
      /\ \A i \in 1 .. Len(s) : Append(s, m)[i] = s[i]
      /\ Append(s, m)[Len(s) + 1] = m
  BY <1>1, AppendProperties DEF S
<1> HIDE DEF S
<1>3. Append(s, m) \in Seq(Range(Append(s, m)))
  BY <1>2, SeqOfRange
<1> QED
  BY <1>1, <1>2, <1>3 DEF IsList

LEMMA ListTail ==
  ASSUME NEW s, IsList(s), s # <<>>
  PROVE  /\ IsList(Tail(s)) /\ Len(s) \in Nat \ {0} /\ Len(Tail(s)) = Len(s) - 1
         /\ \A i \in 1 .. Len(s) - 1 : Tail(s)[i] = s[i + 1]
         /\ Head(s) = s[1]
<1>1. s \in Seq(Range(s)) /\ Len(s) \in Nat /\ Len(s) # 0
  BY LenProperties, EmptySeq DEF IsList
<1>2. /\ Tail(s) \in Seq(Range(s)) /\ Len(Tail(s)) = Len(s) - 1
      /\ \A i \in 1 .. Len(s) - 1 : Tail(s)[i] = s[i + 1]
  BY <1>1, HeadTailProperties
<1>3. Head(s) = s[1]
  BY <1>1
<1>4. Tail(s) \in Seq(Range(Tail(s)))
  BY <1>2, SeqOfRange
<1> QED
  BY <1>1, <1>2, <1>3, <1>4 DEF IsList

LEMMA ListJoin ==
  ASSUME NEW s, IsList(s), NEW t, IsList(t)
  PROVE  /\ IsList(s \o t) /\ Len(s) \in Nat /\ Len(t) \in Nat
         /\ Len(s \o t) = Len(s) + Len(t)
         /\ \A i \in 1 .. Len(s) + Len(t) :
              (s \o t)[i] = IF i <= Len(s) THEN s[i] ELSE t[i - Len(s)]
<1> DEFINE S == Range(s) \cup Range(t)
<1>1. s \in Seq(S) /\ t \in Seq(S) /\ Len(s) \in Nat /\ Len(t) \in Nat
  BY SeqMonotonic, LenProperties DEF IsList
<1> HIDE DEF S
<1>2. /\ s \o t \in Seq(S) /\ Len(s \o t) = Len(s) + Len(t)
      /\ \A i \in 1 .. Len(s) + Len(t) :
           (s \o t)[i] = IF i <= Len(s) THEN s[i] ELSE t[i - Len(s)]
  BY <1>1, ConcatProperties
<1>3. s \o t \in Seq(Range(s \o t))
  BY <1>2, SeqOfRange
<1> QED
  BY <1>1, <1>2, <1>3 DEF IsList

LEMMA ListFacts ==
  /\ IsList(<<>>) /\ Len(<<>>) = 0
  /\ \A s : IsList(s) => /\ Len(s) \in Nat /\ DOMAIN s = 1 .. Len(s)
                         /\ s = [i \in 1 .. Len(s) |-> s[i]]
                         /\ Len(s) = 0 <=> s = <<>>
<1>1. IsList(<<>>) /\ Len(<<>>) = 0
  BY EmptySeq DEF IsList
<1>2. ASSUME NEW s, IsList(s)
      PROVE  /\ Len(s) \in Nat /\ DOMAIN s = 1 .. Len(s)
             /\ s = [i \in 1 .. Len(s) |-> s[i]]
             /\ Len(s) = 0 <=> s = <<>>
  BY <1>2, LenProperties, EmptySeq DEF IsList
<1> QED
  BY <1>1, <1>2

LEMMA ListMade ==
  ASSUME NEW n \in Nat, NEW s, s = [i \in 1 .. n |-> s[i]]
  PROVE  IsList(s) /\ Len(s) = n
<1>1. s \in [1 .. n -> Range(s)]
  BY DEF Range
<1>2. s \in Seq(Range(s))
  BY <1>1, IsASeq
<1>3. DOMAIN s = 1 .. n
  OBVIOUS
<1> QED
  BY <1>2, <1>3, LenProperties DEF IsList
-----------------------------------------------------------------------------
(* What is the case when a worker that knows the sessions in K has read n  *)
(* messages of q.                                                          *)
Primes(m, s) == m.kind = "prime" /\ m.session = s
Unprimes(m, s) == m.kind = "unprime" /\ m.session = s
PrimedAfter(q, K, n, s) ==
  \/ s \in K /\ \A j \in 1 .. n : ~Unprimes(q[j], s)
  \/ \E i \in 1 .. n : Primes(q[i], s) /\ \A j \in i + 1 .. n : ~Unprimes(q[j], s)

(* Another message is posted. *)
LEMMA PrimedAppend ==
  ASSUME NEW q, IsList(q), NEW K, NEW m
  PROVE  /\ \A k \in 0 .. Len(q) : \A s :
              PrimedAfter(q, K, k, s) => PrimedAfter(Append(q, m), K, k, s)
         /\ \A s :
              Primes(m, s) \/ (PrimedAfter(q, K, Len(q), s) /\ ~Unprimes(m, s)) =>
                PrimedAfter(Append(q, m), K, Len(q) + 1, s)
<1> DEFINE t == Append(q, m)
           n == Len(q)
<1>1. /\ n \in Nat /\ Len(t) = n + 1 /\ t[n + 1] = m
      /\ \A i \in 1 .. n : t[i] = q[i]
  BY ListAppend
<1> HIDE DEF t, n
<1>2. ASSUME NEW k \in 0 .. n, NEW s, PrimedAfter(q, K, k, s) PROVE PrimedAfter(t, K, k, s)
  <2>1. \A i \in 1 .. k : t[i] = q[i]
    BY <1>1
  <2> QED
    BY <1>2, <2>1 DEF PrimedAfter
<1>3. ASSUME NEW s, Primes(m, s) \/ (PrimedAfter(q, K, n, s) /\ ~Unprimes(m, s))
      PROVE  PrimedAfter(t, K, n + 1, s)
  <2>1. CASE Primes(m, s)
    <3>1. /\ n + 1 \in 1 .. n + 1 /\ Primes(t[n + 1], s)
          /\ \A j \in n + 1 + 1 .. n + 1 : ~Unprimes(t[j], s)
      BY <1>1, <2>1
    <3> QED
      BY <3>1 DEF PrimedAfter
  <2>2. CASE PrimedAfter(q, K, n, s) /\ ~Unprimes(m, s)
    <3>1. PrimedAfter(t, K, n, s) /\ ~Unprimes(t[n + 1], s)
      <4>1. n \in 0 .. n
        BY <1>1
      <4> QED
        BY <1>1, <1>2, <2>2, <4>1
    <3>2. \A j \in 1 .. n + 1 : j \in 1 .. n \/ j = n + 1
      BY <1>1
    <3>3. \A i \in 1 .. n : /\ i \in 1 .. n + 1
                            /\ \A j \in i + 1 .. n + 1 : j \in i + 1 .. n \/ j = n + 1
      BY <1>1
    <3>4. CASE s \in K /\ \A j \in 1 .. n : ~Unprimes(t[j], s)
      BY <3>1, <3>2, <3>4 DEF PrimedAfter
    <3>5. CASE \E i \in 1 .. n : Primes(t[i], s) /\ \A j \in i + 1 .. n : ~Unprimes(t[j], s)
      BY <3>1, <3>3, <3>5 DEF PrimedAfter
    <3> QED
      BY <3>1, <3>4, <3>5 DEF PrimedAfter
  <2> QED
    BY <1>3, <2>1, <2>2
<1> QED
  BY <1>2, <1>3 DEF t, n

(* The first message is read: the worker knows the sessions in L then.     *)
LEMMA PrimedRead ==
  ASSUME NEW q, IsList(q), q # <<>>, NEW K, NEW L,
         \A s : Primes(Head(q), s) \/ (s \in K /\ ~Unprimes(Head(q), s)) => s \in L
  PROVE  \A k \in 0 .. Len(q) - 1 : \A s :
           PrimedAfter(q, K, k + 1, s) => PrimedAfter(Tail(q), L, k, s)
<1> DEFINE t == Tail(q)
           n == Len(q)
<1>1. /\ n \in Nat \ {0} /\ Len(t) = n - 1 /\ q[1] = Head(q)
      /\ \A i \in 1 .. n - 1 : t[i] = q[i + 1]
  BY ListTail
<1> HIDE DEF t, n
<1>2. ASSUME NEW k \in 0 .. n - 1, NEW s, PrimedAfter(q, K, k + 1, s) PROVE PrimedAfter(t, L, k, s)
  <2>1. \A j \in 1 .. k : t[j] = q[j + 1] /\ j + 1 \in 1 .. k + 1
    BY <1>1
  <2>2. CASE s \in K /\ \A j \in 1 .. k + 1 : ~Unprimes(q[j], s)
    <3>1. 1 \in 1 .. k + 1
      BY <1>1
    <3>2. s \in L
      BY <1>1, <2>2, <3>1
    <3> QED
      BY <2>1, <2>2, <3>2 DEF PrimedAfter
  <2>3. ASSUME NEW i \in 1 .. k + 1, Primes(q[i], s), \A j \in i + 1 .. k + 1 : ~Unprimes(q[j], s)
        PROVE  PrimedAfter(t, L, k, s)
    <3>1. CASE i = 1
      <4>1. s \in L
        BY <1>1, <2>3, <3>1
      <4>2. \A j \in 1 .. k : j + 1 \in i + 1 .. k + 1
        BY <3>1
      <4> QED
        BY <2>1, <2>3, <4>1, <4>2 DEF PrimedAfter
    <3>2. CASE i # 1
      <4>1. i - 1 \in 1 .. k /\ t[i - 1] = q[i]
        BY <1>1, <3>2
      <4>2. \A j \in i - 1 + 1 .. k : j + 1 \in i + 1 .. k + 1 /\ j \in 1 .. k
        BY <3>2
      <4> QED
        BY <2>1, <2>3, <4>1, <4>2 DEF PrimedAfter
    <3> QED
      BY <3>1, <3>2
  <2> QED
    BY <1>2, <2>2, <2>3 DEF PrimedAfter
<1> QED
  BY <1>2 DEF t, n
=============================================================================
