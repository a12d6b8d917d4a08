---------------------------- MODULE CorpusProofs ----------------------------
(***************************************************************************)
(* The safety of the session's files (module Corpus) for every set of      *)
(* policies, sync interval and number of kills and power losses.  Two      *)
(* invariants are inductive: FileInv, which holds whatever a kill leaves,  *)
(* and CleanInv, which needs that a kill does not tear a record: then no   *)
(* line lacks its newline, so nothing is ever glued to another record.     *)
(***************************************************************************)
EXTENDS Corpus, CommonLemmas

Text == Policy \cup {Broken}
LineType == [text : Text, ended : BOOLEAN]
File == {f \in Seq(LineType) : \A i \in DOMAIN f : i < Len(f) => f[i].ended}
Distinct(file) ==
  \A i, j \in DOMAIN file : file[i].text = file[j].text /\ file[i].text # Broken => i = j
Clean(file) == \A i \in DOMAIN file : file[i].ended
NoRepeats(s) == \A i, j \in DOMAIN s : s[i] = s[j] => i = j

(* Where record j lands when records are appended to a file: the first is  *)
(* lost in a line that was not ended, and the rest moves up by one.        *)
Glued(file) == file # <<>> /\ ~Last(file).ended
Shift(file) == IF Glued(file) THEN Len(file) - 1 ELSE Len(file)

LEMMA Positions ==
  \A n, k, m \in Nat : \A i \in 1 .. k : k <= n => i \in 1 .. n /\ i \in 1 .. k + m
OBVIOUS

LEMMA ConcatElements ==
  ASSUME NEW S, NEW s \in Seq(S), NEW t \in Seq(S)
  PROVE  /\ s \o t \in Seq(S) /\ Len(s \o t) = Len(s) + Len(t)
         /\ \A i \in 1 .. Len(s) : (s \o t)[i] = s[i]
         /\ \A j \in 1 .. Len(t) : (s \o t)[Len(s) + j] = t[j]
<1>1. Len(s) \in Nat /\ Len(t) \in Nat
  BY LenProperties
<1>2. /\ s \o t \in Seq(S) /\ Len(s \o t) = Len(s) + Len(t)
      /\ \A i \in 1 .. Len(s) + Len(t) :
           (s \o t)[i] = IF i <= Len(s) THEN s[i] ELSE t[i - Len(s)]
  BY ConcatProperties
<1>3. ASSUME NEW i \in 1 .. Len(s) PROVE (s \o t)[i] = s[i]
  BY <1>1, <1>2
<1>4. ASSUME NEW j \in 1 .. Len(t) PROVE (s \o t)[Len(s) + j] = t[j]
  <2>1. /\ Len(s) + j \in 1 .. Len(s) + Len(t) /\ ~(Len(s) + j <= Len(s))
        /\ (Len(s) + j) - Len(s) = j
    BY <1>1
  <2>2. (s \o t)[Len(s) + j] = IF Len(s) + j <= Len(s) THEN s[Len(s) + j] ELSE t[(Len(s) + j) - Len(s)]
    BY <1>2, <2>1
  <2> QED
    BY <2>1, <2>2
<1> QED
  BY <1>2, <1>3, <1>4

LEMMA TailElements ==
  ASSUME NEW S, NEW s \in Seq(S), s # <<>>
  PROVE  /\ Tail(s) \in Seq(S) /\ Len(Tail(s)) = Len(s) - 1
         /\ \A j \in 2 .. Len(s) : Tail(s)[j - 1] = s[j]
<1>1. Len(s) \in Nat \ {0}
  BY EmptySeq
<1>2. /\ Tail(s) \in Seq(S) /\ Len(Tail(s)) = Len(s) - 1
      /\ \A i \in 1 .. Len(Tail(s)) : Tail(s)[i] = s[i + 1]
  BY HeadTailProperties
<1>3. ASSUME NEW j \in 2 .. Len(s) PROVE Tail(s)[j - 1] = s[j]
  <2>1. j - 1 \in 1 .. Len(Tail(s)) /\ (j - 1) + 1 = j
    BY <1>1, <1>2
  <2> QED
    BY <1>2, <2>1
<1> QED
  BY <1>2, <1>3

LEMMA PrefixElements ==
  ASSUME NEW S, NEW s \in Seq(S), NEW n \in 0 .. Len(s)
  PROVE  /\ SubSeq(s, 1, n) \in Seq(S) /\ Len(SubSeq(s, 1, n)) = n
         /\ \A i \in 1 .. n : SubSeq(s, 1, n)[i] = s[i]
<1>1. Len(s) \in Nat /\ 1 \in Int /\ n \in Int
  BY LenProperties
<1>2. \A i \in 1 .. n : s[i] \in S
  <2> TAKE i \in 1 .. n
  <2>1. i \in 1 .. Len(s)
    BY <1>1
  <2> QED
    BY <2>1, ElementOfSeq
<1>3. /\ SubSeq(s, 1, n) \in Seq(S)
      /\ Len(SubSeq(s, 1, n)) = IF 1 <= n THEN n - 1 + 1 ELSE 0
      /\ \A i \in 1 .. n - 1 + 1 : SubSeq(s, 1, n)[i] = s[1 + i - 1]
  BY <1>1, <1>2, SubSeqProperties
<1> QED
  BY <1>1, <1>3

LEMMA AppendLines ==
  ASSUME NEW file \in File, NEW records \in Seq(Text), records # <<>>
  PROVE  LET g == AppendTo(file, records)
             k == Shift(file)
         IN  /\ g \in Seq(LineType)
             /\ Len(g) = k + Len(records)
             /\ k \in 0 .. Len(file) /\ Len(file) <= Len(g)
             /\ \A i \in 1 .. k : g[i] = file[i]
             /\ \A j \in 1 .. Len(records) :
                  g[k + j] = IF Glued(file) /\ j = 1 THEN Line(Broken, TRUE)
                                                   ELSE Line(records[j], TRUE)
<1> DEFINE new == [i \in DOMAIN records |-> Line(records[i], TRUE)]
<1>1. /\ new \in Seq(LineType) /\ Len(new) = Len(records) /\ Len(records) \in Nat \ {0}
      /\ \A j \in 1 .. Len(records) : new[j] = Line(records[j], TRUE)
      /\ Line(Broken, TRUE) \in LineType
  <2>1. Len(records) \in Nat \ {0} /\ DOMAIN records = 1 .. Len(records)
    BY LenProperties, EmptySeq
  <2>2. \A t \in Text : Line(t, TRUE) \in LineType
    BY DEF Line, LineType
  <2>3. \A j \in 1 .. Len(records) : records[j] \in Text
    BY ElementOfSeq
  <2>4. new \in [1 .. Len(records) -> LineType]
    BY <2>1, <2>2, <2>3
  <2>5. new \in Seq(LineType)
    BY <2>1, <2>4, SeqDef
  <2>6. Len(new) = Len(records)
    BY <2>1, <2>4, <2>5, LenProperties
  <2> QED
    BY <2>1, <2>2, <2>5, <2>6 DEF Text
<1>2. file \in Seq(LineType) /\ Len(file) \in Nat
  BY LenProperties DEF File
<1>3. CASE ~Glued(file)
  <2>1. AppendTo(file, records) = file \o new
    BY <1>3 DEF AppendTo, Glued
  <2>2. Shift(file) = Len(file)
    BY <1>3 DEF Shift
  <2> HIDE DEF new
  <2>3. /\ file \o new \in Seq(LineType) /\ Len(file \o new) = Len(file) + Len(new)
        /\ \A i \in 1 .. Len(file) : (file \o new)[i] = file[i]
        /\ \A j \in 1 .. Len(new) : (file \o new)[Len(file) + j] = new[j]
    <3>1. file \in Seq(LineType) /\ new \in Seq(LineType)
      BY <1>1, <1>2
    <3> QED
      BY ONLY <3>1, ConcatElements
  <2>4. Len(file) \in 0 .. Len(file) /\ Len(file) <= Len(file) + Len(new)
    BY <1>1, <1>2
  <2> QED
    BY <1>1, <1>3, <2>1, <2>2, <2>3, <2>4
<1>4. CASE Glued(file)
  <2> DEFINE mid == <<Line(Broken, TRUE)>>
             start == SubSeq(file, 1, Len(file) - 1)
  <2>1. AppendTo(file, records) = start \o mid \o Tail(new)
    BY <1>4 DEF AppendTo, Glued, Front
  <2>2. Shift(file) = Len(file) - 1 /\ Len(file) \in Nat \ {0} /\ Len(file) - 1 \in 0 .. Len(file)
    BY <1>2, <1>4, EmptySeq DEF Shift, Glued
  <2>3. /\ start \in Seq(LineType) /\ Len(start) = Len(file) - 1
        /\ \A i \in 1 .. Len(file) - 1 : start[i] = file[i]
    BY <1>2, <2>2, PrefixElements
  <2>4. /\ Tail(new) \in Seq(LineType) /\ Len(Tail(new)) = Len(records) - 1
        /\ \A j \in 2 .. Len(records) : Tail(new)[j - 1] = new[j]
    <3> HIDE DEF new
    <3>1. new # <<>>
      BY <1>1, EmptySeq
    <3>2. /\ Tail(new) \in Seq(LineType) /\ Len(Tail(new)) = Len(new) - 1
          /\ \A j \in 2 .. Len(new) : Tail(new)[j - 1] = new[j]
      BY <1>1, <3>1, TailElements
    <3> QED
      BY <1>1, <3>2
  <2>5. mid \in Seq(LineType) /\ Len(mid) = 1 /\ mid[1] = Line(Broken, TRUE)
    <3> DEFINE line == Line(Broken, TRUE)
    <3>1. line \in LineType
      BY <1>1
    <3> HIDE DEF line
    <3>2. <<line>> \in Seq(LineType) /\ Len(<<line>>) = 1 /\ <<line>>[1] = line
      BY <3>1
    <3> QED
      BY <3>2 DEF line
  <2> HIDE DEF start, mid, new
  <2>6. /\ start \o mid \in Seq(LineType) /\ Len(start \o mid) = Len(start) + Len(mid)
        /\ \A i \in 1 .. Len(start) : (start \o mid)[i] = start[i]
        /\ \A j \in 1 .. Len(mid) : (start \o mid)[Len(start) + j] = mid[j]
    <3>1. start \in Seq(LineType) /\ mid \in Seq(LineType)
      BY <2>3, <2>5
    <3> QED
      BY ONLY <3>1, ConcatElements
  <2> DEFINE head == start \o mid
  <2>7. /\ head \in Seq(LineType) /\ Len(head) = Len(file)
        /\ \A i \in 1 .. Len(file) - 1 : head[i] = file[i]
        /\ head[Len(file)] = Line(Broken, TRUE)
    <3>1. Len(start) + 1 = Len(file) /\ 1 \in 1 .. Len(mid)
      BY <2>2, <2>3, <2>5
    <3>2. head[Len(start) + 1] = mid[1]
      BY <2>6, <3>1
    <3> QED
      BY <2>3, <2>5, <2>6, <3>1, <3>2
  <2> HIDE DEF head
  <2> DEFINE g == head \o Tail(new)
  <2>8. /\ g \in Seq(LineType) /\ Len(g) = Len(head) + Len(Tail(new))
        /\ \A i \in 1 .. Len(head) : g[i] = head[i]
        /\ \A j \in 1 .. Len(Tail(new)) : g[Len(head) + j] = Tail(new)[j]
    <3>1. head \in Seq(LineType) /\ Tail(new) \in Seq(LineType)
      BY <2>4, <2>7
    <3> QED
      BY ONLY <3>1, ConcatElements
  <2> HIDE DEF g
  <2>9. ASSUME NEW i \in 1 .. Len(file) - 1 PROVE g[i] = file[i]
    <3>1. i \in 1 .. Len(head)
      BY <2>2, <2>7
    <3> QED
      BY <2>7, <2>8, <3>1
  <2>10. ASSUME NEW j \in 1 .. Len(records)
         PROVE  g[Len(file) - 1 + j] = IF j = 1 THEN Line(Broken, TRUE) ELSE Line(records[j], TRUE)
    <3>1. CASE j = 1
      <4>1. Len(file) - 1 + j = Len(file) /\ Len(file) \in 1 .. Len(head)
        BY <2>2, <2>7, <3>1
      <4> QED
        BY <2>7, <2>8, <3>1, <4>1
    <3>2. CASE j # 1
      <4>1. /\ Len(file) - 1 + j = Len(head) + (j - 1) /\ j \in 2 .. Len(records)
            /\ j - 1 \in 1 .. Len(Tail(new))
        BY <1>1, <2>2, <2>4, <2>7, <3>2
      <4>2. g[Len(head) + (j - 1)] = Tail(new)[j - 1]
        BY <2>8, <4>1
      <4> QED
        BY <1>1, <2>4, <3>2, <4>1, <4>2
    <3> QED
      BY <3>1, <3>2
  <2>11. Len(g) = Len(file) - 1 + Len(records) /\ Len(file) <= Len(g)
    <3>1. Len(g) = Len(file) + (Len(records) - 1)
      BY <2>4, <2>7, <2>8
    <3>2. Len(file) \in Nat /\ Len(records) \in Nat \ {0}
      BY <1>1, <1>2
    <3> QED
      BY ONLY <3>1, <3>2
  <2>12. AppendTo(file, records) = g
    BY <2>1 DEF g, head
  <2> QED
    BY <1>4, <2>2, <2>8, <2>9, <2>10, <2>11, <2>12
<1> QED
  BY <1>3, <1>4

(* What is appended is readable or lost, and nothing else changes: neither *)
(* a whole line nor the rule that only the last line may be open.          *)
Fresh(records, file) ==
  /\ \A i, j \in DOMAIN records : records[i] = records[j] /\ records[i] # Broken => i = j
  /\ \A i \in DOMAIN records : records[i] \notin Readable(file)

LEMMA AppendKeeps ==
  ASSUME NEW file \in File, Distinct(file),
         NEW records \in Seq(Text), records # <<>>, Fresh(records, file)
  PROVE  LET g == AppendTo(file, records)
         IN  /\ g \in File /\ g # <<>> /\ Clean(g) /\ Distinct(g)
             /\ Len(file) <= Len(g)
             /\ \A i \in 1 .. Shift(file) : g[i] = file[i]
             /\ Readable(g) \subseteq Readable(file) \cup ToSet(records)
             /\ ~Glued(file) => ToSet(records) \ {Broken} \subseteq Readable(g)
<1> DEFINE g == AppendTo(file, records)
           k == Shift(file)
<1>1. /\ g \in Seq(LineType) /\ Len(g) = k + Len(records)
      /\ k \in 0 .. Len(file) /\ Len(file) <= Len(g)
      /\ \A i \in 1 .. k : g[i] = file[i]
      /\ \A j \in 1 .. Len(records) :
           g[k + j] = IF Glued(file) /\ j = 1 THEN Line(Broken, TRUE) ELSE Line(records[j], TRUE)
  BY AppendLines
<1>2. /\ file \in Seq(LineType) /\ Len(file) \in Nat /\ DOMAIN file = 1 .. Len(file)
      /\ \A i \in 1 .. Len(file) : i < Len(file) => file[i].ended
  BY LenProperties DEF File
<1>3. /\ Len(records) \in Nat \ {0} /\ DOMAIN records = 1 .. Len(records)
  BY LenProperties, EmptySeq
<1>4. k = (IF Glued(file) THEN Len(file) - 1 ELSE Len(file)) /\ k \in Nat /\ k <= Len(file)
  BY <1>1, <1>2 DEF Shift
<1> HIDE DEF g, k
<1>5. DOMAIN g = 1 .. k + Len(records)
  BY <1>1, LenProperties
<1>6. ASSUME NEW i \in DOMAIN g
      PROVE  i \in 1 .. k \/ \E j \in 1 .. Len(records) : i = k + j
  <2>1. CASE i <= k
    BY <1>4, <1>5, <2>1
  <2>2. CASE i > k
    <3>1. i - k \in 1 .. Len(records) /\ i = k + (i - k)
      BY <1>3, <1>4, <1>5, <2>2
    <3> QED
      BY <3>1
  <2> QED
    BY <1>4, <1>5, <2>1, <2>2
<1>7. ASSUME NEW i \in 1 .. k PROVE i \in DOMAIN file /\ i \in DOMAIN g /\ g[i] = file[i] /\ file[i].ended
  <2>1. i \in DOMAIN file /\ i \in DOMAIN g
    <3>1. Len(file) \in Nat /\ Len(records) \in Nat /\ k \in Nat /\ k <= Len(file)
      BY <1>2, <1>3, <1>4
    <3>2. i \in 1 .. Len(file) /\ i \in 1 .. k + Len(records)
      BY ONLY <1>7, <3>1, Positions
    <3> QED
      BY <1>2, <1>5, <3>2
  <2>4. g[i] = file[i]
    BY <1>1
  <2>2. CASE i < Len(file)
    BY <1>2, <2>1, <2>2, <2>4
  <2>3. CASE i = Len(file)
    <3>1. ~Glued(file) /\ file # <<>>
      <4>1. k = Len(file) /\ Len(file) # 0
        <5>1. Len(file) \in Nat /\ k \in Nat /\ k <= Len(file)
          BY <1>2, <1>4
        <5> QED
          BY ONLY <1>7, <2>3, <5>1
      <4>2. file # <<>>
        BY <1>2, <4>1, EmptySeq
      <4>3. ~Glued(file)
        <5>1. Len(file) \in Nat /\ (Glued(file) => k = Len(file) - 1)
          BY <1>2, <1>4
        <5> QED
          BY ONLY <4>1, <5>1
      <4> QED
        BY <4>2, <4>3
    <3> QED
      BY <2>1, <2>3, <2>4, <3>1 DEF Glued, Last
  <2>5. i < Len(file) \/ i = Len(file)
    <3>1. Len(file) \in Nat /\ k \in Nat /\ k <= Len(file)
      BY <1>2, <1>4
    <3> QED
      BY ONLY <1>7, <3>1
  <2> QED
    BY <2>1, <2>2, <2>3, <2>4, <2>5
<1>8. ASSUME NEW j \in 1 .. Len(records)
      PROVE  /\ k + j \in DOMAIN g /\ g[k + j].ended
             /\ g[k + j].text = IF Glued(file) /\ j = 1 THEN Broken ELSE records[j]
  <2>1. k + j \in DOMAIN g
    BY <1>3, <1>4, <1>5
  <2>2. g[k + j] = IF Glued(file) /\ j = 1 THEN Line(Broken, TRUE) ELSE Line(records[j], TRUE)
    BY <1>1
  <2> QED
    BY <2>1, <2>2 DEF Line
<1>9. Clean(g)
  BY <1>6, <1>7, <1>8 DEF Clean
<1>10. g \in File /\ g # <<>>
  <2>1. Len(g) # 0
    BY <1>1, <1>3, <1>4
  <2> QED
    BY <1>1, <1>9, <2>1, EmptySeq DEF File, Clean
<1>11. ASSUME NEW i \in DOMAIN g, NEW j \in DOMAIN g, g[i].text = g[j].text, g[i].text # Broken
       PROVE  i = j
  <2>1. ASSUME NEW m \in 1 .. k, NEW n \in 1 .. Len(records), g[m].text # Broken
        PROVE  g[m].text # g[k + n].text
    <3>1. g[m].text \in Readable(file)
      BY <1>7, <2>1 DEF Readable
    <3> QED
      BY <1>3, <1>8, <2>1, <3>1 DEF Fresh
  <2>2. CASE i \in 1 .. k /\ j \in 1 .. k
    BY <1>7, <1>11, <2>2 DEF Distinct
  <2>3. CASE \E m, n \in 1 .. Len(records) : i = k + m /\ j = k + n
    <3> PICK m \in 1 .. Len(records), n \in 1 .. Len(records) : i = k + m /\ j = k + n
      BY <2>3
    <3>1. records[m] = records[n] /\ records[m] # Broken
      BY <1>8, <1>11
    <3> QED
      BY <1>3, <3>1 DEF Fresh
  <2> QED
    BY <1>6, <1>11, <2>1, <2>2, <2>3
<1>12. Readable(g) \subseteq Readable(file) \cup ToSet(records)
  <2> SUFFICES ASSUME NEW i \in DOMAIN g, g[i].text # Broken
               PROVE  g[i].text \in Readable(file) \cup ToSet(records)
    BY DEF Readable
  <2>1. CASE i \in 1 .. k
    BY <1>7, <2>1 DEF Readable
  <2>2. CASE \E j \in 1 .. Len(records) : i = k + j
    BY <1>3, <1>8, <2>2 DEF ToSet
  <2> QED
    BY <1>6, <2>1, <2>2
<1>13. ASSUME ~Glued(file) PROVE ToSet(records) \ {Broken} \subseteq Readable(g)
  BY <1>3, <1>8, <1>13 DEF ToSet, Readable
<1> QED
  BY <1>1, <1>9, <1>10, <1>11, <1>12, <1>13 DEF g, k, Distinct

LEMMA TornEndKeeps ==
  ASSUME NEW file \in File, file # <<>>, Distinct(file)
  PROVE  LET g == TornEnd(file)
         IN  /\ g \in File /\ Distinct(g) /\ Len(g) = Len(file)
             /\ Readable(g) = Readable(file)
<1> DEFINE start == SubSeq(file, 1, Len(file) - 1)
           open == [Last(file) EXCEPT !.ended = FALSE]
           g == TornEnd(file)
<1>1. /\ file \in Seq(LineType) /\ Len(file) \in Nat \ {0} /\ DOMAIN file = 1 .. Len(file)
      /\ Last(file) = file[Len(file)] /\ Last(file) \in LineType
  BY LenProperties, EmptySeq DEF File, Last
<1>2. /\ start \in Seq(LineType) /\ Len(start) = Len(file) - 1
      /\ \A i \in 1 .. Len(file) - 1 : start[i] = file[i]
  <2>1. Len(file) - 1 \in 0 .. Len(file)
    BY <1>1
  <2> QED
    BY <1>1, <2>1, PrefixElements
<1>3. open \in LineType /\ open.text = Last(file).text
  BY <1>1 DEF LineType
<1>4. g = start \o <<open>>
  BY DEF TornEnd, Front
<1> HIDE DEF start, open, g
<1>5. <<open>> \in Seq(LineType) /\ Len(<<open>>) = 1 /\ <<open>>[1] = open
  BY <1>3
<1>6. /\ g \in Seq(LineType) /\ Len(g) = Len(start) + Len(<<open>>)
      /\ \A i \in 1 .. Len(start) : g[i] = start[i]
      /\ \A j \in 1 .. Len(<<open>>) : g[Len(start) + j] = <<open>>[j]
  <2>1. start \in Seq(LineType)
    BY <1>2
  <2>2. /\ start \o <<open>> \in Seq(LineType) /\ Len(start \o <<open>>) = Len(start) + Len(<<open>>)
        /\ \A i \in 1 .. Len(start) : (start \o <<open>>)[i] = start[i]
        /\ \A j \in 1 .. Len(<<open>>) : (start \o <<open>>)[Len(start) + j] = <<open>>[j]
    BY ONLY <2>1, <1>5, ConcatElements
  <2> QED
    BY <1>4, <2>2
<1>7. Len(g) = Len(file) /\ DOMAIN g = 1 .. Len(file)
  BY <1>1, <1>2, <1>5, <1>6, LenProperties
<1>8. ASSUME NEW i \in 1 .. Len(file)
      PROVE  g[i].text = file[i].text /\ (i < Len(file) => g[i] = file[i])
  <2>1. CASE i < Len(file)
    <3>1. i \in 1 .. Len(file) - 1 /\ i \in 1 .. Len(start)
      BY <1>1, <1>2, <2>1
    <3>2. g[i] = start[i] /\ start[i] = file[i]
      BY <1>2, <1>6, <3>1
    <3> QED
      BY <3>2
  <2>2. CASE i = Len(file)
    <3>1. i = Len(start) + 1 /\ 1 \in 1 .. Len(<<open>>)
      BY <1>1, <1>2, <1>5, <2>2
    <3>2. g[Len(start) + 1] = open
      BY <1>5, <1>6, <3>1
    <3>3. g[i] = open /\ ~(i < Len(file))
      BY <1>1, <2>2, <3>1, <3>2
    <3> QED
      BY <1>1, <1>3, <2>2, <3>3
  <2>3. i < Len(file) \/ i = Len(file)
    <3>1. Len(file) \in Nat
      BY <1>1
    <3> QED
      BY ONLY <1>8, <3>1
  <2> QED
    BY <2>1, <2>2, <2>3
<1>9. g \in File
  BY <1>6, <1>7, <1>8 DEF File
<1>10. Distinct(g)
  BY <1>1, <1>7, <1>8 DEF Distinct
<1>11. Readable(g) = Readable(file)
  BY <1>1, <1>7, <1>8 DEF Readable
<1> QED
  BY <1>7, <1>9, <1>10, <1>11 DEF g

(* A batch of new policies, and what a kill inside its append may leave.   *)
NewBatch(records, file) ==
  /\ records \in Seq(Policy) /\ records # <<>> /\ NoRepeats(records)
  /\ \A i \in DOMAIN records : records[i] \notin Readable(file)

LEMMA NewBatchIsFresh ==
  ASSUME NEW file, NEW records, NewBatch(records, file)
  PROVE  records \in Seq(Text) /\ records # <<>> /\ Fresh(records, file)
<1>1. records \in Seq(Text)
  BY SeqMonotonic DEF NewBatch, Text
<1> QED
  BY <1>1 DEF NewBatch, Fresh, NoRepeats

LEMMA PrefixIsNewBatch ==
  ASSUME NEW file, NEW records, NewBatch(records, file), NEW n \in 1 .. Len(records)
  PROVE  /\ NewBatch(SubSeq(records, 1, n), file)
         /\ ToSet(SubSeq(records, 1, n)) = {records[i] : i \in 1 .. n}
<1> DEFINE start == SubSeq(records, 1, n)
<1>1. records \in Seq(Policy) /\ Len(records) \in Nat /\ DOMAIN records = 1 .. Len(records)
  BY LenProperties DEF NewBatch
<1>2. n \in 0 .. Len(records) /\ n # 0
  BY <1>1
<1>3. start \in Seq(Policy) /\ Len(start) = n /\ \A i \in 1 .. n : start[i] = records[i]
  BY <1>1, <1>2, PrefixElements
<1> HIDE DEF start
<1>4. DOMAIN start = 1 .. n /\ start # <<>>
  BY <1>2, <1>3, LenProperties, EmptySeq
<1>5. \A i \in 1 .. n : i \in DOMAIN records
  BY <1>1
<1>6. NewBatch(start, file)
  BY <1>3, <1>4, <1>5 DEF NewBatch, NoRepeats
<1>7. ToSet(start) = {records[i] : i \in 1 .. n}
  BY <1>3, <1>4 DEF ToSet
<1> QED
  BY <1>6, <1>7 DEF start

(* After k whole records: the file, what it holds, what it still takes.    *)
LEMMA WholeRecords ==
  ASSUME NEW file \in File, Distinct(file),
         NEW records, NewBatch(records, file), NEW k \in 0 .. Len(records),
         NEW f, f = IF k = 0 THEN file ELSE AppendTo(file, SubSeq(records, 1, k))
  PROVE  /\ f \in File /\ Distinct(f) /\ Len(file) <= Len(f)
         /\ Readable(f) \subseteq Readable(file) \cup {records[i] : i \in 1 .. k}
         /\ Clean(file) => Clean(f) /\ \A i \in 1 .. Len(file) : f[i] = file[i]
<1>1. Len(file) \in Nat
  BY LenProperties DEF File
<1>2. CASE k = 0
  BY <1>1, <1>2
<1>3. CASE k # 0
  <2> DEFINE start == SubSeq(records, 1, k)
  <2>1. k \in 1 .. Len(records)
    BY <1>3
  <2>2. NewBatch(start, file) /\ ToSet(start) = {records[i] : i \in 1 .. k}
    BY <2>1, PrefixIsNewBatch
  <2>3. f = AppendTo(file, start)
    BY <1>3
  <2> HIDE DEF start
  <2>4. start \in Seq(Text) /\ start # <<>> /\ Fresh(start, file)
    BY <2>2, NewBatchIsFresh
  <2>5. /\ f \in File /\ Clean(f) /\ Distinct(f) /\ Len(file) <= Len(f)
        /\ \A i \in 1 .. Shift(file) : f[i] = file[i]
        /\ Readable(f) \subseteq Readable(file) \cup ToSet(start)
    BY <2>3, <2>4, AppendKeeps
  <2>6. ASSUME Clean(file) PROVE Shift(file) = Len(file)
    <3>1. file = <<>> \/ Len(file) \in DOMAIN file
      BY LenProperties, EmptySeq DEF File
    <3> QED
      BY <2>6, <3>1 DEF Clean, Glued, Shift, Last
  <2> QED
    BY <2>2, <2>5, <2>6
<1> QED
  BY <1>2, <1>3

LEMMA PartialKeeps ==
  ASSUME NEW file \in File, Distinct(file),
         NEW records, NewBatch(records, file), NEW f \in PartialAppends(file, records)
  PROVE  /\ f \in File /\ Distinct(f) /\ Len(file) <= Len(f)
         /\ ~TornWrites /\ Clean(file) =>
              Clean(f) /\ \A i \in 1 .. Len(file) : f[i] = file[i]
<1> DEFINE after(k) == IF k = 0 THEN file ELSE AppendTo(file, SubSeq(records, 1, k))
<1>1. records \in Seq(Policy) /\ Len(records) \in Nat /\ DOMAIN records = 1 .. Len(records)
  BY LenProperties DEF NewBatch
<1>2. CASE \E k \in 0 .. Len(records) : f = after(k)
  BY <1>2, WholeRecords
<1>3. CASE /\ TornWrites
           /\ \E k \in 0 .. Len(records) - 1 : \E text \in {Broken, records[k + 1]} :
                f = TornEnd(AppendTo(after(k), <<text>>))
  <2> PICK k \in 0 .. Len(records) - 1 :
         \E text \in {Broken, records[k + 1]} : f = TornEnd(AppendTo(after(k), <<text>>))
    BY <1>3
  <2> PICK text \in {Broken, records[k + 1]} : f = TornEnd(AppendTo(after(k), <<text>>))
    OBVIOUS
  <2> DEFINE g == after(k)
             h == AppendTo(g, <<text>>)
  <2>1. k \in 0 .. Len(records) /\ k + 1 \in DOMAIN records /\ k + 1 \notin 1 .. k
        /\ \A i \in 1 .. k : i \in DOMAIN records
    BY <1>1
  <2>2. /\ g \in File /\ Distinct(g) /\ Len(file) <= Len(g)
        /\ Readable(g) \subseteq Readable(file) \cup {records[i] : i \in 1 .. k}
    BY <2>1, WholeRecords
  <2> HIDE DEF g
  <2>3. text \in Text /\ text \notin Readable(g)
    <3>1. Broken \notin Readable(g)
      BY DEF Readable
    <3>2. records[k + 1] \in Policy /\ records[k + 1] \notin Readable(file)
      BY <1>1, <2>1, ElementOfSeq DEF NewBatch
    <3>3. \A i \in 1 .. k : records[i] # records[k + 1]
      BY <2>1 DEF NewBatch, NoRepeats
    <3> QED
      BY <2>2, <3>1, <3>2, <3>3 DEF Text
  <2>4. <<text>> \in Seq(Text) /\ <<text>> # <<>> /\ Fresh(<<text>>, g)
    BY <2>3 DEF Fresh
  <2>5. h \in File /\ h # <<>> /\ Distinct(h) /\ Len(g) <= Len(h)
    BY <2>2, <2>4, AppendKeeps
  <2>6. f = TornEnd(h)
    BY DEF g
  <2> HIDE DEF h
  <2>7. f \in File /\ Distinct(f) /\ Len(f) = Len(h)
    BY <2>5, <2>6, TornEndKeeps
  <2>8. Len(file) \in Nat /\ Len(g) \in Nat /\ Len(h) \in Nat
    BY <2>2, <2>5, LenProperties DEF File
  <2>9. Len(file) <= Len(f)
    BY ONLY <2>2, <2>5, <2>7, <2>8
  <2> QED
    BY <1>3, <2>7, <2>9
<1> QED
  BY <1>2, <1>3 DEF PartialAppends

(* A power loss keeps a prefix.                                            *)
LEMMA CutKeeps ==
  ASSUME NEW file \in File, Distinct(file), NEW n \in 0 .. Len(file)
  PROVE  LET f == SubSeq(file, 1, n)
         IN  /\ f \in File /\ Distinct(f) /\ Len(f) = n /\ (Clean(file) => Clean(f))
             /\ \A i \in 1 .. n : f[i] = file[i]
<1> DEFINE f == SubSeq(file, 1, n)
<1>1. file \in Seq(LineType) /\ Len(file) \in Nat /\ DOMAIN file = 1 .. Len(file)
  BY LenProperties DEF File
<1>2. f \in Seq(LineType) /\ Len(f) = n /\ \A i \in 1 .. n : f[i] = file[i]
  BY <1>1, PrefixElements
<1> HIDE DEF f
<1>3. DOMAIN f = 1 .. n /\ \A i \in 1 .. n : i \in DOMAIN file
  BY <1>1, <1>2, LenProperties
<1>4. \A i \in 1 .. n : i < n => i < Len(file)
  BY <1>1
<1>5. f \in File
  BY <1>2, <1>3, <1>4 DEF File
<1> QED
  BY <1>2, <1>3, <1>5 DEF f, Distinct, Clean

-----------------------------------------------------------------------------
(* The invariants.  FileInv: what is readable is what the dispatcher takes *)
(* for recorded, and nothing is there before the manifest; the appends     *)
(* since the last sync are counted.  CleanInv: the converse, and what the  *)
(* summary counts is synced.                                               *)
FileInv ==
  /\ lines \in File /\ Distinct(lines)
  /\ durable \in 0 .. Len(lines)
  /\ DOMAIN writer = {"open", "count", "best", "unsynced"} /\ writer.open \in BOOLEAN
  /\ credited \subseteq Policy
  /\ writer.open => Readable(lines) \subseteq credited /\ manifest # None
  /\ manifest = None => lines = <<>> /\ credited = {}
  /\ chunks \in Seq(Nat) /\ (~writer.open => chunks = <<>>)
  /\ writer.open => Len(chunks) = writer.unsynced /\ writer.unsynced < CORPUS_FSYNC_EVERY_BATCHES

CleanInv ==
  /\ Clean(lines)
  /\ writer.open => credited \subseteq Readable(lines)
  /\ summary.evaluated \subseteq Synced

LEMMA InitInvs == Init => FileInv /\ CleanInv
<1> SUFFICES ASSUME Init PROVE FileInv /\ CleanInv
  OBVIOUS
<1>1. <<>> \in File /\ Distinct(<<>>) /\ Clean(<<>>) /\ Len(<<>>) = 0 /\ <<>> \in Seq(Nat)
  BY EmptySeq DEF File, Distinct, Clean
<1> QED
  BY <1>1 DEF Init, FileInv, CleanInv, NotOpen, NoSummary

LEMMA BatchesAreNew ==
  ASSUME FileInv, writer.open, NEW records \in Batches
  PROVE  NewBatch(records, lines) /\ ToSet(records) \subseteq Policy /\ Len(records) \in Nat
<1>1. records \in SeqOf(Remaining, MaxBatch)
      /\ records # <<>> /\ \A i, j \in DOMAIN records : records[i] = records[j] => i = j
  BY DEF Batches
<1>2. PICK m \in 0 .. MaxBatch : records \in [1 .. m -> Remaining]
  BY <1>1 DEF SeqOf
<1>3. records \in Seq(Remaining)
  <2>1. m \in Nat
    BY CorpusAssumption
  <2> QED
    BY <1>2, <2>1, SeqDef
<1>4. Remaining \subseteq Policy /\ Remaining \cap Readable(lines) = {}
  BY DEF Remaining, FileInv
<1>5. \A i \in DOMAIN records : records[i] \in Remaining
  BY <1>2
<1>6. records \in Seq(Policy)
  BY <1>3, <1>4, SeqMonotonic
<1> QED
  BY <1>1, <1>4, <1>5, <1>6, LenProperties DEF NewBatch, NoRepeats, ToSet

LEMMA StopKeepsFileInv ==
  ASSUME FileInv, NEW file, NEW safe, Stop(file, safe),
         file \in File, Distinct(file), safe \in 0 .. Len(file),
         manifest' # None
  PROVE  FileInv'
<1>1. <<>> \in Seq(Nat)
  BY EmptySeq
<1>2. writer' = NotOpen /\ lines' = file /\ durable' = safe /\ credited' = {} /\ chunks' = <<>>
  BY DEF Stop
<1> QED
  BY <1>1, <1>2 DEF FileInv, NotOpen

LEMMA NextFileInv == FileInv /\ [Next]_corpusVars => FileInv'
<1> SUFFICES ASSUME FileInv, [Next]_corpusVars PROVE FileInv'
  OBVIOUS
<1>1. CORPUS_FSYNC_EVERY_BATCHES \in Nat \ {0} /\ Len(lines) \in Nat
  BY CorpusAssumption, LenProperties DEF FileInv, File
<1>2. CASE OpenFresh
  <2>1. /\ writer' = [NotOpen EXCEPT !.open = TRUE] /\ manifest' = "whole" /\ lines = <<>>
        /\ chunks = <<>> /\ UNCHANGED <<lines, durable, credited, chunks>>
    BY <1>2 DEF OpenFresh, FileInv
  <2>2. /\ DOMAIN writer' = {"open", "count", "best", "unsynced"}
        /\ writer'.open = TRUE /\ writer'.unsynced = 0
    BY <2>1 DEF NotOpen
  <2>3. Readable(<<>>) = {} /\ Len(<<>>) = 0 /\ "whole" # None
    BY EmptySeq DEF Readable, None
  <2> QED
    BY <1>1, <2>1, <2>2, <2>3 DEF FileInv
<1>3. CASE Resume
  <2>1. /\ writer'.open = TRUE /\ writer'.unsynced = 0 /\ chunks = <<>>
        /\ DOMAIN writer' = {"open", "count", "best", "unsynced"}
        /\ credited' = Readable(lines) /\ manifest # None
        /\ UNCHANGED <<manifest, lines, durable, chunks>>
    BY <1>3 DEF Resume, IsResumable, FileInv, None
  <2>2. Readable(lines) \subseteq Policy
    <3> SUFFICES ASSUME NEW i \in DOMAIN lines PROVE lines[i].text \in Policy \cup {Broken}
      BY DEF Readable
    <3>1. lines \in Seq(LineType)
      BY DEF FileInv, File
    <3>2. lines[i] \in LineType
      BY <3>1, LenProperties, ElementOfSeq
    <3> QED
      BY <3>2 DEF LineType, Text
  <2>3. Len(<<>>) = 0 /\ 0 < CORPUS_FSYNC_EVERY_BATCHES /\ <<>> \in Seq(Nat)
    BY <1>1, EmptySeq
  <2>4. Readable(lines)' = Readable(lines)
    BY <2>1 DEF Readable
  <2> QED
    BY <2>1, <2>2, <2>3, <2>4 DEF FileInv
<1>4. ASSUME NEW records \in Batches, NEW elapsed \in BOOLEAN, AppendEvaluations(records, elapsed)
      PROVE  FileInv'
  <2> DEFINE file == AppendTo(lines, records)
             syncs == elapsed \/ writer.unsynced + 1 >= CORPUS_FSYNC_EVERY_BATCHES
  <2>1. writer.open /\ lines' = file /\ credited' = credited \cup ToSet(records)
        /\ manifest' = manifest
        /\ durable' = (IF syncs THEN Len(file) ELSE durable)
        /\ chunks' = (IF syncs THEN <<>> ELSE Append(chunks, Len(records)))
    BY <1>4 DEF AppendEvaluations
  <2>2. /\ DOMAIN writer' = {"open", "count", "best", "unsynced"} /\ writer'.open = writer.open
        /\ writer'.unsynced = IF syncs THEN 0 ELSE writer.unsynced + 1
    BY <1>4, Zenon DEF AppendEvaluations, FileInv
  <2>3. NewBatch(records, lines) /\ ToSet(records) \subseteq Policy /\ Len(records) \in Nat
    BY <2>1, BatchesAreNew
  <2>4. records \in Seq(Text) /\ records # <<>> /\ Fresh(records, lines)
    BY <2>3, NewBatchIsFresh
  <2>5. /\ file \in File /\ Distinct(file) /\ Len(lines) <= Len(file)
        /\ Readable(file) \subseteq Readable(lines) \cup ToSet(records)
    BY <2>4, AppendKeeps DEF FileInv
  <2>6. Len(file) \in Nat
    BY <2>5, LenProperties DEF File
  <2> HIDE DEF file, syncs
  <2>7. durable' \in 0 .. Len(file)
    BY <1>1, <2>1, <2>5, <2>6 DEF FileInv
  <2>8. chunks' \in Seq(Nat) /\ Len(chunks') = writer'.unsynced
    BY <2>1, <2>2, <2>3, EmptySeq, AppendProperties DEF FileInv
  <2>9. writer'.unsynced < CORPUS_FSYNC_EVERY_BATCHES
    <3>1. Len(chunks) \in Nat /\ writer.unsynced = Len(chunks)
      BY <2>1, LenProperties DEF FileInv
    <3> QED
      BY <1>1, <2>2, <3>1 DEF syncs
  <2> QED
    BY <2>1, <2>2, <2>3, <2>5, <2>7, <2>8, <2>9 DEF FileInv
<1>5. ASSUME NEW state, Close(state) PROVE FileInv'
  <2>1. /\ writer' = NotOpen /\ chunks' = <<>> /\ durable' = Len(lines)
        /\ UNCHANGED <<manifest, lines, credited>>
    BY <1>5 DEF Close
  <2> QED
    BY <1>1, <2>1, EmptySeq DEF FileInv, NotOpen
<1>6. CASE KillInOpen
  BY <1>6, StopKeepsFileInv DEF KillInOpen, FileInv, None
<1>7. CASE Kill
  BY <1>7, StopKeepsFileInv DEF Kill, FileInv
<1>8. CASE KillInClose
  <2>1. Len(lines) \in 0 .. Len(lines)
    BY <1>1
  <2> QED
    BY <1>8, <2>1, StopKeepsFileInv DEF KillInClose, FileInv
<1>9. ASSUME NEW records \in Batches, KillInAppend(records) PROVE FileInv'
  <2>1. writer.open /\ NewBatch(records, lines)
    BY <1>9, BatchesAreNew DEF KillInAppend
  <2>2. PICK file \in PartialAppends(lines, records) : Stop(file, durable)
    BY <1>9 DEF KillInAppend
  <2>3. file \in File /\ Distinct(file) /\ Len(lines) <= Len(file)
    BY <2>1, PartialKeeps DEF FileInv
  <2>4. durable \in 0 .. Len(file)
    BY <1>1, <2>3, LenProperties DEF FileInv, File
  <2> QED
    BY <1>9, <2>1, <2>2, <2>3, <2>4, StopKeepsFileInv DEF KillInAppend, FileInv
<1>10. CASE LosePower
  <2>1. PICK n \in durable .. Len(lines) : Stop(SubSeq(lines, 1, n), n)
    BY <1>10 DEF LosePower
  <2>2. n \in 0 .. Len(lines) /\ n \in 0 .. n
    BY <1>1 DEF FileInv
  <2>3. /\ SubSeq(lines, 1, n) \in File /\ Distinct(SubSeq(lines, 1, n))
        /\ Len(SubSeq(lines, 1, n)) = n
    BY <2>2, CutKeeps DEF FileInv
  <2>4. manifest' # None
    BY <1>10 DEF LosePower, None
  <2> QED
    BY <2>1, <2>2, <2>3, <2>4, StopKeepsFileInv
<1>11. CASE UNCHANGED corpusVars
  BY <1>11 DEF corpusVars, FileInv
<1> QED
  BY <1>2, <1>3, <1>4, <1>5, <1>6, <1>7, <1>8, <1>9, <1>10, <1>11 DEF Next

LEMMA NextCleanInv ==
  ASSUME ~TornWrites, FileInv, CleanInv, [Next]_corpusVars
  PROVE  CleanInv' /\ Synced \subseteq Synced'
<1>1. lines \in File /\ Distinct(lines) /\ Len(lines) \in Nat /\ DOMAIN lines = 1 .. Len(lines)
  BY LenProperties DEF FileInv, File
<1>2. durable \in 0 .. Len(lines)
  BY DEF FileInv
(* Lines that are kept, with more of them synced. *)
<1>3. ASSUME NEW n \in Nat, n <= Len(lines), n >= durable,
             \A i \in 1 .. n : lines'[i] = lines[i], durable' \in Nat, durable <= durable'
      PROVE  Synced \subseteq Synced'
  <2>1. \A i \in 1 .. durable : i \in 1 .. durable' /\ lines'[i] = lines[i]
    BY <1>1, <1>2, <1>3
  <2> QED
    BY <2>1 DEF Synced
<1>4. ASSUME UNCHANGED <<lines, durable>> PROVE Synced' = Synced
  BY <1>4 DEF Synced
<1>5. Readable(lines) = {lines[i].text : i \in 1 .. Len(lines)} \ {Broken}
  BY <1>1 DEF Readable
<1>6. CASE OpenFresh
  <2>1. credited = {}
    BY <1>6 DEF OpenFresh, FileInv
  <2> QED
    BY <1>4, <1>6, <2>1 DEF OpenFresh, CleanInv, Clean
<1>7. CASE Resume
  BY <1>4, <1>7 DEF Resume, CleanInv, Clean, Readable
<1>8. ASSUME NEW records \in Batches, NEW elapsed \in BOOLEAN, AppendEvaluations(records, elapsed)
      PROVE  CleanInv' /\ Synced \subseteq Synced'
  <2> DEFINE file == AppendTo(lines, records)
  <2>1. /\ writer.open /\ lines' = file /\ credited' = credited \cup ToSet(records)
        /\ durable' \in {durable, Len(file)} /\ summary' = summary
    BY <1>8 DEF AppendEvaluations
  <2>2. NewBatch(records, lines) /\ ToSet(records) \subseteq Policy
    BY <2>1, BatchesAreNew
  <2>3. records \in Seq(Text) /\ records # <<>> /\ Fresh(records, lines)
    BY <2>2, NewBatchIsFresh
  <2>4. ~Glued(lines) /\ Shift(lines) = Len(lines)
    <3>1. lines = <<>> \/ Len(lines) \in DOMAIN lines
      BY <1>1, EmptySeq DEF File
    <3> QED
      BY <3>1 DEF CleanInv, Clean, Glued, Shift, Last
  <2>5. /\ file \in File /\ Clean(file) /\ Len(lines) <= Len(file)
        /\ \A i \in 1 .. Len(lines) : file[i] = lines[i]
        /\ ToSet(records) \ {Broken} \subseteq Readable(file)
    BY <1>1, <2>3, <2>4, AppendKeeps
  <2>6. Len(file) \in Nat /\ DOMAIN file = 1 .. Len(file)
    BY <2>5, LenProperties DEF File
  <2> HIDE DEF file
  <2>7. durable' \in Nat /\ durable <= durable'
    BY <1>1, <1>2, <2>1, <2>5, <2>6
  <2>8. Synced \subseteq Synced'
    BY <1>1, <1>2, <1>3, <2>1, <2>5, <2>7
  <2>9. Readable(lines) \subseteq Readable(file)
    <3>1. \A i \in DOMAIN lines : i \in DOMAIN file /\ file[i] = lines[i]
      BY <1>1, <2>5, <2>6
    <3> QED
      BY <3>1 DEF Readable
  <2>10. credited' \subseteq Readable(file)
    BY <2>1, <2>2, <2>5, <2>9, CorpusAssumption DEF CleanInv
  <2> QED
    BY <2>1, <2>5, <2>8, <2>10 DEF CleanInv
<1>9. ASSUME NEW state, Close(state) PROVE CleanInv' /\ Synced \subseteq Synced'
  <2>1. /\ durable' = Len(lines) /\ lines' = lines /\ writer' = NotOpen
        /\ summary'.evaluated = credited /\ credited \subseteq Readable(lines)
    BY <1>9 DEF Close, CleanInv
  <2>2. Synced \subseteq Synced'
    BY <1>1, <1>2, <1>3, <2>1
  <2>3. Synced' = Readable(lines)
    BY <1>5, <2>1 DEF Synced
  <2> QED
    BY <2>1, <2>2, <2>3 DEF CleanInv, NotOpen, Clean
<1>10. CASE KillInOpen \/ Kill
  <2>1. UNCHANGED <<lines, durable, summary>> /\ writer' = NotOpen
    BY <1>10 DEF KillInOpen, Kill, Stop
  <2> QED
    BY <1>4, <2>1 DEF CleanInv, NotOpen, Clean
<1>11. CASE KillInClose
  <2>1. durable' = Len(lines) /\ lines' = lines /\ writer' = NotOpen /\ summary'.evaluated = {}
    BY <1>11 DEF KillInClose, Stop, NoSummary
  <2>2. Synced \subseteq Synced'
    BY <1>1, <1>2, <1>3, <2>1
  <2> QED
    BY <2>1, <2>2 DEF CleanInv, NotOpen, Clean
<1>12. ASSUME NEW records \in Batches, KillInAppend(records)
       PROVE  CleanInv' /\ Synced \subseteq Synced'
  <2>1. writer.open /\ NewBatch(records, lines) /\ summary' = summary
    BY <1>12, BatchesAreNew DEF KillInAppend
  <2>2. PICK file \in PartialAppends(lines, records) : Stop(file, durable)
    BY <1>12 DEF KillInAppend
  <2>3. lines' = file /\ durable' = durable /\ writer' = NotOpen
    BY <2>2 DEF Stop
  <2>4. Clean(file) /\ \A i \in 1 .. Len(lines) : file[i] = lines[i]
    BY <1>1, <2>1, PartialKeeps DEF CleanInv
  <2>5. Synced \subseteq Synced'
    BY <1>1, <1>2, <1>3, <2>3, <2>4
  <2> QED
    BY <2>1, <2>3, <2>4, <2>5 DEF CleanInv, NotOpen
<1>13. CASE LosePower
  <2>1. PICK n \in durable .. Len(lines) : Stop(SubSeq(lines, 1, n), n)
    BY <1>13 DEF LosePower
  <2>2. n \in 0 .. Len(lines) /\ n >= durable /\ n \in Nat
    BY <1>1, <1>2
  <2>3. lines' = SubSeq(lines, 1, n) /\ durable' = n /\ writer' = NotOpen
    BY <2>1 DEF Stop
  <2>4. Clean(lines') /\ \A i \in 1 .. n : lines'[i] = lines[i]
    BY <1>1, <2>2, <2>3, CutKeeps DEF CleanInv
  <2>5. Synced \subseteq Synced'
    BY <1>1, <1>2, <1>3, <2>2, <2>3, <2>4
  <2>6. summary'.evaluated \subseteq summary.evaluated
    BY <1>13 DEF LosePower, NoSummary
  <2> QED
    BY <2>3, <2>4, <2>5, <2>6 DEF CleanInv, NotOpen
<1>14. CASE UNCHANGED corpusVars
  BY <1>4, <1>14 DEF corpusVars, CleanInv, Clean, Readable
<1> QED
  BY <1>6, <1>7, <1>8, <1>9, <1>10, <1>11, <1>12, <1>13, <1>14 DEF Next
-----------------------------------------------------------------------------
(* No policy is recorded twice, whatever a kill or a power loss leaves:    *)
(* a resume skips every record that is there (findResumableSessions).      *)
THEOREM RecordedOnce == Spec => []NoDuplicates
<1>1. Init => FileInv
  BY InitInvs
<1>2. FileInv => NoDuplicates
  BY DEF FileInv, Distinct, NoDuplicates
<1> QED
  BY <1>1, <1>2, NextFileInv, PTL DEF Spec

(* The two invariants together, as long as no kill tears a record.         *)
LEMMA CleanRun == ASSUME ~TornWrites PROVE Spec => [](FileInv /\ CleanInv)
<1>1. FileInv /\ CleanInv /\ [Next]_corpusVars => (FileInv /\ CleanInv)'
  BY NextFileInv, NextCleanInv
<1> QED
  BY <1>1, InitInvs, PTL DEF Spec

(* Kills between records and power losses never leave a policy the         *)
(* dispatcher skips without its record.                                    *)
THEOREM CreditedPoliciesAreReadable ==
  ASSUME ~TornWrites PROVE Spec => []CreditedIsReadable
<1>1. FileInv /\ CleanInv => CreditedIsReadable
  BY DEF CleanInv, CreditedIsReadable
<1> QED
  BY <1>1, CleanRun, PTL

(* A summary that exists is backed by synced records.                      *)
THEOREM SummaryCountsRecords ==
  ASSUME ~TornWrites PROVE Spec => []SummaryIsBacked
<1>1. FileInv /\ CleanInv => SummaryIsBacked
  <2> SUFFICES ASSUME FileInv, CleanInv PROVE SummaryIsBacked
    OBVIOUS
  <2>1. Len(lines) \in Nat /\ DOMAIN lines = 1 .. Len(lines)
    BY LenProperties DEF FileInv, File
  <2>2. \A i \in 1 .. durable : i \in DOMAIN lines
    BY <2>1 DEF FileInv
  <2>3. Synced \subseteq Readable(lines)
    BY <2>2 DEF Synced, Readable
  <2> QED
    BY <2>3 DEF CleanInv, SummaryIsBacked
<1> QED
  BY <1>1, CleanRun, PTL

(* Fewer appends are unsynced than the sync interval, and what was synced  *)
(* is not lost again.                                                      *)
THEOREM SyncedRecordsStay ==
  ASSUME ~TornWrites PROVE Spec => LossIsBounded
<1>1. FileInv => (writer.open => Len(chunks) < CORPUS_FSYNC_EVERY_BATCHES)
  BY DEF FileInv
<1>2. FileInv /\ CleanInv /\ [Next]_corpusVars => [Synced \subseteq Synced']_corpusVars
  BY NextCleanInv
<1> QED
  BY <1>1, <1>2, CleanRun, PTL DEF Spec, LossIsBounded
-----------------------------------------------------------------------------
(* The running best.  IsBest: b is a best feasible one of the policies in  *)
(* R, None when R has none; taking one more record into account keeps it.  *)
IsBest(b, R) ==
  /\ b \in Policy \cup {None}
  /\ b = None => R \cap Feasible = {}
  /\ b # None => b \in R \cap Feasible /\ \A p \in R : ~IsBetterFeasible(p, b)

LEMMA BetterIsBest ==
  ASSUME NEW R \in SUBSET Policy, NEW b, IsBest(b, R), NEW p \in Policy
  PROVE  IsBest(Better(b, p), R \cup {p})
<1>1. /\ Feasible \subseteq Policy /\ None \notin Policy
      /\ \A q \in Policy : Spend[q] \in Nat /\ Wealth[q] \in Nat
  BY CorpusAssumption
<1>2. CASE p \notin Feasible
  BY <1>1, <1>2 DEF Better, IsBest, IsBetterFeasible
<1>3. CASE p \in Feasible /\ b = None
  <2>1. Better(b, p) = p /\ R \cap Feasible = {}
    BY <1>3 DEF Better, IsBest
  <2>2. \A q \in R \cup {p} : ~IsBetterFeasible(q, p)
    BY <1>1, <1>3, <2>1 DEF IsBetterFeasible
  <2> QED
    BY <1>1, <1>3, <2>1, <2>2 DEF IsBest
<1>4. CASE p \in Feasible /\ b # None /\ IsBetterFeasible(p, b)
  <2>1. Better(b, p) = p /\ b \in Feasible /\ \A q \in R : ~IsBetterFeasible(q, b)
    BY <1>4 DEF Better, IsBest
  <2>2. \A q \in R \cup {p} : ~IsBetterFeasible(q, p)
    BY <1>1, <1>4, <2>1 DEF IsBetterFeasible
  <2> QED
    BY <1>1, <1>4, <2>1, <2>2 DEF IsBest
<1>5. CASE p \in Feasible /\ b # None /\ ~IsBetterFeasible(p, b)
  BY <1>5 DEF Better, IsBest
<1> QED
  BY <1>2, <1>3, <1>4, <1>5

(* BestOf is computed record by record.                                    *)
LEMMA BestOfSteps ==
  ASSUME NEW records \in Seq(Policy), NEW b \in Policy \cup {None}
  PROVE  \E upto \in [0 .. Len(records) -> Policy \cup {None}] :
           /\ upto[0] = b /\ upto[Len(records)] = BestOf(records, b)
           /\ \A i \in 1 .. Len(records) : upto[i] = Better(upto[i - 1], records[i])
<1> DEFINE n == Len(records)
           S == Policy \cup {None}
           step == [xi \in S \X (1 .. n) |-> Better(xi[1], records[xi[2]])]
           F(c) == [i \in 0 .. n |-> IF i = 0 THEN b ELSE Better(c[i - 1], records[i])]
           upto == CHOOSE c : c = F(c)
<1>1. n \in Nat /\ \A i \in 1 .. n : records[i] \in Policy
  BY LenProperties, ElementOfSeq
<1>2. /\ step \in [S \X (1 .. n) -> S]
      /\ \A x \in S, i \in 1 .. n : step[<<x, i>>] = Better(x, records[i])
  BY <1>1 DEF Better
<1> HIDE DEF n, S, step
<1>3. PICK f \in [0 .. n -> S] : Stepwise(f, n, b, step)
  <2>1. b \in S
    BY DEF S
  <2> QED
    BY <1>1, <1>2, <2>1, RecursiveFunction
<1>4. f[0] = b /\ \A i \in 1 .. n : f[i] = Better(f[i - 1], records[i])
  <2>1. f[0] = b /\ \A i \in 1 .. n : f[i] = step[<<f[i - 1], i>>]
    BY <1>3 DEF Stepwise
  <2> SUFFICES ASSUME NEW i \in 1 .. n PROVE f[i] = Better(f[i - 1], records[i])
    BY <2>1
  <2>2. i - 1 \in 0 .. n
    BY <1>1
  <2> QED
    BY <1>2, <2>1, <2>2
<1>5. f = F(f)
  <2>1. \A i \in 0 .. n : f[i] = F(f)[i]
    BY <1>1, <1>3, <1>4
  <2> QED
    BY <1>3, <2>1
<1>6. upto = F(upto)
  BY <1>5
<1>7. upto[n] = BestOf(records, b)
  BY DEF BestOf, n
<1> DEFINE g == F(upto)
<1>8. /\ DOMAIN g = 0 .. n /\ g[0] = b
      /\ \A i \in 1 .. n : g[i] = Better(upto[i - 1], records[i])
  BY <1>1
<1>9. upto = g
  BY <1>6
<1>9a. g = [i \in 0 .. n |-> g[i]]
  OBVIOUS
<1> HIDE DEF upto, g
<1>10. /\ upto = [i \in 0 .. n |-> upto[i]] /\ upto[0] = b
       /\ \A i \in 1 .. n : upto[i] = Better(upto[i - 1], records[i])
  BY <1>8, <1>9, <1>9a
<1>11. \A i \in 0 .. n : upto[i] \in S
  <2> DEFINE In == {i \in 0 .. n : upto[i] \in S}
  <2>1. 0 \in In
    BY <1>1, <1>10 DEF S
  <2>2. ASSUME NEW i \in 1 .. n, i - 1 \in In PROVE i \in In
    <3>1. upto[i] = Better(upto[i - 1], records[i]) /\ upto[i - 1] \in S /\ records[i] \in Policy
      BY <1>1, <1>10, <2>2
    <3>2. upto[i] \in S
      BY <3>1 DEF Better, S
    <3>3. i \in 0 .. n
      BY <1>1
    <3> QED
      BY <3>2, <3>3
  <2> HIDE DEF In
  <2>3. \A i \in 0 .. n : i \in In
    BY <1>1, <2>1, <2>2, UpTo
  <2> QED
    BY <2>3 DEF In
<1> QED
  BY <1>7, <1>10, <1>11 DEF n, S

LEMMA BestOfIsBest ==
  ASSUME NEW R \in SUBSET Policy, NEW b, IsBest(b, R), NEW records \in Seq(Policy)
  PROVE  IsBest(BestOf(records, b), R \cup ToSet(records))
<1> DEFINE n == Len(records)
           Seen(i) == R \cup {records[j] : j \in 1 .. i}
<1>1. n \in Nat /\ DOMAIN records = 1 .. n /\ \A i \in 1 .. n : records[i] \in Policy
  BY LenProperties, ElementOfSeq
<1>2. PICK upto \in [0 .. n -> Policy \cup {None}] :
         /\ upto[0] = b /\ upto[n] = BestOf(records, b)
         /\ \A i \in 1 .. n : upto[i] = Better(upto[i - 1], records[i])
  BY BestOfSteps DEF IsBest
<1> HIDE DEF n
<1> DEFINE In == {i \in 0 .. n : IsBest(upto[i], Seen(i))}
<1>3. 0 \in In
  <2>1. Seen(0) = R /\ 0 \in 0 .. n
    BY <1>1
  <2>2. IsBest(upto[0], Seen(0))
    BY <1>2, <2>1
  <2> HIDE DEF Seen
  <2> QED
    BY <2>1, <2>2
<1>4. ASSUME NEW i \in 1 .. n, i - 1 \in In PROVE i \in In
  <2>1. Seen(i) = Seen(i - 1) \cup {records[i]}
    <3>1. 1 .. i = (1 .. i - 1) \cup {i}
      BY <1>1
    <3> QED
      BY <3>1
  <2>2. Seen(i - 1) \in SUBSET Policy
    BY <1>1
  <2>3. IsBest(upto[i - 1], Seen(i - 1))
    BY <1>4
  <2> HIDE DEF Seen
  <2>4. IsBest(Better(upto[i - 1], records[i]), Seen(i - 1) \cup {records[i]})
    BY <1>1, <2>2, <2>3, BetterIsBest
  <2>5. IsBest(upto[i], Seen(i))
    BY <1>2, <2>1, <2>4
  <2>6. i \in 0 .. n
    BY <1>1
  <2> QED
    BY <2>5, <2>6
<1>5. n \in In
  <2> HIDE DEF In
  <2>1. \A i \in 0 .. n : i \in In
    BY <1>1, <1>3, <1>4, UpTo
  <2> QED
    BY <1>1, <2>1
<1>6. ToSet(records) = {records[j] : j \in 1 .. n}
  BY <1>1 DEF ToSet
<1> QED
  BY <1>2, <1>5, <1>6

(* The scan is computed line by line, and finds a best readable record.    *)
LEMMA ScanSteps ==
  ASSUME NEW file \in File
  PROVE  \E seeded \in [0 .. Len(file) -> [count : Nat, best : Policy \cup {None}]] :
           /\ seeded[0] = [count |-> 0, best |-> None]
           /\ seeded[Len(file)] = ScanExistingEvaluations(file)
           /\ \A i \in 1 .. Len(file) :
                seeded[i].best = IF file[i].text = Broken THEN seeded[i - 1].best
                                 ELSE Better(seeded[i - 1].best, file[i].text)
<1> DEFINE n == Len(file)
           S == [count : Nat, best : Policy \cup {None}]
           start == [count |-> 0, best |-> None]
           next(x, i) == IF file[i].text = Broken THEN x
                         ELSE [count |-> x.count + 1, best |-> Better(x.best, file[i].text)]
           step == [xi \in S \X (1 .. n) |-> next(xi[1], xi[2])]
           F(c) == [i \in 0 .. n |-> IF i = 0 THEN start ELSE next(c[i - 1], i)]
           seeded == CHOOSE c : c = F(c)
<1>1. n \in Nat /\ \A i \in 1 .. n : file[i].text \in Policy \cup {Broken}
  <2>1. file \in Seq(LineType)
    BY DEF File
  <2>2. Len(file) \in Nat /\ \A i \in 1 .. Len(file) : file[i] \in LineType
    BY <2>1, LenProperties, ElementOfSeq
  <2> QED
    BY <2>2 DEF LineType, Text
<1>2. start \in S
  OBVIOUS
<1>3. \A x \in S, i \in 1 .. n : next(x, i) \in S
  <2> TAKE x \in S, i \in 1 .. n
  <2>1. CASE file[i].text = Broken
    BY <2>1
  <2>2. CASE file[i].text # Broken
    <3>1. file[i].text \in Policy
      BY <1>1, <2>2
    <3>2. Better(x.best, file[i].text) \in Policy \cup {None}
      BY <3>1 DEF Better
    <3> QED
      BY <2>2, <3>2
  <2> QED
    BY <2>1, <2>2
<1>4. /\ step \in [S \X (1 .. n) -> S]
      /\ \A x \in S, i \in 1 .. n : step[<<x, i>>] = next(x, i)
  <2> HIDE DEF next, S, n
  <2> QED
    BY <1>3
<1>5. seeded[n] = ScanExistingEvaluations(file)
  BY DEF ScanExistingEvaluations
<1> HIDE DEF n, S, start, step, next
<1>6. PICK f \in [0 .. n -> S] : Stepwise(f, n, start, step)
  BY <1>1, <1>2, <1>4, RecursiveFunction
<1>7. f[0] = start /\ \A i \in 1 .. n : f[i] = next(f[i - 1], i)
  <2>1. f[0] = start /\ \A i \in 1 .. n : f[i] = step[<<f[i - 1], i>>]
    BY <1>6 DEF Stepwise
  <2> SUFFICES ASSUME NEW i \in 1 .. n PROVE f[i] = next(f[i - 1], i)
    BY <2>1
  <2>2. i - 1 \in 0 .. n
    BY <1>1
  <2> QED
    BY <1>4, <2>1, <2>2
<1>8. f = F(f)
  <2>1. \A i \in 0 .. n : f[i] = F(f)[i]
    BY <1>1, <1>6, <1>7
  <2> QED
    BY <1>6, <2>1
<1>9. seeded = F(seeded)
  BY <1>8
<1> DEFINE g == F(seeded)
<1>10. /\ g = [i \in 0 .. n |-> g[i]] /\ g[0] = start
       /\ \A i \in 1 .. n : g[i] = next(seeded[i - 1], i)
  BY <1>1
<1>11. seeded = g
  BY <1>9
<1> HIDE DEF seeded, g
<1>12. /\ seeded = [i \in 0 .. n |-> seeded[i]] /\ seeded[0] = start
       /\ \A i \in 1 .. n : seeded[i] = next(seeded[i - 1], i)
  BY <1>10, <1>11
<1>13. \A i \in 0 .. n : seeded[i] \in S
  <2> DEFINE In == {i \in 0 .. n : seeded[i] \in S}
  <2>1. 0 \in In
    BY <1>1, <1>2, <1>12
  <2>2. ASSUME NEW i \in 1 .. n, i - 1 \in In PROVE i \in In
    <3>1. seeded[i] = next(seeded[i - 1], i) /\ seeded[i - 1] \in S
      BY <1>12, <2>2
    <3>2. seeded[i] \in S /\ i \in 0 .. n
      BY <1>1, <1>3, <3>1
    <3> QED
      BY <3>2
  <2> HIDE DEF In
  <2>3. \A i \in 0 .. n : i \in In
    BY <1>1, <2>1, <2>2, UpTo
  <2> QED
    BY <2>3 DEF In
<1>14. ASSUME NEW i \in 1 .. n
       PROVE  seeded[i].best = IF file[i].text = Broken THEN seeded[i - 1].best
                               ELSE Better(seeded[i - 1].best, file[i].text)
  <2>1. seeded[i] = next(seeded[i - 1], i)
    BY <1>12
  <2>2. CASE file[i].text = Broken
    BY <2>1, <2>2 DEF next
  <2>3. CASE file[i].text # Broken
    BY <2>1, <2>3 DEF next
  <2> QED
    BY <2>2, <2>3
<1> QED
  BY <1>5, <1>12, <1>13, <1>14 DEF n, S, start

LEMMA ScanIsBest ==
  ASSUME NEW file \in File
  PROVE  /\ ScanExistingEvaluations(file) \in [count : Nat, best : Policy \cup {None}]
         /\ IsBest(ScanExistingEvaluations(file).best, Readable(file))
<1> DEFINE n == Len(file)
           Seen(i) == {file[j].text : j \in 1 .. i} \ {Broken}
<1>1. /\ n \in Nat /\ DOMAIN file = 1 .. n
      /\ \A i \in 1 .. n : file[i].text \in Policy \cup {Broken}
  <2>1. file \in Seq(LineType)
    BY DEF File
  <2>2. /\ Len(file) \in Nat /\ DOMAIN file = 1 .. Len(file)
        /\ \A i \in 1 .. Len(file) : file[i] \in LineType
    BY <2>1, LenProperties, ElementOfSeq
  <2> QED
    BY <2>2 DEF LineType, Text
<1>2. PICK seeded \in [0 .. n -> [count : Nat, best : Policy \cup {None}]] :
         /\ seeded[0] = [count |-> 0, best |-> None]
         /\ seeded[n] = ScanExistingEvaluations(file)
         /\ \A i \in 1 .. n :
              seeded[i].best = IF file[i].text = Broken THEN seeded[i - 1].best
                               ELSE Better(seeded[i - 1].best, file[i].text)
  BY ScanSteps
<1> HIDE DEF n
<1> DEFINE In == {i \in 0 .. n : IsBest(seeded[i].best, Seen(i))}
<1>3. 0 \in In
  <2>1. IsBest(seeded[0].best, {})
    BY <1>2 DEF IsBest
  <2>2. Seen(0) = {} /\ 0 \in 0 .. n
    BY <1>1
  <2> HIDE DEF Seen
  <2> QED
    BY <2>1, <2>2
<1>4. ASSUME NEW i \in 1 .. n, i - 1 \in In PROVE i \in In
  <2>1. 1 .. i = (1 .. i - 1) \cup {i} /\ i \in 0 .. n
    BY <1>1
  <2>2. Seen(i - 1) \in SUBSET Policy
    BY <1>1
  <2>3. IsBest(seeded[i - 1].best, Seen(i - 1))
    BY <1>4
  <2>4. CASE file[i].text = Broken
    <3>1. Seen(i) = Seen(i - 1) /\ seeded[i].best = seeded[i - 1].best
      BY <1>2, <2>1, <2>4
    <3> HIDE DEF Seen
    <3> QED
      BY <2>1, <2>3, <3>1
  <2>5. CASE file[i].text # Broken
    <3>1. Seen(i) = Seen(i - 1) \cup {file[i].text}
      BY <2>1, <2>5
    <3>2. seeded[i].best = Better(seeded[i - 1].best, file[i].text) /\ file[i].text \in Policy
      BY <1>1, <1>2, <2>5
    <3> HIDE DEF Seen
    <3>3. IsBest(seeded[i].best, Seen(i))
      BY <2>2, <2>3, <3>1, <3>2, BetterIsBest
    <3> QED
      BY <2>1, <3>3
  <2> QED
    BY <2>4, <2>5
<1>5. n \in In
  <2> HIDE DEF In
  <2>1. \A i \in 0 .. n : i \in In
    BY <1>1, <1>3, <1>4, UpTo
  <2> QED
    BY <1>1, <2>1
<1>6. Seen(n) = Readable(file)
  BY <1>1 DEF Readable
<1>7. seeded[n] \in [count : Nat, best : Policy \cup {None}]
  BY <1>1, <1>2
<1> HIDE DEF Seen
<1> QED
  BY <1>2, <1>5, <1>6, <1>7
-----------------------------------------------------------------------------
(* TypeOK is inductive beside FileInv, and so is the running best as long  *)
(* as nothing is glued to a torn record.                                   *)
LEMMA NextTypeOK == FileInv /\ TypeOK /\ [Next]_corpusVars => TypeOK'
<1> SUFFICES ASSUME FileInv, TypeOK, [Next]_corpusVars, FileInv' PROVE TypeOK'
  BY NextFileInv
<1> DEFINE Summaries == [state : {None, "torn", "completed", "cancelled"},
                         best : Policy \cup {None}, evaluated : SUBSET Policy]
           Writers == [open : BOOLEAN, count : Nat, best : Policy \cup {None}, unsynced : Nat]
<1>1. /\ \A i \in DOMAIN lines' : /\ lines'[i].text \in Policy \cup {Broken}
                                  /\ lines'[i].ended \in BOOLEAN
                                  /\ i < Len(lines') => lines'[i].ended
      /\ durable' \in 0 .. Len(lines') /\ credited' \subseteq Policy
  <2>1. lines' \in Seq(LineType) /\ \A i \in DOMAIN lines' : i < Len(lines') => lines'[i].ended
    BY DEF FileInv, File
  <2>2. \A i \in DOMAIN lines' : lines'[i] \in LineType
    BY <2>1, LenProperties, ElementOfSeq
  <2> QED
    BY <2>1, <2>2 DEF FileInv, LineType, Text
<1>2. /\ NotOpen \in Writers /\ [NotOpen EXCEPT !.open = TRUE] \in Writers
      /\ NoSummary \in Summaries /\ [NoSummary EXCEPT !.state = "torn"] \in Summaries
      /\ \A state \in {"completed", "cancelled"} :
           [state |-> state, best |-> writer.best, evaluated |-> credited] \in Summaries
  BY DEF NotOpen, NoSummary, TypeOK
<1> SUFFICES /\ manifest' \in {None, "torn", "whole"} /\ summary' \in Summaries
             /\ writer' \in Writers /\ crashes' \in 0 .. MaxCrashes
  BY <1>1 DEF TypeOK
<1>3. /\ manifest \in {None, "torn", "whole"} /\ summary \in Summaries
      /\ writer \in Writers /\ crashes \in 0 .. MaxCrashes
  BY DEF TypeOK
<1>4. ASSUME NEW file, NEW safe, Stop(file, safe)
      PROVE  writer' = NotOpen /\ crashes' \in 0 .. MaxCrashes
  BY <1>3, <1>4, CorpusAssumption DEF Stop
<1> HIDE DEF Writers, Summaries
<1>5. CASE OpenFresh
  BY <1>2, <1>3, <1>5 DEF OpenFresh
<1>6. CASE Resume
  <2>1. ScanExistingEvaluations(lines) \in [count : Nat, best : Policy \cup {None}]
    BY ScanIsBest DEF FileInv
  <2>2. writer' \in Writers
    BY <1>6, <2>1 DEF Resume, Writers
  <2> QED
    BY <1>3, <1>6, <2>2 DEF Resume
<1>7. ASSUME NEW records \in Batches, NEW elapsed \in BOOLEAN, AppendEvaluations(records, elapsed)
      PROVE  writer' \in Writers
  <2>1. NewBatch(records, lines) /\ Len(records) \in Nat /\ writer.open
    BY <1>7, BatchesAreNew DEF AppendEvaluations
  <2>2. PICK upto \in [0 .. Len(records) -> Policy \cup {None}] :
          upto[Len(records)] = BestOf(records, writer.best)
    BY <1>3, <2>1, BestOfSteps DEF NewBatch, Writers
  <2>3. BestOf(records, writer.best) \in Policy \cup {None}
    BY <2>1, <2>2
  <2>4. /\ writer.open \in BOOLEAN /\ writer.count \in Nat /\ writer.unsynced \in Nat
        /\ DOMAIN writer = {"open", "count", "best", "unsynced"}
    BY <1>3 DEF Writers
  <2> DEFINE syncs == elapsed \/ writer.unsynced + 1 >= CORPUS_FSYNC_EVERY_BATCHES
             count == writer.count + Len(records)
             unsynced == IF syncs THEN 0 ELSE writer.unsynced + 1
  <2>5. writer' = [writer EXCEPT !.count = @ + Len(records),
                                 !.best = BestOf(records, @),
                                 !.unsynced = IF syncs THEN 0 ELSE @ + 1]
    BY <1>7 DEF AppendEvaluations
  <2>6. count \in Nat /\ unsynced \in Nat
    BY <2>1, <2>4
  <2>7. writer' = [writer EXCEPT !.count = count, !.best = BestOf(records, writer.best),
                                 !.unsynced = unsynced]
    BY <1>3, <2>5 DEF Writers
  <2> HIDE DEF count, unsynced, syncs
  <2> QED
    BY <1>3, <2>3, <2>6, <2>7 DEF Writers
<1>8. ASSUME NEW records \in Batches, NEW elapsed \in BOOLEAN, AppendEvaluations(records, elapsed)
      PROVE  UNCHANGED <<manifest, summary, crashes>>
  BY <1>8 DEF AppendEvaluations
<1>9. ASSUME NEW state \in {"completed", "cancelled"}, Close(state)
      PROVE  /\ manifest' \in {None, "torn", "whole"} /\ summary' \in Summaries
             /\ writer' \in Writers /\ crashes' \in 0 .. MaxCrashes
  BY <1>2, <1>3, <1>9 DEF Close
<1>10. CASE KillInOpen
  BY <1>2, <1>3, <1>4, <1>10 DEF KillInOpen
<1>11. CASE Kill
  BY <1>2, <1>3, <1>4, <1>11 DEF Kill
<1>12. CASE KillInClose
  BY <1>2, <1>3, <1>4, <1>12 DEF KillInClose
<1>13. ASSUME NEW records \in Batches, KillInAppend(records)
       PROVE  /\ manifest' \in {None, "torn", "whole"} /\ summary' \in Summaries
              /\ writer' \in Writers /\ crashes' \in 0 .. MaxCrashes
  BY <1>2, <1>3, <1>4, <1>13 DEF KillInAppend
<1>14. CASE LosePower
  BY <1>2, <1>3, <1>4, <1>14 DEF LosePower
<1>15. CASE UNCHANGED corpusVars
  BY <1>3, <1>15 DEF corpusVars
<1> QED
  BY <1>3, <1>5, <1>6, <1>7, <1>8, <1>9, <1>10, <1>11, <1>12, <1>13, <1>14, <1>15 DEF Next

(* Every variable holds what its declaration says, whatever a kill or a    *)
(* power loss leaves.                                                      *)
THEOREM TypeCorrect == Spec => []TypeOK
<1>1. Init => FileInv /\ TypeOK
  <2> SUFFICES ASSUME Init PROVE TypeOK
    BY InitInvs
  <2>1. DOMAIN lines = {} /\ Len(lines) = 0
    BY EmptySeq DEF Init
  <2> QED
    BY <2>1, CorpusAssumption DEF Init, TypeOK, NoSummary, NotOpen
<1>2. FileInv /\ TypeOK /\ [Next]_corpusVars => (FileInv /\ TypeOK)'
  BY NextFileInv, NextTypeOK
<1> QED
  BY <1>1, <1>2, PTL DEF Spec

BestInv == writer.open => IsBest(writer.best, Readable(lines))

LEMMA NextBestInv ==
  ASSUME FileInv, CleanInv, BestInv, [Next]_corpusVars
  PROVE  BestInv'
<1>1. CASE OpenFresh
  <2>1. writer'.best = None /\ lines' = <<>>
    BY <1>1 DEF OpenFresh, FileInv, NotOpen
  <2>2. Readable(lines)' = {}
    BY <2>1 DEF Readable
  <2> QED
    BY <2>1, <2>2 DEF BestInv, IsBest
<1>2. CASE Resume
  <2>1. IsBest(ScanExistingEvaluations(lines).best, Readable(lines))
    BY ScanIsBest DEF FileInv
  <2>2. writer'.best = ScanExistingEvaluations(lines).best /\ lines' = lines
    BY <1>2 DEF Resume
  <2>3. IsBest(writer'.best, Readable(lines'))
    BY <2>1, <2>2
  <2> QED
    BY <2>3 DEF BestInv
<1>3. ASSUME NEW records \in Batches, NEW elapsed \in BOOLEAN, AppendEvaluations(records, elapsed)
      PROVE  BestInv'
  <2>1. /\ writer.open /\ lines' = AppendTo(lines, records)
        /\ writer'.best = BestOf(records, writer.best)
    BY <1>3, Zenon DEF AppendEvaluations, FileInv
  <2>2. NewBatch(records, lines) /\ ToSet(records) \subseteq Policy
    BY <2>1, BatchesAreNew
  <2>3. records \in Seq(Text) /\ records # <<>> /\ Fresh(records, lines)
    BY <2>2, NewBatchIsFresh
  <2>4. Len(lines) \in Nat /\ (lines = <<>> \/ Len(lines) \in DOMAIN lines)
    BY LenProperties, EmptySeq DEF FileInv, File
  <2>5. ~Glued(lines) /\ Shift(lines) = Len(lines)
    BY <2>4 DEF CleanInv, Clean, Glued, Shift, Last
  <2>6. /\ lines' \in File /\ \A i \in 1 .. Len(lines) : lines'[i] = lines[i]
        /\ Len(lines) <= Len(lines')
        /\ Readable(lines') \subseteq Readable(lines) \cup ToSet(records)
        /\ ToSet(records) \ {Broken} \subseteq Readable(lines')
    BY <2>1, <2>3, <2>5, AppendKeeps DEF FileInv
  <2>7. Readable(lines) \subseteq Readable(lines')
    <3>1. /\ DOMAIN lines = 1 .. Len(lines) /\ DOMAIN lines' = 1 .. Len(lines')
          /\ Len(lines') \in Nat
      BY <2>6, LenProperties DEF FileInv, File
    <3>2. \A i \in DOMAIN lines : i \in DOMAIN lines' /\ lines'[i] = lines[i]
      BY <2>4, <2>6, <3>1
    <3> QED
      BY <3>2 DEF Readable
  <2>8. Readable(lines') = Readable(lines) \cup ToSet(records)
    BY <2>2, <2>6, <2>7, CorpusAssumption
  <2>9. Readable(lines) \subseteq Policy
    BY <2>1 DEF FileInv
  <2>10. IsBest(BestOf(records, writer.best), Readable(lines) \cup ToSet(records))
    BY <2>1, <2>2, <2>9, BestOfIsBest DEF BestInv, NewBatch
  <2>11. IsBest(writer'.best, Readable(lines'))
    BY <2>1, <2>8, <2>10
  <2> QED
    BY <2>11 DEF BestInv
<1>4. ASSUME writer' = NotOpen PROVE BestInv'
  BY <1>4 DEF BestInv, NotOpen
<1>5. ASSUME NEW state, Close(state) PROVE BestInv'
  BY <1>4, <1>5 DEF Close
<1>6. ASSUME NEW records, KillInAppend(records) PROVE BestInv'
  BY <1>4, <1>6 DEF KillInAppend, Stop
<1>7. CASE KillInOpen \/ Kill \/ KillInClose \/ LosePower
  BY <1>4, <1>7 DEF KillInOpen, Kill, KillInClose, LosePower, Stop
<1>8. CASE UNCHANGED corpusVars
  BY <1>8 DEF corpusVars, BestInv, Readable
<1> QED
  BY <1>1, <1>2, <1>3, <1>5, <1>6, <1>7, <1>8 DEF Next

(* The best the writer broadcasts, kept append by append and seeded by the *)
(* scan on resume, is a best one of the records a reader of the file finds.*)
THEOREM RunningBestIsBest == ASSUME ~TornWrites PROVE Spec => []BestIsBest
<1>1. Init => FileInv /\ CleanInv /\ BestInv
  BY InitInvs DEF Init, BestInv, NotOpen
<1>2. FileInv /\ CleanInv /\ BestInv /\ [Next]_corpusVars => (FileInv /\ CleanInv /\ BestInv)'
  BY NextFileInv, NextCleanInv, NextBestInv
<1>3. BestInv => BestIsBest
  BY DEF BestInv, IsBest, BestIsBest
<1> QED
  BY <1>1, <1>2, <1>3, PTL DEF Spec
=============================================================================
